---------------------------- MODULE ProgramProofs ----------------------------
(***************************************************************************)
(* Proofs about the user programs of MCPrograms: the booth, the petrol     *)
(* station, the badminton academy, the reminders of the first shell, the   *)
(* reverser of files and the merge sorts, for every value of their         *)
(* constants.  Each has an inductive invariant of its own, and a step of   *)
(* one program leaves the others alone.                                    *)
(***************************************************************************)
EXTENDS MCPrograms, FiniteSetTheorems, FunctionTheorems, SequenceTheorems,
        WellFoundedInduction, TLAPS

-----------------------------------------------------------------------------
(* The polling booth *)

(* Booth counts with the same Cardinality.                                 *)
LEMMA BoothCounts ==
    /\ Q!SlotAccounting <=> \A e \in Evms : /\ occupied[e] = Cardinality(Q!Seated(e))
                                            /\ occupied[e] <= EvmSlots
    /\ Q!AtMostOnePhantom <=> voted \subseteq 0..Voters /\ votes = Voters - Cardinality(voted)
<1>1. \A X : Q!Cardinality(X) = Cardinality(X)
  BY DEF Q!Cardinality, Cardinality
<1> QED
  BY <1>1 DEF Q!SlotAccounting, Q!AtMostOnePhantom

LEMMA BoothCountsNext ==
    /\ (Q!SlotAccounting)' <=> \A e \in Evms : /\ occupied'[e] = Cardinality(Q!Seated(e)')
                                               /\ occupied'[e] <= EvmSlots
    /\ (Q!AtMostOnePhantom)' <=> voted' \subseteq 0..Voters /\ votes' = Voters - Cardinality(voted')
<1>1. \A X : Q!Cardinality(X) = Cardinality(X)
  BY DEF Q!Cardinality, Cardinality
<1> QED
  BY <1>1 DEF Q!SlotAccounting, Q!AtMostOnePhantom

(* The seats of one EVM are a finite set: it is a set of robots. *)
LEMMA SeatedFinite ==
    ASSUME NEW e \in Evms
    PROVE  IsFiniteSet(Q!Seated(e))
  BY BoothAssumption, FS_Subset DEF Q!Seated

(* The votes cast are finitely many as long as all IDs are in 0..Voters. *)
LEMMA VotedFinite ==
    ASSUME voted \subseteq 0..Voters
    PROVE  IsFiniteSet(voted)
<1>1. IsFiniteSet(0..Voters)
  BY BoothAssumption, FS_Interval
<1> QED
  BY <1>1, FS_Subset

(* A robot that takes a slot of EVM e adds one to the robots seated there  *)
(* and leaves the other EVMs alone (voter_wait_for_evm).                   *)
LEMMA SitDown ==
    ASSUME Q!BoothInv, NEW r \in Robots, NEW e \in Evms, assigned[r] = NoEvm,
           assigned' = [assigned EXCEPT ![r] = e]
    PROVE  /\ Cardinality(Q!Seated(e)') = Cardinality(Q!Seated(e)) + 1
           /\ \A f \in Evms \ {e} : Q!Seated(f)' = Q!Seated(f)
<1>1. Q!Seated(e)' = Q!Seated(e) \cup {r} /\ r \notin Q!Seated(e)
  BY BoothAssumption DEF Q!Seated, Q!BoothInv, Q!TypeOK
<1>2. \A f \in Evms \ {e} : Q!Seated(f)' = Q!Seated(f)
  BY BoothAssumption DEF Q!Seated, Q!BoothInv, Q!TypeOK
<1>3. Cardinality(Q!Seated(e) \cup {r}) = Cardinality(Q!Seated(e)) + 1
  BY <1>1, SeatedFinite, FS_AddElement
<1> QED
  BY <1>1, <1>2, <1>3

(* A robot that leaves its slot takes one from the robots seated there and *)
(* leaves the other EVMs alone (voter_in_slot).                            *)
LEMMA StandUp ==
    ASSUME Q!BoothInv, NEW r \in Robots, NEW e \in Evms, assigned[r] = e,
           assigned' = [assigned EXCEPT ![r] = NoEvm]
    PROVE  /\ Cardinality(Q!Seated(e)') = Cardinality(Q!Seated(e)) - 1
           /\ \A f \in Evms \ {e} : Q!Seated(f)' = Q!Seated(f)
<1>1. Q!Seated(e)' = Q!Seated(e) \ {r} /\ r \in Q!Seated(e)
  BY BoothAssumption DEF Q!Seated, Q!BoothInv, Q!TypeOK
<1>2. \A f \in Evms \ {e} : Q!Seated(f)' = Q!Seated(f)
  BY BoothAssumption DEF Q!Seated, Q!BoothInv, Q!TypeOK
<1>3. Cardinality(Q!Seated(e) \ {r}) = Cardinality(Q!Seated(e)) - 1
  BY <1>1, SeatedFinite, FS_RemoveElement
<1> QED
  BY <1>1, <1>2, <1>3

-----------------------------------------------------------------------------

(* The booth starts with nobody seated and no vote cast. *)
LEMMA BoothInitially == Q!Init => Q!BoothInv
<1> SUFFICES ASSUME Q!Init PROVE Q!BoothInv
  OBVIOUS
<1>1. \A e \in Evms : Q!Seated(e) = {}
  BY BoothAssumption DEF Q!Init, Q!Seated
<1>2. Q!Holding = {}
  BY DEF Q!Init, Q!Holding
<1>3. Q!TypeOK
  BY BoothAssumption DEF Q!Init, Q!TypeOK
<1>4. Q!SlotAccounting
  BY <1>1, FS_EmptySet, BoothAssumption, BoothCounts DEF Q!Init
<1>5. Q!PublishedHasRoom /\ Q!SeatedWhileVoting
  BY DEF Q!Init, Q!PublishedHasRoom, Q!SeatedWhileVoting
<1>6. Q!IdsAboveCounter /\ Q!VoterOnce
  BY <1>2, BoothAssumption DEF Q!Init, Q!IdsAboveCounter, Q!VoterOnce
<1>7. Q!AtMostOnePhantom
  BY FS_EmptySet, BoothAssumption, BoothCounts DEF Q!Init
<1> QED
  BY <1>3, <1>4, <1>5, <1>6, <1>7 DEF Q!BoothInv

(* A step that leaves the counters, the slots and the holders of voters    *)
(* alone keeps everything but, perhaps, the types.                         *)
LEMMA QuietStep ==
    ASSUME Q!BoothInv, Q!TypeOK', Q!PublishedHasRoom',
           UNCHANGED <<unassigned, votes, occupied, assigned, voted>>,
           \A r \in Robots : /\ robotpc'[r] = "vote" <=> robotpc[r] = "vote"
                             /\ robotpc'[r] \in {"wait", "vote"}
                                  => robotpc[r] \in {"wait", "vote"}
                             /\ robotpc'[r] \in {"wait", "vote"}
                                  => voterID'[r] = voterID[r]
    PROVE  Q!BoothInv'
<1>1. \A e \in Evms : Q!Seated(e)' = Q!Seated(e)
  BY DEF Q!Seated
<1>2. Q!SlotAccounting'
  BY <1>1 DEF Q!BoothInv, Q!SlotAccounting
<1>3. Q!SeatedWhileVoting'
  BY DEF Q!BoothInv, Q!SeatedWhileVoting
<1>4. \A r \in Q!Holding' : r \in Q!Holding /\ voterID'[r] = voterID[r]
  BY DEF Q!Holding
<1>5. Q!IdsAboveCounter' /\ Q!VoterOnce'
  BY <1>4 DEF Q!BoothInv, Q!IdsAboveCounter, Q!VoterOnce
<1>6. Q!AtMostOnePhantom'
  BY DEF Q!BoothInv, Q!AtMostOnePhantom
<1> QED
  BY <1>2, <1>3, <1>5, <1>6 DEF Q!BoothInv

(* The section of booth_get_voter hands out an ID below all others. *)
LEMMA TakeStep ==
    ASSUME Q!BoothInv, NEW r \in Robots, Q!RobotTake(r)
    PROVE  Q!BoothInv'
<1> USE DEF Q!RobotTake
<1>1. Q!TypeOK'
  BY DEF Q!BoothInv, Q!TypeOK
<1>2. \A e \in Evms : Q!Seated(e)' = Q!Seated(e)
  BY DEF Q!Seated
<1>3. Q!SlotAccounting' /\ Q!PublishedHasRoom'
  BY <1>2 DEF Q!BoothInv, Q!SlotAccounting, Q!PublishedHasRoom
<1>4. Q!SeatedWhileVoting'
  BY DEF Q!BoothInv, Q!SeatedWhileVoting, Q!TypeOK
<1>5. \A s \in Q!Holding' : \/ s # r /\ s \in Q!Holding /\ voterID'[s] = voterID[s]
                            \/ s = r /\ voterID'[s] = unassigned /\ unassigned >= 0
  <2>1. unassigned \in Int /\ robotpc \in [Robots -> {"new", "check", "take", "wait", "vote", "done"}]
        /\ voterID \in [Robots -> Int]
    BY DEF Q!BoothInv, Q!TypeOK
  <2>2. ASSUME NEW s \in Robots \ {r} PROVE robotpc'[s] = robotpc[s] /\ voterID'[s] = voterID[s]
    BY <2>1
  <2>3. voterID'[r] = unassigned /\ robotpc'[r] = IF unassigned <= -1 THEN "done" ELSE "wait"
    BY <2>1
  <2>4. robotpc'[r] \in {"wait", "vote"} => unassigned >= 0
    BY <2>1, <2>3
  <2> QED
    BY <2>2, <2>3, <2>4 DEF Q!Holding
<1>6. Q!IdsAboveCounter'
  BY <1>5, BoothAssumption DEF Q!BoothInv, Q!IdsAboveCounter, Q!TypeOK
<1>7. \A s \in Q!Holding : voterID[s] # unassigned
  BY BoothAssumption DEF Q!BoothInv, Q!IdsAboveCounter, Q!TypeOK
<1>8. unassigned \notin voted
  BY BoothAssumption DEF Q!BoothInv, Q!IdsAboveCounter, Q!TypeOK
<1>9. Q!VoterOnce'
  BY <1>5, <1>7, <1>8 DEF Q!BoothInv, Q!VoterOnce
<1>10. Q!AtMostOnePhantom'
  BY DEF Q!BoothInv, Q!AtMostOnePhantom
<1> QED
  BY <1>1, <1>3, <1>4, <1>6, <1>9, <1>10 DEF Q!BoothInv

(* The section of voter_wait_for_evm takes a slot of an EVM with room. *)
LEMMA WaitStep ==
    ASSUME Q!BoothInv, NEW r \in Robots, Q!RobotWait(r)
    PROVE  Q!BoothInv'
<1> USE DEF Q!RobotWait
<1>0. PICK e \in Evms : e = free
  BY DEF Q!BoothInv, Q!TypeOK
<1>1. free \in Evms /\ assigned[r] = NoEvm
  BY DEF Q!BoothInv, Q!TypeOK, Q!SeatedWhileVoting
<1>2. Q!TypeOK'
  BY <1>1 DEF Q!BoothInv, Q!TypeOK
<1>3. Q!SlotAccounting'
  <2>1. /\ Cardinality(Q!Seated(e)') = Cardinality(Q!Seated(e)) + 1
        /\ \A f \in Evms \ {e} : Q!Seated(f)' = Q!Seated(f)
    BY <1>0, <1>1, SitDown
  <2>2. occupied[e] < EvmSlots
    BY <1>0, <1>1, BoothAssumption DEF Q!BoothInv, Q!PublishedHasRoom, Q!TypeOK
  <2>3. ASSUME NEW f \in Evms
        PROVE  occupied'[f] = Cardinality(Q!Seated(f)') /\ occupied'[f] <= EvmSlots
    <3>1. CASE f = e
      BY <1>0, <2>1, <2>2, <3>1, BoothAssumption, BoothCounts DEF Q!BoothInv, Q!TypeOK
    <3>2. CASE f # e
      BY <1>0, <2>1, <3>2, BoothCounts DEF Q!BoothInv, Q!TypeOK
    <3> QED
      BY <3>1, <3>2
  <2> QED
    BY <2>3, BoothCountsNext
<1>4. Q!PublishedHasRoom'
  BY <1>1, BoothAssumption DEF Q!BoothInv, Q!PublishedHasRoom, Q!TypeOK
<1>5. Q!SeatedWhileVoting'
  BY <1>1, BoothAssumption DEF Q!BoothInv, Q!SeatedWhileVoting, Q!TypeOK
<1>6. Q!Holding' = Q!Holding
  BY DEF Q!Holding, Q!BoothInv, Q!TypeOK
<1>7. Q!IdsAboveCounter' /\ Q!VoterOnce' /\ Q!AtMostOnePhantom'
  BY <1>6 DEF Q!BoothInv, Q!IdsAboveCounter, Q!VoterOnce, Q!AtMostOnePhantom
<1> QED
  BY <1>2, <1>3, <1>4, <1>5, <1>7 DEF Q!BoothInv

(* The section of voter_in_slot gives the slot back and counts one vote.   *)
LEMMA VoteStep ==
    ASSUME Q!BoothInv, NEW r \in Robots, Q!RobotVote(r)
    PROVE  Q!BoothInv'
<1> USE DEF Q!RobotVote
<1>0. PICK e \in Evms : e = assigned[r]
  BY DEF Q!BoothInv, Q!TypeOK, Q!SeatedWhileVoting
<1>1. r \in Q!Holding /\ voterID[r] \in 0..Voters
  BY DEF Q!BoothInv, Q!TypeOK, Q!Holding, Q!IdsAboveCounter
<1>2. /\ Cardinality(Q!Seated(e)') = Cardinality(Q!Seated(e)) - 1
      /\ \A f \in Evms \ {e} : Q!Seated(f)' = Q!Seated(f)
  BY <1>0, StandUp
<1>3. Cardinality(Q!Seated(e)) \in Nat /\ Cardinality(Q!Seated(e)) > 0
  <2>1. r \in Q!Seated(e)
    BY <1>0 DEF Q!Seated
  <2> QED
    BY <2>1, SeatedFinite, FS_CardinalityType, FS_EmptySet
<1>4. occupied[e] > 0 /\ occupied[e] = Cardinality(Q!Seated(e))
  BY <1>3, BoothCounts DEF Q!BoothInv
<1>5. Q!TypeOK'
  BY <1>0, <1>4 DEF Q!BoothInv, Q!TypeOK
<1>6. Q!SlotAccounting'
  <2>1. ASSUME NEW f \in Evms
        PROVE  occupied'[f] = Cardinality(Q!Seated(f)') /\ occupied'[f] <= EvmSlots
    <3>1. CASE f = e
      BY <1>0, <1>2, <1>4, <3>1, BoothAssumption, BoothCounts DEF Q!BoothInv, Q!TypeOK
    <3>2. CASE f # e
      BY <1>0, <1>2, <3>2, BoothCounts DEF Q!BoothInv, Q!TypeOK
    <3> QED
      BY <3>1, <3>2
  <2> QED
    BY <2>1, BoothCountsNext
<1>7. Q!PublishedHasRoom'
  BY <1>0, <1>4, BoothAssumption DEF Q!BoothInv, Q!PublishedHasRoom, Q!TypeOK
<1>8. Q!SeatedWhileVoting'
  BY BoothAssumption DEF Q!BoothInv, Q!SeatedWhileVoting, Q!TypeOK
<1>9. Q!Holding' = Q!Holding \ {r}
  BY DEF Q!Holding, Q!BoothInv, Q!TypeOK
<1>10. Q!IdsAboveCounter' /\ Q!VoterOnce'
  BY <1>1, <1>9 DEF Q!BoothInv, Q!IdsAboveCounter, Q!VoterOnce
<1>11. Q!AtMostOnePhantom'
  <2>1. voterID[r] \notin voted
    BY <1>1 DEF Q!BoothInv, Q!VoterOnce
  <2>2. IsFiniteSet(voted)
    BY VotedFinite DEF Q!BoothInv, Q!AtMostOnePhantom
  <2>3. /\ Cardinality(voted \cup {voterID[r]}) = Cardinality(voted) + 1
        /\ Cardinality(voted) \in Nat
    BY <2>1, <2>2, FS_AddElement, FS_CardinalityType
  <2>4. voted' = voted \cup {voterID[r]} /\ votes' = votes - 1
    OBVIOUS
  <2>5. votes = Voters - Cardinality(voted) /\ voted \subseteq 0..Voters
    BY BoothCounts DEF Q!BoothInv
  <2>6. voted' \subseteq 0..Voters
    BY <1>1, <2>4, <2>5
  <2>7. votes' = Voters - Cardinality(voted')
    <3> HIDE DEF Q!RobotVote
    <3>1. Cardinality(voted') = Cardinality(voted) + 1
      BY <2>3, <2>4
    <3> QED
      BY <2>3, <2>4, <2>5, <3>1, BoothAssumption
  <2> QED
    BY <2>6, <2>7, BoothCountsNext
<1> QED
  BY <1>5, <1>6, <1>7, <1>8, <1>10, <1>11 DEF Q!BoothInv

-----------------------------------------------------------------------------

LEMMA BoothUnchanged == Q!BoothInv /\ UNCHANGED booth => Q!BoothInv'
<1> SUFFICES ASSUME Q!BoothInv, UNCHANGED booth PROVE Q!BoothInv'
  OBVIOUS
<1>1. Q!TypeOK' /\ Q!PublishedHasRoom' /\ UNCHANGED <<unassigned, votes, occupied, assigned, voted>>
      /\ UNCHANGED <<robotpc, voterID>>
  BY DEF Q!BoothInv, Q!TypeOK, Q!PublishedHasRoom, booth
<1> QED
  BY <1>1, QuietStep

(* Every step preserves BoothInv: one step of the proof for each action.   *)
LEMMA BoothStep == Q!BoothInv /\ Q!Next => Q!BoothInv'
<1> SUFFICES ASSUME Q!BoothInv, Q!Next PROVE Q!BoothInv'
  OBVIOUS
<1> DEFINE Quiet == UNCHANGED <<unassigned, votes, occupied, assigned, voted>>
<1>1. ASSUME NEW e \in Evms, Q!StartEvm(e) \/ Q!EvmLoop(e) \/ Q!EvmLook(e)
      PROVE  Q!BoothInv'
  <2>1. Q!TypeOK'
    BY <1>1 DEF Q!BoothInv, Q!TypeOK, Q!StartEvm, Q!EvmLoop, Q!EvmLook
  <2>2. Q!PublishedHasRoom'
    BY <1>1 DEF Q!BoothInv, Q!PublishedHasRoom, Q!StartEvm, Q!EvmLoop, Q!EvmLook
  <2>3. Quiet /\ UNCHANGED <<robotpc, voterID>>
    BY <1>1 DEF Q!StartEvm, Q!EvmLoop, Q!EvmLook
  <2> QED
    BY <2>1, <2>2, <2>3, QuietStep
<1>2. ASSUME NEW e \in Evms, Q!EvmPublish(e) PROVE Q!BoothInv'
  <2>1. Q!TypeOK'
    BY <1>2 DEF Q!BoothInv, Q!TypeOK, Q!EvmPublish
  <2>2. Q!PublishedHasRoom'
    BY <1>2, BoothAssumption
    DEF Q!BoothInv, Q!PublishedHasRoom, Q!SlotAccounting, Q!TypeOK, Q!EvmPublish
  <2>3. Quiet /\ UNCHANGED <<robotpc, voterID>>
    BY <1>2 DEF Q!EvmPublish
  <2> QED
    BY <2>1, <2>2, <2>3, QuietStep
<1>3. ASSUME NEW r \in Robots, Q!StartRobot(r) \/ Q!RobotCheck(r) PROVE Q!BoothInv'
  <2>1. Q!TypeOK'
    <3>1. CASE Q!StartRobot(r)
      BY <3>1 DEF Q!BoothInv, Q!TypeOK, Q!StartRobot
    <3>2. CASE Q!RobotCheck(r)
      BY <3>2 DEF Q!BoothInv, Q!TypeOK, Q!RobotCheck
    <3> QED
      BY <1>3, <3>1, <3>2
  <2>2. Q!PublishedHasRoom' /\ Quiet
    BY <1>3 DEF Q!BoothInv, Q!PublishedHasRoom, Q!StartRobot, Q!RobotCheck
  <2>3. /\ robotpc[r] \notin {"wait", "vote"} /\ robotpc'[r] \notin {"wait", "vote"}
        /\ \A s \in Robots \ {r} : robotpc'[s] = robotpc[s] /\ voterID'[s] = voterID[s]
    BY <1>3 DEF Q!BoothInv, Q!TypeOK, Q!StartRobot, Q!RobotCheck
  <2> QED
    BY <2>1, <2>2, <2>3, QuietStep
<1>4. ASSUME NEW r \in Robots, Q!RobotTake(r) PROVE Q!BoothInv'
  BY <1>4, TakeStep
<1>5. ASSUME NEW r \in Robots, Q!RobotWait(r) PROVE Q!BoothInv'
  BY <1>5, WaitStep
<1>6. ASSUME NEW r \in Robots, Q!RobotVote(r) PROVE Q!BoothInv'
  BY <1>6, VoteStep
<1>7. ASSUME Q!MainWait \/ Q!MainExit \/ Q!Exited PROVE Q!BoothInv'
  <2>1. Q!TypeOK' /\ Q!PublishedHasRoom' /\ Quiet /\ UNCHANGED <<robotpc, voterID>>
    BY <1>7
    DEF Q!BoothInv, Q!TypeOK, Q!PublishedHasRoom, Q!MainWait, Q!MainExit, Q!Exited, Q!vars
  <2> QED
    BY <2>1, QuietStep
<1> QED
  BY <1>1, <1>2, <1>3, <1>4, <1>5, <1>6, <1>7 DEF Q!Next, Q!EvmStep, Q!RobotStep


-----------------------------------------------------------------------------
(* The petrol station *)

CarPlaces == {"none", "start", "line", "wait"} \cup S!AtPump \cup S!Left
AttenderPlaces == {"serve", "load", "store", "accept"}
MainPlaces == {"enter", "count", "full", "wakeEnter", "drain", "undrained", "wakeDrain",
               "join", "exited"}
StationPlaces == CarPlaces \cup AttenderPlaces \cup MainPlaces

Counting == stpc[Main] = "count"

StationTypeOK ==
    /\ stpc \in [S!Threads -> StationPlaces] /\ reg \in [S!Threads -> Int]
    /\ queLow \in Nat /\ queHigh \in Nat /\ carCompleted \in Nat
    /\ ATM \in Int /\ ATMBUSY \in 0..2

(* A car has come if main has counted it, or is about to; the cars before  *)
(* queLow have left, and of the others one at most is at a pump.           *)
Come(c) == c < queHigh \/ (c = queHigh /\ Counting)

QueueInv ==
    /\ carCompleted = queHigh /\ queHigh <= CarLength
    /\ Counting => queHigh < CarLength /\ queHigh - queLow < QueueSize
    /\ queHigh - queLow <= QueueSize
    /\ queLow <= queHigh \/ (queLow = queHigh + 1 /\ Counting)
    /\ \A c \in S!Cars : /\ stpc[c] = "none" <=> ~Come(c)
                         /\ stpc[c] \in S!AtPump => c = queLow
                         /\ stpc[c] \in S!Left <=> c < queLow

(* The car between its two accesses will find a pump, and the attender a   *)
(* car that is served: the other may overwrite serving, but with less, or  *)
(* more.                                                                   *)
ServingInv ==
    /\ serving \in 0..Pumps
    /\ \A c \in S!Cars : /\ stpc[c] = "load" => serving < Pumps
                         /\ stpc[c] = "store" => reg[c] \in 0..(Pumps - 1)
    /\ \A a \in Attenders : /\ stpc[a] = "load" => serving > 0
                            /\ stpc[a] = "store" => reg[a] \in 1..Pumps
    /\ \A a, b1 \in Attenders :
          stpc[a] \in {"load", "store"} /\ stpc[b1] \in {"load", "store"} => a = b1

AtAtm == {c \in S!Cars : stpc[c] = "paying"}

AtmInv ==
    /\ Cardinality(AtAtm) = (IF ATMBUSY = 0 THEN 0 ELSE 1)
    /\ ATM = S!Amount * (Cardinality(S!Paid) + IF ATMBUSY = 2 THEN 1 ELSE 0)

(* Every wait begins with a broadcast: nobody else is asleep then.         *)
OneAsleep == \A t1, t2 \in condATM : t1 = t2

StationInv == StationTypeOK /\ QueueInv /\ ServingInv /\ AtmInv /\ OneAsleep

LEMMA StationConstants ==
    /\ S!Cars = 0..(CarLength - 1) /\ S!Cars \subseteq Nat
    /\ S!Threads = S!Cars \cup Attenders \cup {Main}
    /\ Main \notin S!Cars /\ Main \notin Attenders /\ S!Cars \cap Attenders = {}
  BY StationAssumption DEF S!Cars, S!Threads

LEMMA CarsFinite ==
    ASSUME NEW X \in SUBSET S!Cars
    PROVE  IsFiniteSet(X) /\ Cardinality(X) \in Nat
<1>1. IsFiniteSet(S!Cars)
  BY StationAssumption, FS_Interval DEF S!Cars
<1> QED
  BY <1>1, FS_Subset, FS_CardinalityType

-----------------------------------------------------------------------------
(* The line.  A car moves and queLow does not.                             *)
LEMMA CarInLine ==
    ASSUME StationTypeOK, QueueInv, UNCHANGED <<queLow, queHigh, carCompleted>>,
           NEW c \in S!Cars, NEW s \in StationPlaces,
           stpc' = [stpc EXCEPT ![c] = s], stpc[c] # "none", s # "none",
           s \in S!AtPump => c = queLow, s \in S!Left <=> c < queLow
    PROVE  QueueInv'
<1>1. stpc'[c] = s /\ \A t \in S!Threads \ {c} : stpc'[t] = stpc[t]
  BY StationConstants DEF StationTypeOK
<1>2. Counting' <=> Counting
  BY <1>1, StationConstants DEF Counting
<1>3. ASSUME NEW d \in S!Cars
      PROVE  /\ stpc'[d] = "none" <=> ~Come(d)'
             /\ stpc'[d] \in S!AtPump => d = queLow
             /\ stpc'[d] \in S!Left <=> d < queLow
  <2>1. Come(d)' <=> Come(d)
    BY <1>2 DEF Come
  <2>2. CASE d = c
    BY <1>1, <2>1, <2>2 DEF QueueInv
  <2>3. CASE d # c
    BY <1>1, <2>1, <2>3, StationConstants DEF QueueInv
  <2> QED
    BY <2>2, <2>3
<1> QED
  BY <1>2, <1>3 DEF QueueInv, S!AtPump, S!Left

(* Somebody else moves.                                                    *)
LEMMA OtherInLine ==
    ASSUME StationTypeOK, QueueInv, UNCHANGED <<queLow, queHigh, carCompleted>>,
           \A c \in S!Cars : stpc'[c] = stpc[c], Counting' <=> Counting
    PROVE  QueueInv'
<1>1. \A d \in S!Cars : Come(d)' <=> Come(d)
  BY DEF Come
<1> QED
  BY <1>1 DEF QueueInv, S!AtPump, S!Left

LEMMA EnterInLine ==
    ASSUME StationTypeOK, QueueInv, S!Enter
    PROVE  QueueInv'
<1>1. /\ stpc[Main] = "enter" /\ queLow' = queLow /\ queHigh' = queHigh
      /\ carCompleted' = carCompleted /\ ~Counting /\ queLow <= queHigh
  BY DEF S!Enter, S!At, S!queue, Counting, QueueInv
<1>2. CASE stpc' = [stpc EXCEPT ![Main] = "drain"] \/ stpc' = [stpc EXCEPT ![Main] = "full"]
  <2>1. (\A c \in S!Cars : stpc'[c] = stpc[c]) /\ ~Counting'
    BY <1>2, StationConstants DEF StationTypeOK, Counting
  <2> QED
    BY <1>1, <2>1, OtherInLine
<1>3. CASE /\ carCompleted # CarLength /\ queHigh - queLow \in 0..(QueueSize - 1)
           /\ stpc' = [stpc EXCEPT ![queHigh] = "start", ![Main] = "count"]
  <2>1. queHigh \in S!Cars /\ queHigh < CarLength /\ queHigh - queLow < QueueSize
    BY <1>3, StationAssumption DEF QueueInv, StationTypeOK, S!Cars
  <2>2. /\ stpc'[queHigh] = "start" /\ stpc'[Main] = "count"
        /\ \A c \in S!Cars \ {queHigh} : stpc'[c] = stpc[c]
    BY <1>3, <2>1, StationConstants DEF StationTypeOK
  <2>3. Counting'
    BY <2>2 DEF Counting
  <2>4. ASSUME NEW d \in S!Cars
        PROVE  /\ stpc'[d] = "none" <=> ~Come(d)'
               /\ stpc'[d] \in S!AtPump => d = queLow
               /\ stpc'[d] \in S!Left <=> d < queLow
    <3>1. CASE d = queHigh
      BY <1>1, <2>2, <2>3, <3>1 DEF Come, S!AtPump, S!Left, StationTypeOK
    <3>2. CASE d # queHigh
      BY <1>1, <2>2, <2>3, <3>2 DEF Come, QueueInv
    <3> QED
      BY <3>1, <3>2
  <2> QED
    BY <1>1, <2>1, <2>3, <2>4 DEF QueueInv, S!AtPump, S!Left
<1> QED
  BY <1>2, <1>3 DEF S!Enter, S!Goto

LEMMA CountInLine ==
    ASSUME StationTypeOK, QueueInv, S!Count
    PROVE  QueueInv'
<1>1. /\ Counting /\ queLow' = queLow /\ queHigh' = queHigh + 1 /\ carCompleted' = carCompleted + 1
      /\ stpc' = [stpc EXCEPT ![Main] = "enter"]
  BY DEF S!Count, S!At, S!Goto, Counting
<1>2. ~Counting' /\ \A c \in S!Cars : stpc'[c] = stpc[c]
  BY <1>1, StationConstants DEF StationTypeOK, Counting
<1>3. queHigh \in Nat /\ queLow \in Nat /\ carCompleted \in Nat /\ CarLength \in Nat /\ QueueSize \in Nat
  BY StationAssumption DEF StationTypeOK
<1>4. ASSUME NEW d \in S!Cars PROVE Come(d)' <=> Come(d)
  BY <1>1, <1>2, <1>3, StationConstants DEF Come
<1>5. /\ carCompleted' = queHigh' /\ queHigh' <= CarLength /\ queHigh' - queLow' <= QueueSize
      /\ queLow' <= queHigh'
  BY <1>1, <1>3 DEF QueueInv
<1> QED
  BY <1>1, <1>2, <1>4, <1>5 DEF QueueInv, S!AtPump, S!Left

LEMMA AdvanceInLine ==
    ASSUME StationTypeOK, QueueInv, NEW c \in S!Cars, S!Advance(c)
    PROVE  QueueInv'
<1>1. /\ stpc[c] = "advance" /\ queLow' = queLow + 1 /\ queHigh' = queHigh
      /\ carCompleted' = carCompleted /\ stpc' = [stpc EXCEPT ![c] = "unlock"]
  BY DEF S!Advance, S!At, S!Goto
<1>2. c = queLow /\ Come(c)
  BY <1>1 DEF QueueInv, S!AtPump
<1>3. stpc'[c] = "unlock" /\ \A t \in S!Threads \ {c} : stpc'[t] = stpc[t]
  BY <1>1, StationConstants DEF StationTypeOK
<1>4. Counting' <=> Counting
  BY <1>3, StationConstants DEF Counting
<1>5. queHigh \in Nat /\ queLow \in Nat /\ QueueSize \in Nat
  BY StationAssumption DEF StationTypeOK
<1>6. ASSUME NEW d \in S!Cars
      PROVE  /\ stpc'[d] = "none" <=> ~Come(d)'
             /\ stpc'[d] \in S!AtPump => d = queLow'
             /\ stpc'[d] \in S!Left <=> d < queLow'
  <2>1. Come(d)' <=> Come(d)
    BY <1>1, <1>4 DEF Come
  <2>2. CASE d = c
    BY <1>1, <1>2, <1>3, <1>5, <2>1, <2>2 DEF S!AtPump, S!Left
  <2>3. CASE d # c
    <3>1. stpc'[d] = stpc[d] /\ stpc[d] \notin S!AtPump /\ (d < queLow <=> d < queLow')
      BY <1>1, <1>2, <1>3, <1>5, <2>3, StationConstants DEF QueueInv
    <3> QED
      BY <2>1, <3>1 DEF QueueInv
  <2> QED
    BY <2>2, <2>3
<1>7. /\ queHigh - queLow' <= QueueSize /\ (Counting => queHigh - queLow' < QueueSize)
      /\ queLow' <= queHigh \/ (queLow' = queHigh + 1 /\ Counting)
  BY <1>1, <1>2, <1>5 DEF QueueInv, Come
<1> QED
  BY <1>1, <1>4, <1>6, <1>7 DEF QueueInv, S!AtPump, S!Left

(* Every step of the station, in line.                                     *)
LEMMA StepInLine ==
    ASSUME StationTypeOK, QueueInv, S!Next
    PROVE  QueueInv'
<1>1. CASE S!Enter
  BY <1>1, EnterInLine
<1>2. CASE S!Count
  BY <1>2, CountInLine
<1>3. CASE S!Drain \/ S!MainWaits \/ S!MainWakes \/ S!Join
  <2>1. PICK s \in MainPlaces \ {"count"} : stpc' = [stpc EXCEPT ![Main] = s]
    BY <1>3 DEF S!Drain, S!MainWaits, S!MainWakes, S!Join, S!Goto, MainPlaces
  <2>2. ~Counting
    BY <1>3 DEF S!Drain, S!MainWaits, S!MainWakes, S!Join, S!At, Counting
  <2>3. UNCHANGED <<queLow, queHigh, carCompleted>>
    BY <1>3 DEF S!Drain, S!MainWaits, S!MainWakes, S!Join, S!queue
  <2>4. ~Counting' /\ \A c \in S!Cars : stpc'[c] = stpc[c]
    BY <2>1, StationConstants DEF StationTypeOK, Counting
  <2> QED
    BY <2>2, <2>3, <2>4, OtherInLine
<1>4. ASSUME NEW c \in S!Cars, S!LoadServing(c) \/ S!StoreServing(c)
      PROVE  QueueInv'
  <2>1. UNCHANGED <<queLow, queHigh, carCompleted>>
    BY <1>4 DEF S!LoadServing, S!StoreServing, S!queue
  <2>2. stpc[c] \in S!AtPump /\ stpc[c] # "none" /\ stpc[c] \notin S!Left
    BY <1>4 DEF S!LoadServing, S!StoreServing, S!At, S!AtPump, S!Left
  <2>3. PICK s \in S!AtPump : stpc' = [stpc EXCEPT ![c] = s]
    BY <1>4 DEF S!LoadServing, S!StoreServing, S!Goto, S!AtPump
  <2>4. s \in StationPlaces /\ s # "none" /\ s \notin S!Left
    BY <2>3 DEF S!AtPump, S!Left, StationPlaces, CarPlaces
  <2>5. c = queLow /\ ~(c < queLow)
    BY <2>2 DEF QueueInv
  <2> QED
    BY <2>1, <2>2, <2>3, <2>4, <2>5, CarInLine
<1>5. ASSUME NEW a \in Attenders,
             S!LoadServing(a) \/ S!StoreServing(a) \/ S!ServeCar(a) \/ S!AcceptPayment(a)
      PROVE  QueueInv'
  <2>1. UNCHANGED <<queLow, queHigh, carCompleted>>
    BY <1>5 DEF S!LoadServing, S!StoreServing, S!ServeCar, S!AcceptPayment, S!queue
  <2>2. stpc' = stpc \/ \E s \in StationPlaces : stpc' = [stpc EXCEPT ![a] = s]
    BY <1>5, StationConstants DEF S!LoadServing, S!StoreServing, S!ServeCar, S!AcceptPayment, S!Goto,
       StationPlaces, AttenderPlaces
  <2>3. (\A c \in S!Cars : stpc'[c] = stpc[c]) /\ stpc'[Main] = stpc[Main]
    BY <2>2, StationConstants DEF StationTypeOK
  <2> QED
    BY <2>1, <2>3, OtherInLine DEF Counting
<1>6. ASSUME NEW c \in S!Cars,
             S!CarLock(c) \/ S!WaitInLine(c) \/ S!GoToPump(c) \/ S!CarWaits(c)
      PROVE  QueueInv'
  <2>1. UNCHANGED <<queLow, queHigh, carCompleted>>
    BY <1>6 DEF S!CarLock, S!WaitInLine, S!GoToPump, S!CarWaits, S!queue
  <2>2. stpc[c] # "none" /\ stpc[c] \notin S!Left /\ ~(c < queLow)
    BY <1>6 DEF S!CarLock, S!WaitInLine, S!GoToPump, S!CarWaits, S!At, S!Left, QueueInv
  <2>3. PICK s \in {"start", "line", "wait"} \cup S!AtPump :
            /\ stpc' = [stpc EXCEPT ![c] = s]
            /\ s \in S!AtPump => stpc[c] \in S!AtPump \/ c = queLow
    BY <1>6 DEF S!CarLock, S!WaitInLine, S!GoToPump, S!CarWaits, S!Goto, S!At, S!AtPump
  <2>4. s \in StationPlaces /\ s # "none" /\ s \notin S!Left
    BY <2>3 DEF S!AtPump, S!Left, StationPlaces, CarPlaces
  <2>5. s \in S!AtPump => c = queLow
    BY <2>3 DEF QueueInv
  <2> QED
    BY <2>1, <2>2, <2>3, <2>4, <2>5, CarInLine
<1>7. ASSUME NEW c \in S!Cars, S!Advance(c) PROVE QueueInv'
  BY <1>7, AdvanceInLine
<1>8. ASSUME NEW c \in S!Cars,
             S!CarUnlock(c) \/ S!Pay(c) \/ S!Paying(c) \/ S!ExitStation(c)
      PROVE  QueueInv'
  <2>1. UNCHANGED <<queLow, queHigh, carCompleted>>
    BY <1>8 DEF S!CarUnlock, S!Pay, S!Paying, S!ExitStation, S!queue
  <2>2. stpc[c] # "none" /\ stpc[c] \in S!Left /\ c < queLow
    BY <1>8 DEF S!CarUnlock, S!Pay, S!Paying, S!ExitStation, S!At, S!Left, QueueInv
  <2>3. CASE stpc' = stpc
    BY <2>1, <2>3, OtherInLine DEF Counting
  <2>4. CASE stpc' # stpc
    <3>1. PICK s \in S!Left : stpc' = [stpc EXCEPT ![c] = s]
      BY <1>8, <2>4 DEF S!CarUnlock, S!Pay, S!Paying, S!ExitStation, S!Goto, S!Left
    <3>2. s \in StationPlaces /\ s # "none" /\ s \notin S!AtPump
      BY <3>1 DEF S!AtPump, S!Left, StationPlaces, CarPlaces
    <3> QED
      BY <2>1, <2>2, <3>1, <3>2, CarInLine
  <2> QED
    BY <2>3, <2>4
<1> QED
  BY <1>1, <1>2, <1>3, <1>4, <1>5, <1>6, <1>7, <1>8 DEF S!Next

-----------------------------------------------------------------------------
(* Types: whoever moves moves to a place.                                  *)
LEMMA StationTypesKept ==
    ASSUME StationTypeOK, ServingInv, S!Next
    PROVE  StationTypeOK'
<1>1. stpc' \in [S!Threads -> StationPlaces]
  <2>1. \/ stpc' = stpc \/ \E t \in S!Threads, s \in StationPlaces : stpc' = [stpc EXCEPT ![t] = s]
        \/ stpc' = [stpc EXCEPT ![queHigh] = "start", ![Main] = "count"]
    <3>1. CASE S!Enter \/ S!Count \/ S!Drain \/ S!MainWaits \/ S!MainWakes \/ S!Join
      BY <3>1, StationConstants DEF S!Enter, S!Count, S!Drain, S!MainWaits, S!MainWakes, S!Join, S!Goto,
         StationPlaces, MainPlaces
    <3>2. ASSUME NEW t \in S!Cars \cup Attenders, S!LoadServing(t) \/ S!StoreServing(t)
          PROVE  \E s \in StationPlaces : stpc' = [stpc EXCEPT ![t] = s]
      BY <3>2 DEF S!LoadServing, S!StoreServing, S!Goto, StationPlaces, CarPlaces, AttenderPlaces, S!AtPump
    <3>3. ASSUME NEW c \in S!Cars,
                 \/ S!CarLock(c) \/ S!WaitInLine(c) \/ S!GoToPump(c) \/ S!CarWaits(c) \/ S!Advance(c)
                 \/ S!CarUnlock(c) \/ S!Pay(c) \/ S!Paying(c) \/ S!ExitStation(c)
          PROVE  stpc' = stpc \/ \E s \in StationPlaces : stpc' = [stpc EXCEPT ![c] = s]
      BY <3>3 DEF S!CarLock, S!WaitInLine, S!GoToPump, S!CarWaits, S!Advance, S!CarUnlock, S!Pay,
         S!Paying, S!ExitStation, S!Goto, StationPlaces, CarPlaces, S!AtPump, S!Left
    <3>4. ASSUME NEW a \in Attenders, S!ServeCar(a) \/ S!AcceptPayment(a)
          PROVE  stpc' = stpc \/ \E s \in StationPlaces : stpc' = [stpc EXCEPT ![a] = s]
      BY <3>4 DEF S!ServeCar, S!AcceptPayment, S!Goto, StationPlaces, AttenderPlaces
    <3> QED
      BY <3>1, <3>2, <3>3, <3>4, StationConstants DEF S!Next
  <2>2. "start" \in StationPlaces /\ "count" \in StationPlaces
    BY DEF StationPlaces, CarPlaces, MainPlaces
  <2> QED
    BY <2>1, <2>2 DEF StationTypeOK
<1>2. queLow' \in Nat /\ queHigh' \in Nat /\ carCompleted' \in Nat
  <2>1. \/ UNCHANGED <<queLow, queHigh, carCompleted>>
        \/ queLow' = queLow + 1 /\ UNCHANGED <<queHigh, carCompleted>>
        \/ queHigh' = queHigh + 1 /\ carCompleted' = carCompleted + 1 /\ UNCHANGED queLow
    BY DEF S!Next, S!Enter, S!Count, S!Drain, S!MainWaits, S!MainWakes, S!Join, S!LoadServing, S!StoreServing,
       S!CarLock, S!WaitInLine, S!GoToPump, S!CarWaits, S!Advance, S!CarUnlock, S!Pay, S!Paying, S!ExitStation,
       S!ServeCar, S!AcceptPayment, S!queue
  <2>2. queLow \in Nat /\ queHigh \in Nat /\ carCompleted \in Nat
    BY DEF StationTypeOK
  <2> QED
    BY <2>1, <2>2
<1>3. reg' \in [S!Threads -> Int]
  <2>1. UNCHANGED reg \/ \E t \in S!Cars \cup Attenders :
            reg' = [reg EXCEPT ![t] = serving] \/ reg' = [reg EXCEPT ![t] = 0]
    BY DEF S!Next, S!Enter, S!Count, S!Drain, S!MainWaits, S!MainWakes, S!Join, S!LoadServing, S!StoreServing,
       S!CarLock, S!WaitInLine, S!GoToPump, S!CarWaits, S!Advance, S!CarUnlock, S!Pay, S!Paying, S!ExitStation,
       S!ServeCar, S!AcceptPayment, S!pump
  <2>2. serving \in Int /\ 0 \in Int
    BY StationAssumption DEF ServingInv
  <2> QED
    BY <2>1, <2>2 DEF StationTypeOK
<1>4. ATM' \in Int /\ ATMBUSY' \in 0..2
  <2>1. \/ ATM' = ATM /\ (ATMBUSY' = ATMBUSY \/ ATMBUSY' = 0 \/ ATMBUSY' = 1)
        \/ ATM' = ATM + S!Amount /\ ATMBUSY' = 2
    <3>1. CASE S!Enter \/ S!Count \/ S!Drain \/ S!MainWaits \/ S!MainWakes \/ S!Join
      <4>1. ATM' = ATM /\ ATMBUSY' = ATMBUSY
        BY <3>1 DEF S!Enter, S!Count, S!Drain, S!MainWaits, S!MainWakes, S!Join, S!atm
      <4> QED
        BY <4>1
    <3>2. ASSUME NEW t \in S!Cars \cup Attenders,
                 \/ S!LoadServing(t) \/ S!StoreServing(t) \/ S!CarLock(t) \/ S!WaitInLine(t)
                 \/ S!GoToPump(t) \/ S!CarWaits(t) \/ S!Advance(t) \/ S!CarUnlock(t)
                 \/ S!ExitStation(t) \/ S!ServeCar(t)
          PROVE  ATM' = ATM /\ ATMBUSY' = ATMBUSY
      BY <3>2 DEF S!LoadServing, S!StoreServing, S!CarLock, S!WaitInLine, S!GoToPump, S!CarWaits, S!Advance,
         S!CarUnlock, S!ExitStation, S!ServeCar, S!atm
    <3>3. ASSUME NEW c \in S!Cars, S!Pay(c) \/ S!Paying(c)
          PROVE  ATM' = ATM /\ (ATMBUSY' = ATMBUSY \/ ATMBUSY' = 0 \/ ATMBUSY' = 1)
      BY <3>3 DEF S!Pay, S!Paying
    <3>4. ASSUME NEW a \in Attenders, S!AcceptPayment(a)
          PROVE  \/ ATM' = ATM /\ ATMBUSY' = ATMBUSY
                 \/ ATM' = ATM + S!Amount /\ ATMBUSY' = 2
      BY <3>4 DEF S!AcceptPayment
    <3> QED
      BY <3>1, <3>2, <3>3, <3>4 DEF S!Next
  <2>2. ATM \in Int /\ ATMBUSY \in 0..2 /\ S!Amount \in Int
    BY DEF StationTypeOK, S!Amount
  <2> QED
    BY <2>1, <2>2
<1> QED
  BY <1>1, <1>2, <1>3, <1>4 DEF StationTypeOK, StationPlaces, CarPlaces, AttenderPlaces, MainPlaces,
     S!AtPump, S!Left, S!Threads, S!Cars

-----------------------------------------------------------------------------
(* serving.  A step that leaves it alone, and in which nobody begins or    *)
(* ends one of its two accesses.                                           *)
LEMMA ServingQuiet ==
    ASSUME ServingInv, serving' = serving, reg' = reg,
           \A t \in S!Cars \cup Attenders : stpc'[t] \in {"load", "store"} => stpc'[t] = stpc[t]
    PROVE  ServingInv'
  BY DEF ServingInv

(* A car has found a free pump.                                            *)
LEMMA PumpServing ==
    ASSUME StationTypeOK, ServingInv, NEW c \in S!Cars, S!GoToPump(c)
    PROVE  ServingInv'
<1>1. serving' = serving /\ reg' = reg
  BY DEF S!GoToPump, S!pump
<1>2. CASE serving = Pumps
  <2>1. stpc' = [stpc EXCEPT ![c] = "rewait"]
    BY <1>2 DEF S!GoToPump, S!Goto
  <2>2. \A t \in S!Cars \cup Attenders : stpc'[t] \in {"load", "store"} => stpc'[t] = stpc[t]
    BY <2>1, StationConstants DEF StationTypeOK
  <2> QED
    BY <1>1, <2>2, ServingQuiet
<1>3. CASE serving # Pumps
  <2>1. stpc' = [stpc EXCEPT ![c] = "load"]
    BY <1>3 DEF S!GoToPump, S!Goto
  <2>2. stpc'[c] = "load" /\ \A t \in S!Cars \cup Attenders : t # c => stpc'[t] = stpc[t]
    BY <2>1, StationConstants DEF StationTypeOK
  <2>3. serving < Pumps
    BY <1>3, StationAssumption DEF ServingInv
  <2>4. c \notin Attenders
    BY StationConstants
  <2> QED
    BY <1>1, <2>2, <2>3, <2>4 DEF ServingInv
<1> QED
  BY <1>2, <1>3

(* An attender has seen a car, and has mutexServe.                         *)
LEMMA ServeServing ==
    ASSUME StationTypeOK, ServingInv, NEW a \in Attenders, S!ServeCar(a)
    PROVE  ServingInv'
<1>1. serving' = serving /\ reg' = reg /\ \A d \in Attenders : stpc[d] \notin {"load", "store"}
  BY DEF S!ServeCar, S!pump
<1>2. PICK s \in {"load", "accept"} :
          stpc' = [stpc EXCEPT ![a] = s] /\ (s = "load" => serving > 0)
  BY DEF S!ServeCar, S!Goto
<1>3. stpc'[a] = s /\ \A t \in S!Cars \cup Attenders : t # a => stpc'[t] = stpc[t]
  BY <1>2, StationConstants DEF StationTypeOK
<1>4. a \notin S!Cars
  BY StationConstants
<1> QED
  BY <1>1, <1>2, <1>3, <1>4 DEF ServingInv

LEMMA LoadServes ==
    ASSUME StationTypeOK, QueueInv, ServingInv, NEW t \in S!Cars \cup Attenders, S!LoadServing(t)
    PROVE  ServingInv'
<1>1. /\ stpc[t] = "load" /\ serving' = serving /\ reg' = [reg EXCEPT ![t] = serving]
      /\ stpc' = [stpc EXCEPT ![t] = "store"]
  BY DEF S!LoadServing, S!At, S!Goto
<1>2. /\ stpc'[t] = "store" /\ reg'[t] = serving
      /\ \A d \in S!Cars \cup Attenders : d # t => stpc'[d] = stpc[d] /\ reg'[d] = reg[d]
  BY <1>1, StationConstants DEF StationTypeOK
<1>3. serving \in Nat /\ Pumps \in Nat /\ serving <= Pumps
  BY StationAssumption DEF ServingInv
<1>4. ASSUME NEW c \in S!Cars
      PROVE  /\ stpc'[c] = "load" => serving' < Pumps
             /\ stpc'[c] = "store" => reg'[c] \in 0..(Pumps - 1)
  BY <1>1, <1>2, <1>3, <1>4 DEF ServingInv
<1>5. ASSUME NEW a \in Attenders
      PROVE  /\ stpc'[a] = "load" => serving' > 0
             /\ stpc'[a] = "store" => reg'[a] \in 1..Pumps
  BY <1>1, <1>2, <1>3, <1>5 DEF ServingInv
<1>6. \A a, d \in Attenders :
          stpc'[a] \in {"load", "store"} /\ stpc'[d] \in {"load", "store"} => a = d
  BY <1>1, <1>2 DEF ServingInv
<1> QED
  BY <1>1, <1>4, <1>5, <1>6 DEF ServingInv

(* A car stores 1 at least, and no other car is at a pump; an attender     *)
(* stores less than the pumps there are, and no other is serving.          *)
LEMMA StoreServes ==
    ASSUME StationTypeOK, QueueInv, ServingInv, NEW t \in S!Cars \cup Attenders, S!StoreServing(t)
    PROVE  ServingInv'
<1>1. stpc[t] = "store" /\ reg' = [reg EXCEPT ![t] = 0]
  BY DEF S!StoreServing, S!At
<1>2. PICK s \in {"advance", "accept"} : stpc' = [stpc EXCEPT ![t] = s]
  BY DEF S!StoreServing, S!Goto
<1>3. /\ stpc'[t] \notin {"load", "store"}
      /\ \A d \in S!Cars \cup Attenders : d # t => stpc'[d] = stpc[d] /\ reg'[d] = reg[d]
  BY <1>1, <1>2, StationConstants DEF StationTypeOK
<1>4. \A a, d \in Attenders :
          stpc'[a] \in {"load", "store"} /\ stpc'[d] \in {"load", "store"} => a = d
  BY <1>3 DEF ServingInv
<1>5. CASE t \in S!Cars
  <2>1. PICK k \in 0..(Pumps - 1) : k = reg[t] /\ serving' = k + 1
    BY <1>1, <1>5 DEF S!StoreServing, ServingInv
  <2>2. serving' \in 1..Pumps
    BY <2>1, StationAssumption
  <2>3. \A c \in S!Cars : stpc[c] \in {"load", "store"} => c = t
    BY <1>1, <1>5 DEF QueueInv, S!AtPump
  <2>4. \A c \in S!Cars : stpc'[c] \notin {"load", "store"}
    BY <1>3, <2>3
  <2>5. \A a \in Attenders : a # t
    BY <1>5, StationConstants
  <2>6. \A a \in Attenders : stpc'[a] = "store" => reg'[a] \in 1..Pumps
    BY <1>3, <2>5 DEF ServingInv
  <2>7. serving' \in 0..Pumps /\ serving' > 0
    BY <2>2
  <2> QED
    BY <1>4, <2>4, <2>6, <2>7 DEF ServingInv
<1>6. CASE t \in Attenders
  <2>0. t \notin S!Cars
    BY <1>6, StationConstants
  <2>1. PICK k \in 1..Pumps : k = reg[t] /\ serving' = k - 1
    BY <1>1, <1>6, <2>0 DEF S!StoreServing, ServingInv
  <2>2. serving' \in 0..Pumps /\ serving' < Pumps
    BY <2>1, StationAssumption
  <2>3. \A a \in Attenders : stpc'[a] \notin {"load", "store"}
    BY <1>1, <1>3, <1>6 DEF ServingInv
  <2>4. \A c \in S!Cars : stpc'[c] = "store" => reg'[c] \in 0..(Pumps - 1)
    BY <1>3, <2>0 DEF ServingInv
  <2> QED
    BY <1>4, <2>2, <2>3, <2>4 DEF ServingInv
<1> QED
  BY <1>5, <1>6

LEMMA StepServing ==
    ASSUME StationTypeOK, QueueInv, ServingInv, S!Next
    PROVE  ServingInv'
<1>1. CASE S!Enter \/ S!Count \/ S!Drain \/ S!MainWaits \/ S!MainWakes \/ S!Join
  <2>1. serving' = serving /\ reg' = reg
    BY <1>1 DEF S!Enter, S!Count, S!Drain, S!MainWaits, S!MainWakes, S!Join, S!pump
  <2>2. \/ \E s \in MainPlaces : stpc' = [stpc EXCEPT ![Main] = s]
        \/ stpc' = [stpc EXCEPT ![queHigh] = "start", ![Main] = "count"]
    BY <1>1 DEF S!Enter, S!Count, S!Drain, S!MainWaits, S!MainWakes, S!Join, S!Goto, MainPlaces
  <2>3. \A t \in S!Cars \cup Attenders : stpc'[t] = stpc[t] \/ stpc'[t] = "start"
    BY <2>2, StationConstants DEF StationTypeOK
  <2> QED
    BY <2>1, <2>3, ServingQuiet
<1>2. ASSUME NEW t \in S!Cars \cup Attenders, S!LoadServing(t) \/ S!StoreServing(t)
      PROVE  ServingInv'
  BY <1>2, LoadServes, StoreServes
<1>3. ASSUME NEW c \in S!Cars, S!GoToPump(c) PROVE ServingInv'
  BY <1>3, PumpServing
<1>4. ASSUME NEW a \in Attenders, S!ServeCar(a) PROVE ServingInv'
  BY <1>4, ServeServing
<1>5. ASSUME NEW t \in S!Cars \cup Attenders,
             \/ S!CarLock(t) \/ S!WaitInLine(t) \/ S!CarWaits(t) \/ S!Advance(t) \/ S!CarUnlock(t)
             \/ S!Pay(t) \/ S!Paying(t) \/ S!ExitStation(t) \/ S!AcceptPayment(t)
      PROVE  ServingInv'
  <2>1. serving' = serving /\ reg' = reg
    BY <1>5 DEF S!CarLock, S!WaitInLine, S!CarWaits, S!Advance, S!CarUnlock, S!Pay, S!Paying, S!ExitStation,
       S!AcceptPayment, S!pump
  <2>2. stpc' = stpc \/ \E s \in StationPlaces \ {"load", "store"} : stpc' = [stpc EXCEPT ![t] = s]
    BY <1>5 DEF S!CarLock, S!WaitInLine, S!CarWaits, S!Advance, S!CarUnlock, S!Pay, S!Paying, S!ExitStation,
       S!AcceptPayment, S!Goto, StationPlaces, CarPlaces, AttenderPlaces, S!AtPump, S!Left
  <2>3. \A d \in S!Cars \cup Attenders : stpc'[d] \in {"load", "store"} => stpc'[d] = stpc[d]
    BY <2>2, StationConstants DEF StationTypeOK
  <2> QED
    BY <2>1, <2>3, ServingQuiet
<1> QED
  BY <1>1, <1>2, <1>3, <1>4, <1>5 DEF S!Next

-----------------------------------------------------------------------------
(* The ATM.  A step in which no car comes to it or leaves it.              *)
LEMMA AtmQuiet ==
    ASSUME AtmInv, ATM' = ATM, ATMBUSY' = ATMBUSY,
           \A c \in S!Cars : /\ stpc'[c] = "paying" <=> stpc[c] = "paying"
                             /\ stpc'[c] \in {"exit", "joining", "done"}
                                   <=> stpc[c] \in {"exit", "joining", "done"}
    PROVE  AtmInv'
<1>1. AtAtm' = AtAtm /\ (S!Paid)' = S!Paid
  BY DEF AtAtm, S!Paid
<1> QED
  BY <1>1 DEF AtmInv

LEMMA PayAtm ==
    ASSUME StationTypeOK, AtmInv, NEW c \in S!Cars, S!Pay(c)
    PROVE  AtmInv'
<1>1. stpc[c] = "pay" /\ ATM' = ATM
  BY DEF S!Pay, S!At
<1>2. CASE ATMBUSY # 0
  <2>1. stpc' = stpc /\ ATMBUSY' = ATMBUSY
    BY <1>2 DEF S!Pay
  <2> QED
    BY <1>1, <2>1, AtmQuiet
<1>3. CASE ATMBUSY = 0
  <2>1. ATMBUSY' = 1 /\ stpc' = [stpc EXCEPT ![c] = "paying"]
    BY <1>3 DEF S!Pay, S!Goto
  <2>2. stpc'[c] = "paying" /\ \A d \in S!Cars \ {c} : stpc'[d] = stpc[d]
    BY <2>1, StationConstants DEF StationTypeOK
  <2>3. AtAtm' = AtAtm \cup {c} /\ c \notin AtAtm /\ (S!Paid)' = S!Paid
    BY <1>1, <2>2 DEF AtAtm, S!Paid
  <2>4. Cardinality(AtAtm') = 1
    <3>1. Cardinality(AtAtm) = 0 /\ IsFiniteSet(AtAtm)
      BY <1>3, CarsFinite DEF AtmInv, AtAtm
    <3> QED
      BY <2>3, <3>1, FS_AddElement
  <2> QED
    BY <1>1, <1>3, <2>1, <2>3, <2>4 DEF AtmInv
<1> QED
  BY <1>2, <1>3

LEMMA PayingAtm ==
    ASSUME StationTypeOK, AtmInv, NEW c \in S!Cars, S!Paying(c)
    PROVE  AtmInv'
<1>1. stpc[c] = "paying" /\ ATM' = ATM
  BY DEF S!Paying, S!At
<1>2. CASE ATMBUSY # 2
  <2>1. stpc' = stpc /\ ATMBUSY' = ATMBUSY
    BY <1>2 DEF S!Paying
  <2> QED
    BY <1>1, <2>1, AtmQuiet
<1>3. CASE ATMBUSY = 2
  <2>1. ATMBUSY' = 0 /\ stpc' = [stpc EXCEPT ![c] = "exit"]
    BY <1>3 DEF S!Paying, S!Goto
  <2>2. stpc'[c] = "exit" /\ \A d \in S!Cars \ {c} : stpc'[d] = stpc[d]
    BY <2>1, StationConstants DEF StationTypeOK
  <2>3. /\ AtAtm' = AtAtm \ {c} /\ c \in AtAtm
        /\ (S!Paid)' = S!Paid \cup {c} /\ c \notin S!Paid
    BY <1>1, <2>2 DEF AtAtm, S!Paid
  <2>4. Cardinality(AtAtm') = 0
    <3>1. Cardinality(AtAtm) = 1 /\ IsFiniteSet(AtAtm)
      BY <1>3, CarsFinite DEF AtmInv, AtAtm
    <3>2. Cardinality(AtAtm \ {c}) = Cardinality(AtAtm) - 1
      BY <2>3, <3>1, FS_RemoveElement, Zenon
    <3> QED
      BY <2>3, <3>1, <3>2
  <2>5. Cardinality((S!Paid)') = Cardinality(S!Paid) + 1 /\ Cardinality(S!Paid) \in Nat
    <3>1. IsFiniteSet(S!Paid) /\ Cardinality(S!Paid) \in Nat
      BY CarsFinite DEF S!Paid
    <3> QED
      BY <2>3, <3>1, FS_AddElement
  <2>6. ATM = S!Amount * (Cardinality(S!Paid) + 1)
    BY <1>3 DEF AtmInv
  <2>7. ATM' = S!Amount * (Cardinality((S!Paid)') + 0)
    BY <1>1, <2>5, <2>6 DEF S!Amount
  <2> QED
    BY <2>1, <2>4, <2>7 DEF AtmInv, S!Amount
<1> QED
  BY <1>2, <1>3

LEMMA AcceptAtm ==
    ASSUME StationTypeOK, AtmInv, NEW a \in Attenders, S!AcceptPayment(a)
    PROVE  AtmInv'
<1>1. \A c \in S!Cars : stpc'[c] = stpc[c]
  BY StationConstants DEF S!AcceptPayment, S!Goto, StationTypeOK
<1>2. CASE ATMBUSY # 1
  BY <1>1, <1>2, AtmQuiet DEF S!AcceptPayment
<1>3. CASE ATMBUSY = 1
  <2>1. ATM' = ATM + S!Amount /\ ATMBUSY' = 2
    BY <1>3 DEF S!AcceptPayment
  <2>2. AtAtm' = AtAtm /\ (S!Paid)' = S!Paid
    BY <1>1 DEF AtAtm, S!Paid
  <2>3. Cardinality(S!Paid) \in Nat
    BY CarsFinite DEF S!Paid
  <2>4. ATM = S!Amount * (Cardinality(S!Paid) + 0)
    BY <1>3 DEF AtmInv
  <2>5. ATM' = S!Amount * (Cardinality(S!Paid) + 1)
    BY <2>1, <2>3, <2>4 DEF S!Amount
  <2> QED
    BY <1>3, <2>1, <2>2, <2>5 DEF AtmInv, S!Amount
<1> QED
  BY <1>2, <1>3

LEMMA StepAtm ==
    ASSUME StationTypeOK, QueueInv, AtmInv, S!Next
    PROVE  AtmInv'
<1>1. CASE S!Enter \/ S!Count \/ S!Drain \/ S!MainWaits \/ S!MainWakes \/ S!Join
  <2>1. ATM' = ATM /\ ATMBUSY' = ATMBUSY
    BY <1>1 DEF S!Enter, S!Count, S!Drain, S!MainWaits, S!MainWakes, S!Join, S!atm
  <2>2. CASE \E s \in MainPlaces : stpc' = [stpc EXCEPT ![Main] = s]
    <3>1. \A c \in S!Cars : stpc'[c] = stpc[c]
      BY <2>2, StationConstants DEF StationTypeOK
    <3> QED
      BY <2>1, <3>1, AtmQuiet
  <2>3. CASE /\ S!Enter /\ carCompleted # CarLength
             /\ stpc' = [stpc EXCEPT ![queHigh] = "start", ![Main] = "count"]
    <3>1. stpc[Main] = "enter" /\ queHigh \in S!Cars
      BY <2>3, StationAssumption DEF S!Enter, S!At, QueueInv, StationTypeOK, S!Cars
    <3>2. stpc[queHigh] = "none"
      BY <3>1 DEF QueueInv, Come, Counting, StationTypeOK
    <3>3. stpc'[queHigh] = "start" /\ \A c \in S!Cars \ {queHigh} : stpc'[c] = stpc[c]
      BY <2>3, <3>1, StationConstants DEF StationTypeOK
    <3> QED
      BY <2>1, <3>2, <3>3, AtmQuiet
  <2> QED
    BY <1>1, <2>2, <2>3 DEF S!Enter, S!Count, S!Drain, S!MainWaits, S!MainWakes, S!Join, S!Goto, MainPlaces
<1>2. ASSUME NEW c \in S!Cars, S!Pay(c) \/ S!Paying(c) PROVE AtmInv'
  BY <1>2, PayAtm, PayingAtm
<1>3. ASSUME NEW a \in Attenders, S!AcceptPayment(a) PROVE AtmInv'
  BY <1>3, AcceptAtm
<1>4. ASSUME NEW c \in S!Cars, S!ExitStation(c) PROVE AtmInv'
  <2>1. ATM' = ATM /\ ATMBUSY' = ATMBUSY /\ stpc[c] = "exit"
    BY <1>4 DEF S!ExitStation, S!atm, S!At
  <2>2. PICK s \in {"joining", "done"} : stpc' = [stpc EXCEPT ![c] = s]
    BY <1>4 DEF S!ExitStation, S!Goto
  <2>3. stpc'[c] = s /\ \A d \in S!Cars \ {c} : stpc'[d] = stpc[d]
    BY <2>2, StationConstants DEF StationTypeOK
  <2> QED
    BY <2>1, <2>3, AtmQuiet
<1>5. ASSUME NEW a \in Attenders, S!LoadServing(a) \/ S!StoreServing(a) \/ S!ServeCar(a) PROVE AtmInv'
  <2>1. ATM' = ATM /\ ATMBUSY' = ATMBUSY
    BY <1>5 DEF S!LoadServing, S!StoreServing, S!ServeCar, S!atm
  <2>2. \A c \in S!Cars : stpc'[c] = stpc[c]
    BY <1>5, StationConstants DEF S!LoadServing, S!StoreServing, S!ServeCar, S!Goto, StationTypeOK
  <2> QED
    BY <2>1, <2>2, AtmQuiet
<1>6. ASSUME NEW c \in S!Cars,
             \/ S!LoadServing(c) \/ S!StoreServing(c) \/ S!CarLock(c) \/ S!WaitInLine(c)
             \/ S!GoToPump(c) \/ S!CarWaits(c) \/ S!Advance(c) \/ S!CarUnlock(c)
      PROVE  AtmInv'
  <2>1. ATM' = ATM /\ ATMBUSY' = ATMBUSY
    BY <1>6 DEF S!LoadServing, S!StoreServing, S!CarLock, S!WaitInLine, S!GoToPump, S!CarWaits, S!Advance,
       S!CarUnlock, S!atm
  <2>2. PICK s \in {"start", "line", "wait", "unlock", "pay"} \cup S!AtPump : stpc' = [stpc EXCEPT ![c] = s]
    BY <1>6 DEF S!LoadServing, S!StoreServing, S!CarLock, S!WaitInLine, S!GoToPump, S!CarWaits, S!Advance,
       S!CarUnlock, S!Goto, S!AtPump
  <2>3. s \notin {"paying", "exit", "joining", "done"}
    BY <2>2 DEF S!AtPump
  <2>4. stpc[c] \notin {"paying", "exit", "joining", "done"}
    BY <1>6 DEF S!LoadServing, S!StoreServing, S!CarLock, S!WaitInLine, S!GoToPump, S!CarWaits, S!Advance,
       S!CarUnlock, S!At
  <2>5. stpc'[c] = s /\ \A d \in S!Cars \ {c} : stpc'[d] = stpc[d]
    BY <2>2, StationConstants DEF StationTypeOK
  <2> QED
    BY <2>1, <2>3, <2>4, <2>5, AtmQuiet
<1> QED
  BY <1>1, <1>2, <1>3, <1>4, <1>5, <1>6 DEF S!Next

LEMMA StepAsleep ==
    ASSUME OneAsleep, S!Next
    PROVE  OneAsleep'
<1>1. condATM' = condATM \/ condATM' = {} \/ \E t : condATM' = {t}
  <2>1. CASE S!Enter \/ S!Count \/ S!Drain \/ S!MainWaits \/ S!MainWakes \/ S!Join
    BY <2>1 DEF S!Enter, S!Count, S!Drain, S!MainWaits, S!MainWakes, S!Join, S!atm
  <2>2. CASE \E t \in S!Cars \cup Attenders :
                \/ S!LoadServing(t) \/ S!StoreServing(t) \/ S!CarLock(t) \/ S!WaitInLine(t)
                \/ S!GoToPump(t) \/ S!CarWaits(t) \/ S!Advance(t) \/ S!CarUnlock(t)
                \/ S!ExitStation(t) \/ S!ServeCar(t)
    BY <2>2 DEF S!LoadServing, S!StoreServing, S!CarLock, S!WaitInLine, S!GoToPump, S!CarWaits, S!Advance,
       S!CarUnlock, S!ExitStation, S!ServeCar, S!atm
  <2>3. CASE \E t \in S!Cars : S!Pay(t) \/ S!Paying(t)
    BY <2>3 DEF S!Pay, S!Paying, S!WakeAllAndSleep
  <2>4. CASE \E t \in Attenders : S!AcceptPayment(t)
    BY <2>4 DEF S!AcceptPayment, S!WakeAllAndSleep
  <2> QED
    BY <2>1, <2>2, <2>3, <2>4 DEF S!Next
<1> QED
  BY <1>1 DEF OneAsleep

LEMMA StationStep == StationInv /\ S!Next => StationInv'
  BY StationTypesKept, StepInLine, StepServing, StepAtm, StepAsleep DEF StationInv

LEMMA StationUnchanged == StationInv /\ UNCHANGED station => StationInv'
<1> SUFFICES ASSUME StationInv, UNCHANGED station PROVE StationInv'
  OBVIOUS
<1>1. /\ stpc' = stpc /\ queLow' = queLow /\ queHigh' = queHigh /\ carCompleted' = carCompleted
      /\ serving' = serving /\ reg' = reg /\ ATM' = ATM /\ ATMBUSY' = ATMBUSY /\ condATM' = condATM
  BY DEF station
<1>2. QueueInv' /\ ServingInv' /\ AtmInv' /\ OneAsleep'
  BY <1>1, OtherInLine, ServingQuiet, AtmQuiet DEF StationInv, Counting, OneAsleep
<1>3. StationTypeOK'
  BY <1>1 DEF StationInv, StationTypeOK, StationPlaces, CarPlaces, AttenderPlaces, MainPlaces,
     S!AtPump, S!Left, S!Threads, S!Cars
<1> QED
  BY <1>2, <1>3 DEF StationInv

LEMMA StationInitially == S!Init => StationInv
<1> SUFFICES ASSUME S!Init PROVE StationInv
  OBVIOUS
<1>1. /\ queLow = 0 /\ queHigh = 0 /\ carCompleted = 0 /\ serving = 0 /\ ATM = 0 /\ ATMBUSY = 0
      /\ condATM = {} /\ reg = [t \in S!Threads |-> 0]
      /\ stpc = [t \in S!Threads |-> IF t = Main THEN "enter"
                                     ELSE IF t \in Attenders THEN "serve" ELSE "none"]
  BY DEF S!Init
<1>2. /\ \A c \in S!Cars : stpc[c] = "none" /\ c \in Nat
      /\ \A a \in Attenders : stpc[a] = "serve"
      /\ stpc[Main] = "enter"
  BY <1>1, StationConstants
<1>3. StationTypeOK
  <2>1. stpc \in [S!Threads -> StationPlaces]
    BY <1>1, <1>2, StationConstants DEF StationPlaces, CarPlaces, AttenderPlaces, MainPlaces
  <2> QED
    BY <1>1, <2>1 DEF StationTypeOK
<1>4. QueueInv
  <2>1. ~Counting
    BY <1>2 DEF Counting
  <2>2. \A c \in S!Cars : ~Come(c) /\ ~(c < queLow)
    BY <1>1, <1>2, <2>1 DEF Come
  <2> QED
    BY <1>1, <1>2, <2>1, <2>2, StationAssumption DEF QueueInv, S!AtPump, S!Left
<1>5. ServingInv
  BY <1>1, <1>2, StationAssumption DEF ServingInv
<1>6. AtmInv
  <2>1. AtAtm = {} /\ S!Paid = {}
    BY <1>2 DEF AtAtm, S!Paid
  <2> QED
    BY <1>1, <2>1, FS_EmptySet DEF AtmInv, S!Amount
<1> QED
  BY <1>1, <1>3, <1>4, <1>5, <1>6 DEF StationInv, OneAsleep

LEMMA StationIsSound ==
    ASSUME StationInv
    PROVE  S!InLine /\ S!PaidOnce /\ S!NobodyStranded
<1>1. S!InLine
  <2>1. queHigh - queLow \in -1..QueueSize
    BY StationAssumption DEF StationInv, QueueInv, StationTypeOK
  <2> QED
    BY <2>1 DEF StationInv, QueueInv, ServingInv, S!InLine
<1>2. S!PaidOnce
  <2>1. \A X : S!Cardinality(X) = Cardinality(X)
    BY DEF S!Cardinality, Cardinality
  <2> QED
    BY <2>1 DEF StationInv, AtmInv, S!PaidOnce, AtAtm
<1>3. S!NobodyStranded
  BY StationAssumption DEF StationInv, OneAsleep, S!NobodyStranded
<1> QED
  BY <1>1, <1>2, <1>3

-----------------------------------------------------------------------------
(* The badminton academy *)

MetPlaces == {"test", "nap", "clear", "court", "forming"}
AcademyPlaces == {"none", "meet"} \cup MetPlaces

AcademyTypeOK ==
    /\ kind \in [A!Threads -> {"none", "player", "refree"}]
    /\ acpc \in [A!Threads -> AcademyPlaces]
    /\ playerWithOrganiser \in 0..2 /\ refreeWithOrganiser \in 0..1
    /\ flag \in 0..1 /\ teams \in Nat

(* The threads come in the order of their numbers.                         *)
ComeTo(k) == \A t \in A!Threads : /\ kind[t] # "none" <=> t <= k
                                  /\ acpc[t] # "none" <=> t <= k

CameInv == \E k \in 0..(3 * Teams) : ComeTo(k)

MetPlayers == {t \in A!Threads : acpc[t] \in MetPlaces /\ kind[t] = "player"}
MetRefrees == {t \in A!Threads : acpc[t] \in MetPlaces /\ kind[t] = "refree"}
CourtRefrees == {t \in A!Threads : acpc[t] = "court" /\ kind[t] = "refree"}

Forming(t) == acpc[t] = "forming"

OrganiserInv ==
    /\ Cardinality(MetPlayers) = 2 * teams + playerWithOrganiser
    /\ Cardinality(MetRefrees) = teams + refreeWithOrganiser
    /\ \A t \in A!Threads : Forming(t) => /\ kind[t] = "refree"
                                          /\ playerWithOrganiser = 2 /\ refreeWithOrganiser = 1
    /\ \A t, u \in A!Threads : Forming(t) /\ Forming(u) => t = u
    /\ alone = {} \/ /\ \E t \in A!Threads : alone = {t}
                     /\ refreeWithOrganiser = 1 /\ \A t \in A!Threads : ~Forming(t)

(* One thread at most is between its test of flag and its wait, or its     *)
(* flag = 0; a team whose referee has not come to the court is counted.    *)
CourtInv ==
    /\ \A t, u \in A!Threads : acpc[t] \in {"nap", "clear"} /\ acpc[u] \in {"nap", "clear"} => t = u
    /\ \A t \in A!Threads : acpc[t] = "clear" => flag = 1 /\ kind[t] = "refree"
    /\ Cardinality(CourtRefrees) + flag <= teams
    /\ \A t \in A!Threads : acpc[t] = "court" /\ kind[t] = "player" => teams > 0

AcademyInv == AcademyTypeOK /\ CameInv /\ OrganiserInv /\ CourtInv

LEMMA AcademyCounts == \A X : A!Cardinality(X) = Cardinality(X)
  BY DEF A!Cardinality, Cardinality

LEMMA ThreadsFinite ==
    ASSUME NEW X \in SUBSET A!Threads
    PROVE  IsFiniteSet(X) /\ Cardinality(X) \in Nat
<1>1. IsFiniteSet(A!Threads)
  BY AcademyAssumption, FS_Interval DEF A!Threads
<1> QED
  BY <1>1, FS_Subset, FS_CardinalityType

-----------------------------------------------------------------------------
(* Whoever is created is new.                                              *)
Comes(t) == /\ kind[t] = "none" /\ acpc[t] = "none"
            /\ kind'[t] \in {"player", "refree"} /\ acpc'[t] = "meet"
            /\ \A u \in A!Threads \ {t} : kind'[u] = kind[u] /\ acpc'[u] = acpc[u]

LEMMA CreateComes ==
    ASSUME AcademyTypeOK, CameInv, A!Create
    PROVE  (\E t \in A!Threads : Comes(t)) /\ CameInv'
           /\ kind' \in [A!Threads -> {"none", "player", "refree"}]
           /\ acpc' \in [A!Threads -> AcademyPlaces]
<1>1. PICK k \in 0..(3 * Teams) : ComeTo(k)
  BY DEF CameInv
<1>2. A!Players \cup A!Refrees = 1..k
  <2>1. A!Players \cup A!Refrees = {t \in A!Threads : kind[t] # "none"}
    BY DEF A!Players, A!Refrees, AcademyTypeOK
  <2>2. 1..k \subseteq A!Threads
    BY AcademyAssumption DEF A!Threads
  <2>3. \A t \in A!Threads : t \in Int /\ t >= 1 /\ (kind[t] # "none" <=> t <= k)
    BY <1>1 DEF ComeTo, A!Threads
  <2> QED
    BY <2>1, <2>2, <2>3
<1>3. A!Cardinality(A!Players \cup A!Refrees) = k
  <2>1. Cardinality(1..k) = k
    BY FS_Interval
  <2> QED
    BY <1>2, <2>1, AcademyCounts
<1>4. k + 1 \in A!Threads /\ k + 1 \in 0..(3 * Teams) /\ k \in Nat
  <2>1. PICK t \in A!Threads : t \notin 1..k
    BY <1>2 DEF A!Create
  <2> QED
    BY <2>1, AcademyAssumption DEF A!Threads
<1>5. PICK s \in {"player", "refree"} :
          kind' = [kind EXCEPT ![k + 1] = s] /\ acpc' = [acpc EXCEPT ![k + 1] = "meet"]
  BY <1>3 DEF A!Create, A!Goto
<1>6. /\ kind'[k + 1] = s /\ acpc'[k + 1] = "meet"
      /\ \A u \in A!Threads \ {k + 1} : kind'[u] = kind[u] /\ acpc'[u] = acpc[u]
  BY <1>4, <1>5 DEF AcademyTypeOK
<1>7. Comes(k + 1)
  BY <1>1, <1>4, <1>6 DEF Comes, ComeTo
<1>8. ComeTo(k + 1)'
  <2>1. \A u \in A!Threads : u \in Int /\ (u # k + 1 => (u <= k <=> u <= k + 1))
    BY <1>4 DEF A!Threads
  <2> QED
    BY <1>1, <1>4, <1>6, <2>1 DEF ComeTo, A!Threads
<1>9. CameInv'
  BY <1>4, <1>8 DEF CameInv
<1>10. /\ kind' \in [A!Threads -> {"none", "player", "refree"}]
       /\ acpc' \in [A!Threads -> AcademyPlaces]
  BY <1>5 DEF AcademyTypeOK, AcademyPlaces
<1> QED
  BY <1>4, <1>7, <1>9, <1>10

(* A step of a thread that has come.                                       *)
LEMMA MovesOn ==
    ASSUME AcademyTypeOK, CameInv, NEW t \in A!Threads, NEW s \in AcademyPlaces,
           acpc[t] # "none", s # "none", acpc' = [acpc EXCEPT ![t] = s], kind' = kind
    PROVE  /\ acpc'[t] = s /\ \A u \in A!Threads \ {t} : acpc'[u] = acpc[u]
           /\ CameInv' /\ kind' \in [A!Threads -> {"none", "player", "refree"}]
           /\ acpc' \in [A!Threads -> AcademyPlaces]
<1>1. acpc'[t] = s /\ \A u \in A!Threads \ {t} : acpc'[u] = acpc[u]
  BY DEF AcademyTypeOK
<1>2. PICK k \in 0..(3 * Teams) : ComeTo(k)
  BY DEF CameInv
<1>3. ComeTo(k)'
  BY <1>1, <1>2 DEF ComeTo, A!Threads
<1>4. CameInv'
  BY <1>3 DEF CameInv
<1>5. /\ kind' \in [A!Threads -> {"none", "player", "refree"}]
      /\ acpc' \in [A!Threads -> AcademyPlaces]
  BY DEF AcademyTypeOK
<1> QED
  BY <1>1, <1>4, <1>5

(* Nobody new meets the organiser.                                         *)
LEMMA MetQuiet ==
    ASSUME \A t \in A!Threads : /\ acpc'[t] \in MetPlaces <=> acpc[t] \in MetPlaces
                                /\ acpc[t] \in MetPlaces => kind'[t] = kind[t]
    PROVE  MetPlayers' = MetPlayers /\ MetRefrees' = MetRefrees
  BY DEF MetPlayers, MetRefrees, A!Threads, MetPlaces

LEMMA OrganiserQuiet ==
    ASSUME OrganiserInv, teams' = teams, playerWithOrganiser' = playerWithOrganiser,
           refreeWithOrganiser' = refreeWithOrganiser, alone' = alone,
           \A t \in A!Threads : /\ acpc'[t] \in MetPlaces <=> acpc[t] \in MetPlaces
                                /\ acpc[t] \in MetPlaces => kind'[t] = kind[t]
                                /\ Forming(t)' => Forming(t)
    PROVE  OrganiserInv'
<1>1. MetPlayers' = MetPlayers /\ MetRefrees' = MetRefrees
  BY MetQuiet
<1>2. /\ \A t \in A!Threads : Forming(t)' => /\ kind'[t] = "refree"
                                             /\ playerWithOrganiser = 2 /\ refreeWithOrganiser = 1
      /\ \A t, u \in A!Threads : Forming(t)' /\ Forming(u)' => t = u
      /\ alone = {} \/ /\ \E t \in A!Threads : alone = {t}
                       /\ refreeWithOrganiser = 1 /\ \A t \in A!Threads : ~Forming(t)'
  BY DEF OrganiserInv, Forming, MetPlaces
<1> QED
  BY <1>1, <1>2 DEF OrganiserInv, A!Threads

(* Nobody tests flag or comes to the court.                                *)
LEMMA CourtQuiet ==
    ASSUME CourtInv, flag' = flag, teams' = teams,
           \A t \in A!Threads :
              /\ acpc'[t] \in {"nap", "clear", "court"} => acpc'[t] = acpc[t]
              /\ acpc[t] = "court" => acpc'[t] = "court"
              /\ acpc[t] \in {"nap", "clear", "court"} => kind'[t] = kind[t]
    PROVE  CourtInv'
<1>1. CourtRefrees' = CourtRefrees
  BY DEF CourtRefrees, A!Threads
<1> QED
  BY <1>1 DEF CourtInv, A!Threads

-----------------------------------------------------------------------------
LEMMA CreateAcademy ==
    ASSUME AcademyInv, A!Create
    PROVE  AcademyInv'
<1>1. PICK t \in A!Threads : Comes(t)
  BY CreateComes DEF AcademyInv
<1>2. /\ CameInv' /\ kind' \in [A!Threads -> {"none", "player", "refree"}]
      /\ acpc' \in [A!Threads -> AcademyPlaces]
  BY CreateComes DEF AcademyInv
<1>3. /\ playerWithOrganiser' = playerWithOrganiser /\ refreeWithOrganiser' = refreeWithOrganiser
      /\ flag' = flag /\ teams' = teams /\ alone' = alone
  BY DEF A!Create, A!organiser
<1>4. /\ acpc[t] = "none" /\ acpc'[t] = "meet"
      /\ \A u \in A!Threads \ {t} : kind'[u] = kind[u] /\ acpc'[u] = acpc[u]
  BY <1>1 DEF Comes
<1>5. OrganiserInv'
  BY <1>3, <1>4, OrganiserQuiet DEF AcademyInv, MetPlaces, Forming
<1>6. CourtInv'
  BY <1>3, <1>4, CourtQuiet DEF AcademyInv
<1>7. AcademyTypeOK'
  BY <1>2, <1>3 DEF AcademyInv, AcademyTypeOK, A!Threads, AcademyPlaces, MetPlaces
<1> QED
  BY <1>2, <1>5, <1>6, <1>7 DEF AcademyInv

(* The variables of the organiser and of the court that a step may leave.  *)
Kept == /\ playerWithOrganiser' = playerWithOrganiser /\ refreeWithOrganiser' = refreeWithOrganiser
        /\ flag' = flag /\ teams' = teams /\ alone' = alone /\ kind' = kind

LEMMA StaysAcademy ==
    ASSUME AcademyInv, Kept, acpc' = acpc
    PROVE  AcademyInv'
<1>1. OrganiserInv' /\ CourtInv'
  BY OrganiserQuiet, CourtQuiet DEF AcademyInv, Kept, Forming
<1>2. CameInv'
  BY DEF AcademyInv, Kept, CameInv, ComeTo, A!Threads
<1>3. AcademyTypeOK'
  BY DEF AcademyInv, Kept, AcademyTypeOK, A!Threads, AcademyPlaces, MetPlaces
<1> QED
  BY <1>1, <1>2, <1>3 DEF AcademyInv

LEMMA PlayerMeets ==
    ASSUME AcademyInv, NEW t \in A!Threads, A!MeetPlayer(t)
    PROVE  AcademyInv'
<1>1. /\ acpc[t] = "meet" /\ kind[t] = "player" /\ \A u \in A!Threads : ~Forming(u)
      /\ kind' = kind /\ flag' = flag /\ refreeWithOrganiser' = refreeWithOrganiser
      /\ teams' = teams /\ alone' = alone
  BY DEF A!MeetPlayer, A!Meeting, Forming
<1>2. CASE playerWithOrganiser = 2
  BY <1>1, <1>2, StaysAcademy DEF A!MeetPlayer, Kept
<1>3. CASE playerWithOrganiser # 2
  <2>1. playerWithOrganiser' = playerWithOrganiser + 1 /\ acpc' = [acpc EXCEPT ![t] = "test"]
    BY <1>3 DEF A!MeetPlayer, A!Goto
  <2>2. /\ acpc'[t] = "test" /\ \A u \in A!Threads \ {t} : acpc'[u] = acpc[u]
        /\ CameInv' /\ kind' \in [A!Threads -> {"none", "player", "refree"}]
        /\ acpc' \in [A!Threads -> AcademyPlaces]
    BY <1>1, <2>1, MovesOn DEF AcademyInv, AcademyPlaces, MetPlaces
  <2>3. playerWithOrganiser \in 0..2 /\ teams \in Nat
    BY DEF AcademyInv, AcademyTypeOK
  <2>4. AcademyTypeOK'
    <3>1. playerWithOrganiser' \in 0..2
      BY <1>3, <2>1, <2>3
    <3> QED
      BY <1>1, <2>2, <3>1 DEF AcademyInv, AcademyTypeOK, A!Threads, AcademyPlaces, MetPlaces
  <2>5. MetPlayers' = MetPlayers \cup {t} /\ t \notin MetPlayers
    BY <1>1, <2>2 DEF MetPlayers, A!Threads, MetPlaces
  <2>6. MetRefrees' = MetRefrees
    BY <1>1, <2>2 DEF MetRefrees, A!Threads, MetPlaces
  <2>7. Cardinality(MetPlayers') = 2 * teams + playerWithOrganiser'
    <3>1. Cardinality(MetPlayers') = Cardinality(MetPlayers) + 1
      BY <2>5, ThreadsFinite, FS_AddElement DEF MetPlayers
    <3>2. Cardinality(MetPlayers) = 2 * teams + playerWithOrganiser
      BY DEF AcademyInv, OrganiserInv
    <3> QED
      BY <2>1, <2>3, <3>1, <3>2
  <2>8. \A u \in A!Threads : ~Forming(u)'
    BY <1>1, <2>2 DEF Forming
  <2>9. OrganiserInv'
    BY <1>1, <2>6, <2>7, <2>8 DEF AcademyInv, OrganiserInv, A!Threads
  <2>10. CourtInv'
    BY <1>1, <2>2, CourtQuiet DEF AcademyInv
  <2> QED
    BY <2>2, <2>4, <2>9, <2>10 DEF AcademyInv
<1> QED
  BY <1>2, <1>3

LEMMA RefreeMeets ==
    ASSUME AcademyInv, NEW t \in A!Threads, A!MeetRefree(t)
    PROVE  AcademyInv'
<1>1. /\ acpc[t] = "meet" /\ kind[t] = "refree" /\ \A u \in A!Threads : ~Forming(u)
      /\ kind' = kind /\ flag' = flag /\ playerWithOrganiser' = playerWithOrganiser
      /\ teams' = teams
  BY DEF A!MeetRefree, A!Meeting, Forming
<1>2. CASE refreeWithOrganiser = 1
  BY <1>1, <1>2, StaysAcademy DEF A!MeetRefree, Kept
<1>3. CASE refreeWithOrganiser # 1
  <2>1. /\ refreeWithOrganiser' = 1
        /\ \/ playerWithOrganiser = 2 /\ acpc' = [acpc EXCEPT ![t] = "forming"] /\ alone' = alone
           \/ acpc' = [acpc EXCEPT ![t] = "test"] /\ alone' = alone \cup {t}
    BY <1>3 DEF A!MeetRefree, A!Goto
  <2>2. PICK s \in {"test", "forming"} : acpc' = [acpc EXCEPT ![t] = s]
    BY <2>1
  <2>3. /\ acpc'[t] = s /\ \A u \in A!Threads \ {t} : acpc'[u] = acpc[u]
        /\ CameInv' /\ kind' \in [A!Threads -> {"none", "player", "refree"}]
        /\ acpc' \in [A!Threads -> AcademyPlaces]
    BY <1>1, <2>2, MovesOn DEF AcademyInv, AcademyPlaces, MetPlaces
  <2>4. refreeWithOrganiser = 0 /\ alone = {} /\ teams \in Nat
    BY <1>3 DEF AcademyInv, AcademyTypeOK, OrganiserInv
  <2>5. AcademyTypeOK'
    BY <1>1, <2>1, <2>3 DEF AcademyInv, AcademyTypeOK, A!Threads, AcademyPlaces, MetPlaces
  <2>6. MetRefrees' = MetRefrees \cup {t} /\ t \notin MetRefrees
    BY <1>1, <2>3 DEF MetRefrees, A!Threads, MetPlaces
  <2>7. MetPlayers' = MetPlayers
    BY <1>1, <2>3 DEF MetPlayers, A!Threads, MetPlaces
  <2>8. Cardinality(MetRefrees') = teams + refreeWithOrganiser'
    <3>1. Cardinality(MetRefrees') = Cardinality(MetRefrees) + 1
      BY <2>6, ThreadsFinite, FS_AddElement DEF MetRefrees
    <3>2. Cardinality(MetRefrees) = teams + refreeWithOrganiser
      BY DEF AcademyInv, OrganiserInv
    <3> QED
      BY <2>1, <2>4, <3>1, <3>2
  <2>9. \A u \in A!Threads : Forming(u)' => u = t /\ s = "forming"
    BY <1>1, <2>3 DEF Forming
  <2>10. OrganiserInv'
    <3>1. acpc'[t] = "forming" => playerWithOrganiser = 2 /\ alone' = {}
      <4>1. CASE playerWithOrganiser = 2 /\ acpc' = [acpc EXCEPT ![t] = "forming"] /\ alone' = alone
        BY <2>4, <4>1
      <4>2. CASE acpc' = [acpc EXCEPT ![t] = "test"]
        BY <4>2 DEF AcademyInv, AcademyTypeOK
      <4> QED
        BY <2>1, <4>1, <4>2
    <3>2. alone' = {} \/ alone' = {t}
      BY <2>1, <2>4
    <3>3. alone' = {} \/ /\ \E u \in A!Threads : alone' = {u}
                         /\ refreeWithOrganiser' = 1 /\ \A u \in A!Threads : ~Forming(u)'
      BY <2>1, <2>3, <2>9, <3>1, <3>2
    <3>4. \A u \in A!Threads : Forming(u)' =>
             kind'[u] = "refree" /\ playerWithOrganiser' = 2 /\ refreeWithOrganiser' = 1
      BY <1>1, <2>1, <2>3, <2>9, <3>1
    <3>5. Cardinality(MetPlayers') = 2 * teams' + playerWithOrganiser'
      BY <1>1, <2>7 DEF AcademyInv, OrganiserInv
    <3> QED
      BY <1>1, <2>8, <2>9, <3>3, <3>4, <3>5 DEF OrganiserInv, A!Threads
  <2>11. CourtInv'
    BY <1>1, <2>2, <2>3, CourtQuiet DEF AcademyInv
  <2> QED
    BY <2>3, <2>5, <2>10, <2>11 DEF AcademyInv
<1> QED
  BY <1>2, <1>3

LEMMA TeamForms ==
    ASSUME AcademyInv, NEW t \in A!Threads, A!FormTeam(t)
    PROVE  AcademyInv'
<1>1. /\ acpc[t] = "forming" /\ flag' = 1 /\ refreeWithOrganiser' = 0 /\ playerWithOrganiser' = 0
      /\ teams' = teams + 1 /\ acpc' = [acpc EXCEPT ![t] = "test"] /\ kind' = kind /\ alone' = alone
  BY DEF A!FormTeam, A!Goto
<1>2. /\ acpc'[t] = "test" /\ \A u \in A!Threads \ {t} : acpc'[u] = acpc[u]
      /\ CameInv' /\ kind' \in [A!Threads -> {"none", "player", "refree"}]
      /\ acpc' \in [A!Threads -> AcademyPlaces]
  BY <1>1, MovesOn DEF AcademyInv, AcademyPlaces, MetPlaces
<1>3. /\ playerWithOrganiser = 2 /\ refreeWithOrganiser = 1 /\ alone = {}
      /\ \A u \in A!Threads \ {t} : ~Forming(u)
  BY <1>1 DEF AcademyInv, OrganiserInv, Forming
<1>4. teams \in Nat /\ flag \in 0..1
  BY DEF AcademyInv, AcademyTypeOK
<1>5. AcademyTypeOK'
  BY <1>1, <1>2, <1>4 DEF AcademyTypeOK, A!Threads, AcademyPlaces, MetPlaces
<1>6. MetPlayers' = MetPlayers /\ MetRefrees' = MetRefrees
  BY <1>1, <1>2, MetQuiet DEF MetPlaces
<1>7. /\ Cardinality(MetPlayers') = 2 * teams' + playerWithOrganiser'
      /\ Cardinality(MetRefrees') = teams' + refreeWithOrganiser'
  <2>1. Cardinality(MetPlayers) = 2 * teams + 2 /\ Cardinality(MetRefrees) = teams + 1
    BY <1>3 DEF AcademyInv, OrganiserInv
  <2>2. Cardinality(MetPlayers') = 2 * teams + 2 /\ Cardinality(MetRefrees') = teams + 1
    BY <1>6, <2>1
  <2> QED
    BY <1>1, <1>4, <2>2
<1>8. \A u \in A!Threads : ~Forming(u)'
  BY <1>2, <1>3 DEF Forming
<1>9. OrganiserInv'
  BY <1>1, <1>3, <1>7, <1>8 DEF OrganiserInv, A!Threads
<1>10. CourtInv'
  <2>1. CourtRefrees' = CourtRefrees
    BY <1>1, <1>2 DEF CourtRefrees, A!Threads
  <2>2. Cardinality(CourtRefrees') + flag' <= teams'
    <3>1. Cardinality(CourtRefrees) \in Nat /\ Cardinality(CourtRefrees) + flag <= teams
      BY ThreadsFinite DEF CourtRefrees, AcademyInv, CourtInv
    <3> QED
      BY <1>1, <1>4, <2>1, <3>1
  <2>3. teams' > 0
    BY <1>1, <1>4
  <2>4. \A u \in A!Threads : acpc'[u] \in {"nap", "clear"} => acpc'[u] = acpc[u] /\ kind'[u] = kind[u]
    BY <1>1, <1>2
  <2> QED
    BY <1>1, <2>2, <2>3, <2>4 DEF AcademyInv, CourtInv, A!Threads
<1> QED
  BY <1>2, <1>5, <1>9, <1>10 DEF AcademyInv

LEMMA TestsFlag ==
    ASSUME AcademyInv, NEW t \in A!Threads, A!TestFlag(t)
    PROVE  AcademyInv'
<1>1. /\ acpc[t] = "test" /\ Kept /\ \A u \in A!Threads : acpc[u] \notin {"nap", "clear"}
  BY DEF A!TestFlag, A!Inside, A!organiser, Kept
<1>2. PICK s \in {"nap", "clear", "court"} :
          /\ acpc' = [acpc EXCEPT ![t] = s]
          /\ s # "nap" => flag # 0
          /\ s = "clear" => kind[t] = "refree"
          /\ s = "court" => kind[t] # "refree"
  BY DEF A!TestFlag, A!Goto
<1>3. /\ acpc'[t] = s /\ \A u \in A!Threads \ {t} : acpc'[u] = acpc[u]
      /\ CameInv' /\ kind' \in [A!Threads -> {"none", "player", "refree"}]
      /\ acpc' \in [A!Threads -> AcademyPlaces]
  BY <1>1, <1>2, MovesOn DEF AcademyInv, AcademyPlaces, MetPlaces, Kept
<1>4. AcademyTypeOK'
  BY <1>1, <1>3 DEF AcademyInv, AcademyTypeOK, A!Threads, AcademyPlaces, MetPlaces, Kept
<1>5. OrganiserInv'
  BY <1>1, <1>2, <1>3, OrganiserQuiet DEF AcademyInv, Kept, MetPlaces, Forming
<1>6. flag \in 0..1 /\ teams \in Nat /\ (s # "nap" => flag = 1)
  BY <1>2 DEF AcademyInv, AcademyTypeOK
<1>7. CourtInv'
  <2>1. CourtRefrees' = CourtRefrees
    BY <1>1, <1>2, <1>3 DEF CourtRefrees, A!Threads, Kept
  <2>2. Cardinality(CourtRefrees') + flag' <= teams'
    BY <1>1, <2>1 DEF AcademyInv, CourtInv, Kept
  <2>3. s # "nap" => teams > 0
    <3>1. Cardinality(CourtRefrees) \in Nat /\ Cardinality(CourtRefrees) + flag <= teams
      BY ThreadsFinite DEF CourtRefrees, AcademyInv, CourtInv
    <3> QED
      BY <1>6, <3>1
  <2>4. \A u \in A!Threads : acpc'[u] = "court" /\ kind'[u] = "player" => teams' > 0
    BY <1>1, <1>3, <2>3 DEF AcademyInv, CourtInv, Kept
  <2>5. \A u \in A!Threads : acpc'[u] = "clear" => flag' = 1 /\ kind'[u] = "refree"
    BY <1>1, <1>2, <1>3, <1>6 DEF Kept
  <2>6. \A u, v \in A!Threads : acpc'[u] \in {"nap", "clear"} /\ acpc'[v] \in {"nap", "clear"} => u = v
    BY <1>1, <1>3
  <2> QED
    BY <2>2, <2>4, <2>5, <2>6 DEF CourtInv, A!Threads
<1> QED
  BY <1>3, <1>4, <1>5, <1>7 DEF AcademyInv

LEMMA WaitsForTeam ==
    ASSUME AcademyInv, NEW t \in A!Threads, A!WaitForTeam(t)
    PROVE  AcademyInv'
<1>1. acpc[t] = "nap" /\ Kept /\ acpc' = [acpc EXCEPT ![t] = "test"]
  BY DEF A!WaitForTeam, A!organiser, A!Goto, Kept
<1>2. /\ acpc'[t] = "test" /\ \A u \in A!Threads \ {t} : acpc'[u] = acpc[u]
      /\ CameInv' /\ kind' \in [A!Threads -> {"none", "player", "refree"}]
      /\ acpc' \in [A!Threads -> AcademyPlaces]
  BY <1>1, MovesOn DEF AcademyInv, AcademyPlaces, MetPlaces, Kept
<1>3. AcademyTypeOK'
  BY <1>1, <1>2 DEF AcademyInv, AcademyTypeOK, A!Threads, AcademyPlaces, MetPlaces, Kept
<1>4. OrganiserInv'
  BY <1>1, <1>2, OrganiserQuiet DEF AcademyInv, Kept, MetPlaces, Forming
<1>5. CourtInv'
  BY <1>1, <1>2, CourtQuiet DEF AcademyInv, Kept
<1> QED
  BY <1>2, <1>3, <1>4, <1>5 DEF AcademyInv

LEMMA ClearsFlag ==
    ASSUME AcademyInv, NEW t \in A!Threads, A!ClearFlag(t)
    PROVE  AcademyInv'
<1>1. /\ acpc[t] = "clear" /\ flag' = 0 /\ acpc' = [acpc EXCEPT ![t] = "court"] /\ kind' = kind
      /\ playerWithOrganiser' = playerWithOrganiser /\ refreeWithOrganiser' = refreeWithOrganiser
      /\ teams' = teams /\ alone' = alone
  BY DEF A!ClearFlag, A!organiser, A!Goto
<1>2. /\ acpc'[t] = "court" /\ \A u \in A!Threads \ {t} : acpc'[u] = acpc[u]
      /\ CameInv' /\ kind' \in [A!Threads -> {"none", "player", "refree"}]
      /\ acpc' \in [A!Threads -> AcademyPlaces]
  BY <1>1, MovesOn DEF AcademyInv, AcademyPlaces, MetPlaces
<1>3. /\ flag = 1 /\ kind[t] = "refree" /\ teams \in Nat
      /\ \A u \in A!Threads \ {t} : acpc[u] \notin {"nap", "clear"}
  BY <1>1 DEF AcademyInv, CourtInv, AcademyTypeOK
<1>4. AcademyTypeOK'
  BY <1>1, <1>2 DEF AcademyInv, AcademyTypeOK, A!Threads, AcademyPlaces, MetPlaces
<1>5. OrganiserInv'
  BY <1>1, <1>2, OrganiserQuiet DEF AcademyInv, MetPlaces, Forming
<1>6. CourtInv'
  <2>1. CourtRefrees' = CourtRefrees \cup {t} /\ t \notin CourtRefrees
    BY <1>1, <1>2, <1>3 DEF CourtRefrees, A!Threads
  <2>2. Cardinality(CourtRefrees') = Cardinality(CourtRefrees) + 1
    BY <2>1, ThreadsFinite, FS_AddElement DEF CourtRefrees
  <2>3. Cardinality(CourtRefrees') + flag' <= teams'
    <3>1. Cardinality(CourtRefrees) \in Nat /\ Cardinality(CourtRefrees) + flag <= teams
      BY ThreadsFinite DEF CourtRefrees, AcademyInv, CourtInv
    <3> QED
      BY <1>1, <1>3, <2>2, <3>1
  <2>4. \A u \in A!Threads : acpc'[u] = "court" /\ kind'[u] = "player" => teams' > 0
    BY <1>1, <1>2, <1>3 DEF AcademyInv, CourtInv
  <2>5. \A u \in A!Threads : acpc'[u] \notin {"nap", "clear"}
    BY <1>2, <1>3
  <2> QED
    BY <2>3, <2>4, <2>5 DEF CourtInv, A!Threads
<1> QED
  BY <1>2, <1>4, <1>5, <1>6 DEF AcademyInv

LEMMA AcademyStep == AcademyInv /\ A!Next => AcademyInv'
  BY CreateAcademy, PlayerMeets, RefreeMeets, TeamForms, TestsFlag, WaitsForTeam, ClearsFlag DEF A!Next

LEMMA AcademyUnchanged == AcademyInv /\ UNCHANGED academy => AcademyInv'
  BY StaysAcademy DEF academy, Kept

LEMMA AcademyInitially == A!Init => AcademyInv
<1> SUFFICES ASSUME A!Init PROVE AcademyInv
  OBVIOUS
<1>1. /\ kind = [t \in A!Threads |-> "none"] /\ acpc = [t \in A!Threads |-> "none"]
      /\ playerWithOrganiser = 0 /\ refreeWithOrganiser = 0 /\ flag = 0 /\ teams = 0 /\ alone = {}
  BY DEF A!Init
<1>2. AcademyTypeOK
  BY <1>1 DEF AcademyTypeOK, AcademyPlaces
<1>3. CameInv
  <2>1. ComeTo(0)
    BY <1>1 DEF ComeTo, A!Threads
  <2> QED
    BY <2>1, AcademyAssumption DEF CameInv
<1>4. MetPlayers = {} /\ MetRefrees = {} /\ CourtRefrees = {}
  BY <1>1 DEF MetPlayers, MetRefrees, CourtRefrees, MetPlaces
<1>5. OrganiserInv /\ CourtInv
  BY <1>1, <1>4, FS_EmptySet DEF OrganiserInv, CourtInv, Forming
<1> QED
  BY <1>2, <1>3, <1>5 DEF AcademyInv

LEMMA AcademyIsSound ==
    ASSUME AcademyInv
    PROVE  A!TeamsAreThree /\ A!CourtAfterTeams /\ A!EarlyIsLast
<1>1. /\ A!Met \cap A!Players = MetPlayers /\ A!Met \cap A!Refrees = MetRefrees
      /\ A!OnCourt(A!Refrees) = CourtRefrees
  BY DEF A!Met, A!Players, A!Refrees, A!OnCourt, MetPlayers, MetRefrees, CourtRefrees, MetPlaces
<1>2. A!TeamsAreThree
  BY <1>1, AcademyCounts DEF A!TeamsAreThree, AcademyInv, OrganiserInv, AcademyTypeOK
<1>3. A!CourtAfterTeams
  BY <1>1, AcademyCounts DEF A!CourtAfterTeams, AcademyInv, CourtInv, A!OnCourt, A!Players
<1>4. A!EarlyIsLast
  <2>1. A!Cardinality(alone) <= 1
    <3>1. alone = {} \/ \E t : alone = {t}
      BY DEF AcademyInv, OrganiserInv
    <3>2. Cardinality({}) = 0 /\ \A t : Cardinality({t}) = 1
      BY FS_EmptySet, FS_Singleton
    <3>3. Cardinality(alone) = 0 \/ Cardinality(alone) = 1
      BY <3>1, <3>2, Zenon
    <3>4. A!Cardinality(alone) = Cardinality(alone)
      BY AcademyCounts
    <3> QED
      BY <3>3, <3>4
  <2> QED
    BY <2>1 DEF A!EarlyIsLast, AcademyInv, OrganiserInv, Forming
<1> QED
  BY <1>2, <1>3, <1>4

-----------------------------------------------------------------------------
(* The first shell *)

(* A reminder that is set and not yet printed is the last that was set, and *)
(* the message is its text alone.                                           *)
ReminderInv ==
    /\ timeVLD \in {0, 1} /\ now \in Int /\ timSt \in Int /\ waitFor \in Int
    /\ set \in Seq(Texts) /\ printed \in Seq(Seq(Texts))
    /\ msg = IF timeVLD = 1 THEN <<set[Len(set)]>> ELSE <<>>
    /\ Len(set) = Len(printed) + timeVLD
    /\ \A k \in 1..Len(printed) : printed[k] = <<set[k]>>
    /\ last # None => \/ last.how = "reminder" /\ last.after >= last.wait
                      \/ last.how = "failed" /\ last.after < 0

LEMMA ReminderKept ==
    ASSUME ReminderInv, now' \in Int, UNCHANGED <<timeVLD, timSt, waitFor, msg, set, printed, last>>
    PROVE  ReminderInv'
  BY DEF ReminderInv

(* remindme, if no reminder is set. *)
LEMMA SetsReminder ==
    ASSUME ReminderInv, F!SetAlarm
    PROVE  ReminderInv'
<1>1. now' = now
  BY DEF F!SetAlarm
<1>2. CASE timeVLD = 1
  <2>1. UNCHANGED <<timeVLD, timSt, waitFor, msg, set, printed, last>>
    BY <1>2 DEF F!SetAlarm, F!alarm
  <2> QED
    BY <1>1, <2>1, ReminderKept DEF ReminderInv
<1>3. CASE timeVLD # 1
  <2>1. PICK w \in Waits, t \in Texts :
            /\ timeVLD' = 1 /\ waitFor' = w /\ timSt' = now
            /\ msg' = Append(msg, t) /\ set' = Append(set, t)
            /\ printed' = printed /\ last' = last
    BY <1>3 DEF F!SetAlarm
  <2>2. timeVLD = 0 /\ msg = <<>> /\ Len(set) = Len(printed)
    BY <1>3 DEF ReminderInv
  <2>3. set \in Seq(Texts) /\ printed \in Seq(Seq(Texts)) /\ now \in Int /\ w \in Int
    BY ReminderAssumption DEF ReminderInv
  <2>4. /\ set' \in Seq(Texts) /\ Len(set') = Len(set) + 1 /\ set'[Len(set) + 1] = t
        /\ \A k \in 1..Len(set) : set'[k] = set[k]
    BY <2>1, <2>3
  <2>5. msg' = <<set'[Len(set')]>>
    BY <2>1, <2>2, <2>4
  <2>6. Len(printed) \in Nat /\ Len(set') = Len(printed') + timeVLD'
    BY <2>1, <2>2, <2>3, <2>4
  <2>7. \A k \in 1..Len(printed') : printed'[k] = <<set'[k]>>
    BY <2>1, <2>2, <2>4 DEF ReminderInv
  <2> QED
    BY <1>1, <2>1, <2>3, <2>4, <2>5, <2>6, <2>7 DEF ReminderInv
<1> QED
  BY <1>2, <1>3

(* chkAlarm prints what is due, and says of a clock set back that it failed.*)
LEMMA ChecksReminder ==
    ASSUME ReminderInv, F!ChkAlarm
    PROVE  ReminderInv'
<1>1. now' = now /\ timSt' = timSt /\ waitFor' = waitFor /\ set' = set
  BY DEF F!ChkAlarm
<1>2. now \in Int /\ timSt \in Int /\ waitFor \in Int
  BY DEF ReminderInv
<1>3. \/ UNCHANGED <<timeVLD, msg, printed, last>>
      \/ timeVLD = 1 /\ now - timSt >= waitFor /\ F!Prints("reminder")
      \/ timeVLD = 1 /\ now - timSt < 0 /\ F!Prints("failed")
  BY DEF F!ChkAlarm
<1>4. CASE UNCHANGED <<timeVLD, msg, printed, last>>
  BY <1>1, <1>2, <1>4, ReminderKept
<1>5. ASSUME NEW how \in {"reminder", "failed"}, timeVLD = 1, F!Prints(how),
             \/ how = "reminder" /\ now - timSt >= waitFor
             \/ how = "failed" /\ now - timSt < 0
      PROVE  ReminderInv'
  <2>1. /\ timeVLD' = 0 /\ msg' = <<>> /\ printed' = Append(printed, msg)
        /\ last' = [how |-> how, after |-> now - timSt, wait |-> waitFor]
    BY <1>5 DEF F!Prints
  <2>2. /\ set \in Seq(Texts) /\ printed \in Seq(Seq(Texts)) /\ Len(set) = Len(printed) + 1
        /\ msg = <<set[Len(set)]>>
    BY <1>5 DEF ReminderInv
  <2>3. set[Len(set)] \in Texts
    BY <2>2
  <2>4. msg \in Seq(Texts)
    BY <2>2, <2>3
  <2>5. /\ printed' \in Seq(Seq(Texts)) /\ Len(printed') = Len(printed) + 1
        /\ printed'[Len(printed) + 1] = msg
        /\ \A k \in 1..Len(printed) : printed'[k] = printed[k]
    BY <2>1, <2>2, <2>4
  <2>6. \A k \in 1..Len(printed) : printed[k] = <<set[k]>>
    BY DEF ReminderInv
  <2>7. Len(printed) \in Nat
    BY <2>2
  <2>8. \A k \in 1..Len(printed') : printed'[k] = <<set'[k]>>
    <3> TAKE k \in 1..Len(printed')
    <3>1. k \in 1..Len(printed) \/ k = Len(printed) + 1
      BY <2>5, <2>7
    <3>2. CASE k \in 1..Len(printed)
      BY <1>1, <2>5, <2>6, <3>2
    <3>3. CASE k = Len(printed) + 1
      BY <1>1, <2>2, <2>5, <3>3
    <3> QED
      BY <3>1, <3>2, <3>3
  <2>9. Len(set') = Len(printed') + timeVLD'
    BY <1>1, <2>1, <2>2, <2>5, <2>7
  <2>10. \/ last'.how = "reminder" /\ last'.after >= last'.wait
         \/ last'.how = "failed" /\ last'.after < 0
    BY <1>5, <2>1
  <2> QED
    BY <1>1, <1>2, <2>1, <2>2, <2>5, <2>8, <2>9, <2>10 DEF ReminderInv
<1> QED
  BY <1>3, <1>4, <1>5

LEMMA ReminderStep == ReminderInv /\ F!Next => ReminderInv'
<1> SUFFICES ASSUME ReminderInv, F!Next PROVE ReminderInv'
  OBVIOUS
<1>1. CASE F!SetAlarm
  BY <1>1, SetsReminder
<1>2. CASE F!ChkAlarm
  BY <1>2, ChecksReminder
<1>3. CASE \/ F!Read \/ F!LineDone \/ F!Other \/ F!BackGroundProcess \/ F!ForeGroundProcess
           \/ F!WaitForeground \/ F!ClkCmd \/ F!ClkEnds \/ F!Interrupt
           \/ \E p \in Pids : F!ChildExits(p)
  <2>1. now' = now /\ UNCHANGED <<timeVLD, timSt, waitFor, msg, set, printed, last>>
    BY <1>3 DEF F!Read, F!LineDone, F!Other, F!BackGroundProcess, F!ForeGroundProcess, F!Forks,
       F!WaitForeground, F!ClkCmd, F!ClkEnds, F!Interrupt, F!ChildExits, F!alarm
  <2>2. now' \in Int
    BY <2>1 DEF ReminderInv
  <2> QED
    BY <2>1, <2>2, ReminderKept
<1>4. CASE F!Time
  <2>1. now' \in Int /\ UNCHANGED <<timeVLD, timSt, waitFor, msg, set, printed, last>>
    BY <1>4, ReminderAssumption DEF F!Time, F!alarm
  <2> QED
    BY <2>1, ReminderKept
<1> QED
  BY <1>1, <1>2, <1>3, <1>4 DEF F!Next

LEMMA ReminderUnchanged == ReminderInv /\ UNCHANGED shell => ReminderInv'
<1> SUFFICES ASSUME ReminderInv, UNCHANGED shell PROVE ReminderInv'
  OBVIOUS
<1>1. now' = now /\ UNCHANGED <<timeVLD, timSt, waitFor, msg, set, printed, last>>
  BY DEF shell
<1>2. now' \in Int
  BY <1>1 DEF ReminderInv
<1> QED
  BY <1>1, <1>2, ReminderKept

LEMMA ReminderInitially == F!Init => ReminderInv
<1> SUFFICES ASSUME F!Init PROVE ReminderInv
  OBVIOUS
<1>1. /\ timeVLD = 0 /\ timSt = 0 /\ waitFor = 0 /\ msg = <<>> /\ set = <<>> /\ printed = <<>>
      /\ last = None /\ now \in Int
  BY ReminderAssumption DEF F!Init
<1> QED
  BY <1>1 DEF ReminderInv

LEMMA ReminderIsSound == ReminderInv => F!RemindedOnce
  BY DEF ReminderInv, F!RemindedOnce

-----------------------------------------------------------------------------
(* The reverser of files and its checker *)

LEMMA Least ==
    ASSUME NEW X \in SUBSET Nat, X # {}
    PROVE  \E j \in X : \A k \in X : j <= k
<1> DEFINE Less == OpToRel(<, Nat)
<1>1. IsWellFoundedOn(Less, Nat)
  BY NatLessThanWellFounded
<1>2. \A j, k \in Nat : j < k => <<j, k>> \in Less
  BY DEF OpToRel
<1> HIDE DEF Less
<1>3. PICK j \in X : \A k \in X : ~(<<k, j>> \in Less)
  BY <1>1, WFMin
<1>4. \A k \in X : ~(k < j)
  BY <1>2, <1>3
<1> QED
  BY <1>4

(* One call of swap, and what the calls from there to the middle make of s.*)
Swap(t, m, j) == [t EXCEPT ![j + 1] = t[(m - 1) - j + 1], ![(m - 1) - j + 1] = t[j + 1]]

Swapped(s, m, j) ==
    [k \in 1..m |-> IF j < k /\ k <= m - j THEN s[m + 1 - k] ELSE s[k]]

LEMMA SwapStep ==
    ASSUME NEW X, NEW s \in Seq(X), NEW m \in Nat, m = Len(s), NEW j \in 0..m
    PROVE  Swapped(s, m, j) = IF j > (m - 1) \div 2 THEN s ELSE Swap(Swapped(s, m, j + 1), m, j)
<1>1. CASE j > (m - 1) \div 2
  <2>1. m - j <= j
    BY <1>1
  <2>2. \A k \in 1..m : ~(j < k /\ k <= m - j)
    BY <2>1
  <2>3. Swapped(s, m, j) = [k \in 1..m |-> s[k]]
    BY <2>2 DEF Swapped
  <2>4. s = [k \in 1..m |-> s[k]]
    OBVIOUS
  <2> QED
    BY <1>1, <2>3, <2>4
<1>2. CASE ~(j > (m - 1) \div 2)
  <2>1. j + 1 <= m - j
    BY <1>2
  <2> DEFINE t == Swapped(s, m, j + 1)
             f == Swapped(s, m, j)
  <2>2. j + 1 \in 1..m /\ m - j \in 1..m /\ (m - 1) - j + 1 = m - j
    BY <2>1
  <2>3. Swap(t, m, j) = [t EXCEPT ![j + 1] = t[m - j], ![m - j] = t[j + 1]]
    BY <2>2 DEF Swap
  <2>4. \A k \in 1..m : t[k] = IF j + 1 < k /\ k <= m - (j + 1) THEN s[m + 1 - k] ELSE s[k]
    BY DEF Swapped
  <2>5. t[m - j] = s[m - j] /\ t[j + 1] = s[j + 1]
    BY <2>2, <2>4
  <2>6. DOMAIN t = 1..m /\ t = [k \in 1..m |-> t[k]]
    BY DEF Swapped
  <2> HIDE DEF t
  <2>7. Swap(t, m, j) = [k \in 1..m |-> IF k = m - j THEN s[j + 1] ELSE IF k = j + 1 THEN s[m - j] ELSE t[k]]
    BY <2>2, <2>3, <2>5, <2>6
  <2>8. ASSUME NEW k \in 1..m
        PROVE  (IF k = m - j THEN s[j + 1] ELSE IF k = j + 1 THEN s[m - j] ELSE t[k])
               = IF j < k /\ k <= m - j THEN s[m + 1 - k] ELSE s[k]
    <3>1. CASE k = m - j
      <4>1. m + 1 - k = j + 1 /\ j < k /\ k <= m - j
        BY <2>1, <3>1
      <4> QED
        BY <3>1, <4>1
    <3>2. CASE k # m - j /\ k = j + 1
      <4>1. m + 1 - k = m - j /\ j < k /\ k <= m - j
        BY <2>1, <3>2
      <4> QED
        BY <3>2, <4>1
    <3>3. CASE k # m - j /\ k # j + 1
      <4>1. (j < k /\ k <= m - j) <=> (j + 1 < k /\ k <= m - (j + 1))
        BY <3>3
      <4> QED
        BY <2>4, <3>3, <4>1
    <3> QED
      BY <3>1, <3>2, <3>3
  <2>9. Swap(t, m, j) = f
    BY <2>7, <2>8 DEF Swapped
  <2> QED
    BY <1>2, <2>9 DEF t
<1> QED
  BY <1>1, <1>2

(* So that the recursion of reverse ends with the whole buffer turned.     *)
LEMMA ReverseIs ==
    ASSUME NEW X, NEW s \in Seq(X)
    PROVE  V!Reverse(s) = [k \in 1..Len(s) |-> s[Len(s) + 1 - k]]
<1> DEFINE m == Len(s)
           Solves(f) == f = [j \in 0..m |-> IF j > (m - 1) \div 2 THEN s ELSE Swap(f[j + 1], m, j)]
           Whole == [j \in 0..m |-> Swapped(s, m, j)]
           swap == CHOOSE f : Solves(f)
<1>1. m \in Nat
  OBVIOUS
<1>2. V!Reverse(s) = swap[0]
  BY DEF V!Reverse, Swap
<1> HIDE DEF m
<1>3. Solves(Whole)
  <2>1. \A j \in 0..m : ~(j > (m - 1) \div 2) => j + 1 \in 0..m
    BY <1>1
  <2>2. \A j \in 0..m : Swapped(s, m, j) = IF j > (m - 1) \div 2 THEN s ELSE Swap(Swapped(s, m, j + 1), m, j)
    BY <1>1, SwapStep DEF m
  <2> QED
    BY <2>1, <2>2
<1>4. Solves(swap)
  BY <1>3
<1> HIDE DEF swap
<1> DEFINE Bad == {k \in 0..m : swap[m - k] # Swapped(s, m, m - k)}
<1>5. ASSUME NEW k \in Bad, \A j \in Bad : k <= j PROVE FALSE
  <2>1. k \in 0..m /\ m - k \in 0..m /\ swap[m - k] # Swapped(s, m, m - k)
    BY <1>1
  <2>2. swap[m - k] = IF m - k > (m - 1) \div 2 THEN s ELSE Swap(swap[m - k + 1], m, m - k)
    BY <1>4, <2>1
  <2>3. Swapped(s, m, m - k) = IF m - k > (m - 1) \div 2 THEN s ELSE Swap(Swapped(s, m, m - k + 1), m, m - k)
    BY <1>1, <2>1, SwapStep DEF m
  <2>4. CASE m - k > (m - 1) \div 2
    BY <2>1, <2>2, <2>3, <2>4
  <2>5. CASE ~(m - k > (m - 1) \div 2)
    <3>1. k - 1 \in 0..m /\ m - (k - 1) = m - k + 1 /\ k - 1 < k
      BY <1>1, <2>1, <2>5
    <3>2. k - 1 \notin Bad
      BY <1>5, <2>1, <3>1
    <3>3. swap[m - k + 1] = Swapped(s, m, m - k + 1)
      BY <3>1, <3>2
    <3> QED
      BY <2>1, <2>2, <2>3, <2>5, <3>3
  <2> QED
    BY <2>4, <2>5
<1>6. Bad \in SUBSET Nat
  BY <1>1
<1>7. Bad = {}
  BY <1>5, <1>6, Least
<1>8. m \in 0..m /\ m - m = 0
  BY <1>1
<1>9. swap[0] = Swapped(s, m, 0)
  BY <1>7, <1>8
<1>10. Swapped(s, m, 0) = [k \in 1..m |-> s[m + 1 - k]]
  BY <1>1 DEF Swapped
<1> QED
  BY <1>2, <1>9, <1>10 DEF m

(* What is written behind what was written makes one piece with it.        *)
LEMMA WrittenIs ==
    ASSUME NEW X, NEW f \in Seq(X), NEW s \in Seq(X), NEW j \in 0..Len(f)
    PROVE  /\ V!Written(f, j, s) \in Seq(X)
           /\ Len(V!Written(f, j, s)) = IF j + Len(s) > Len(f) THEN j + Len(s) ELSE Len(f)
           /\ \A k \in 1..Len(V!Written(f, j, s)) :
                 V!Written(f, j, s)[k] = IF j < k /\ k <= j + Len(s) THEN s[k - j] ELSE f[k]
<1> DEFINE l == IF j + Len(s) > Len(f) THEN j + Len(s) ELSE Len(f)
           g == V!Written(f, j, s)
<1>1. l \in Nat /\ l >= Len(f) /\ l >= j + Len(s)
  OBVIOUS
<1>2. g = [k \in 1..l |-> IF k \in (j + 1)..(j + Len(s)) THEN s[k - j] ELSE f[k]]
  BY DEF V!Written
<1>3. ASSUME NEW k \in 1..l PROVE (IF k \in (j + 1)..(j + Len(s)) THEN s[k - j] ELSE f[k]) \in X
  <2>1. CASE k \in (j + 1)..(j + Len(s))
    BY <2>1
  <2>2. CASE k \notin (j + 1)..(j + Len(s))
    <3>1. k \in 1..Len(f)
      BY <2>2
    <3> QED
      BY <2>2, <3>1
  <2> QED
    BY <2>1, <2>2
<1> HIDE DEF l
<1>4. g \in [1..l -> X]
  BY <1>2, <1>3
<1>5. g \in Seq(X) /\ Len(g) = l
  BY <1>1, <1>4
<1>6. \A k \in 1..l : g[k] = IF j < k /\ k <= j + Len(s) THEN s[k - j] ELSE f[k]
  BY <1>1, <1>2
<1> QED
  BY <1>5, <1>6 DEF l

LEMMA WrittenOn ==
    ASSUME NEW X, NEW f \in Seq(X), NEW s \in Seq(X), NEW t \in Seq(X)
    PROVE  V!Written(V!Written(f, 0, s), Len(s), t) = V!Written(f, 0, s \o t)
<1> DEFINE g == V!Written(f, 0, s)
           h == V!Written(g, Len(s), t)
           w == V!Written(f, 0, s \o t)
<1>1. /\ g \in Seq(X) /\ Len(g) = IF Len(s) > Len(f) THEN Len(s) ELSE Len(f)
      /\ \A k \in 1..Len(g) : g[k] = IF k <= Len(s) THEN s[k] ELSE f[k]
  <2>1. /\ g \in Seq(X) /\ Len(g) = IF 0 + Len(s) > Len(f) THEN 0 + Len(s) ELSE Len(f)
        /\ \A k \in 1..Len(g) : g[k] = IF 0 < k /\ k <= 0 + Len(s) THEN s[k - 0] ELSE f[k]
    <3>1. 0 \in 0..Len(f)
      OBVIOUS
    <3> HIDE DEF g
    <3> QED
      BY <3>1, WrittenIs DEF g
  <2> HIDE DEF g
  <2> QED
    BY <2>1
<1>2. /\ s \o t \in Seq(X) /\ Len(s \o t) = Len(s) + Len(t)
      /\ \A k \in 1..(Len(s) + Len(t)) : (s \o t)[k] = IF k <= Len(s) THEN s[k] ELSE t[k - Len(s)]
  BY ConcatProperties
<1>3. /\ w \in Seq(X) /\ Len(w) = IF Len(s) + Len(t) > Len(f) THEN Len(s) + Len(t) ELSE Len(f)
      /\ \A k \in 1..Len(w) : w[k] = IF k <= Len(s) + Len(t) THEN (s \o t)[k] ELSE f[k]
  <2>1. /\ w \in Seq(X) /\ Len(w) = IF 0 + Len(s \o t) > Len(f) THEN 0 + Len(s \o t) ELSE Len(f)
        /\ \A k \in 1..Len(w) : w[k] = IF 0 < k /\ k <= 0 + Len(s \o t) THEN (s \o t)[k - 0] ELSE f[k]
    <3>1. 0 \in 0..Len(f)
      OBVIOUS
    <3> HIDE DEF w
    <3> QED
      BY <1>2, <3>1, WrittenIs DEF w
  <2> HIDE DEF w
  <2> QED
    BY <1>2, <2>1
<1> HIDE DEF g, w
<1>4. /\ h \in Seq(X) /\ Len(h) = IF Len(s) + Len(t) > Len(g) THEN Len(s) + Len(t) ELSE Len(g)
      /\ \A k \in 1..Len(h) : h[k] = IF Len(s) < k /\ k <= Len(s) + Len(t) THEN t[k - Len(s)] ELSE g[k]
  <2>1. Len(s) \in 0..Len(g)
    BY <1>1
  <2> HIDE DEF h
  <2> QED
    BY <1>1, <2>1, WrittenIs, SMTT(30) DEF h
<1> HIDE DEF h
<1>5. PICK ls \in Nat, lt \in Nat, lf \in Nat : ls = Len(s) /\ lt = Len(t) /\ lf = Len(f)
  OBVIOUS
<1>6. Len(h) = Len(w) /\ Len(w) \in Nat
  BY <1>1, <1>3, <1>4, <1>5, SMTT(30)
<1>7. ASSUME NEW k \in 1..Len(w) PROVE h[k] = w[k]
  <2>1. CASE k <= ls
    <3>1. k \in 1..Len(g) /\ k \in 1..(ls + lt)
      BY <1>1, <1>5, <1>6, <2>1
    <3> QED
      BY <1>1, <1>2, <1>3, <1>4, <1>5, <1>6, <2>1, <3>1
  <2>2. CASE ls < k /\ k <= ls + lt
    <3>1. k \in 1..(ls + lt)
      BY <1>5, <1>6, <2>2
    <3> QED
      BY <1>2, <1>3, <1>4, <1>5, <1>6, <2>2, <3>1
  <2>3. CASE k > ls + lt
    <3>1. k \in 1..Len(g) /\ ~(k <= ls)
      BY <1>1, <1>3, <1>5, <1>6, <2>3
    <3> QED
      BY <1>1, <1>3, <1>4, <1>5, <1>6, <2>3, <3>1
  <2> QED
    BY <1>5, <1>6, <2>1, <2>2, <2>3
<1>8. h = w
  <2>1. h \in Seq(X) /\ w \in Seq(X)
    BY <1>3, <1>4
  <2>2. PICK m \in Nat : m = Len(h) /\ m = Len(w)
    BY <1>6
  <2>3. \A k \in 1..m : h[k] = w[k]
    BY <1>7, <2>2
  <2> QED
    BY <2>1, <2>2, <2>3, SeqEqual
<1> QED
  BY <1>8 DEF g, h, w

IsPiece(f, s, j, k, X) == f \in Seq(X) /\ Len(f) = k /\ \A v \in 1..k : f[v] = s[j + v]

LEMMA PieceIs ==
    ASSUME NEW X, NEW s \in Seq(X), NEW j \in Nat, NEW k \in Nat, j + k <= Len(s)
    PROVE  IsPiece(SubSeq(s, j + 1, j + k), s, j, k, X)
<1>1. PICK x \in Int, y \in Int : x = j + 1 /\ y = j + k
  OBVIOUS
<1>2. \A v \in x..y : s[v] \in X
  BY <1>1
<1>3. /\ SubSeq(s, x, y) \in Seq(X)
      /\ Len(SubSeq(s, x, y)) = IF x <= y THEN y - x + 1 ELSE 0
      /\ \A v \in 1..(y - x + 1) : SubSeq(s, x, y)[v] = s[x + v - 1]
  BY <1>2, SubSeqProperties
<1>4. PICK f : f = SubSeq(s, x, y)
  OBVIOUS
<1>5. f \in Seq(X) /\ Len(f) = k /\ \A v \in 1..k : f[v] = s[j + v]
  BY <1>1, <1>3, <1>4
<1>6. IsPiece(f, s, j, k, X)
  BY <1>5 DEF IsPiece
<1> QED
  BY <1>1, <1>4, <1>6, Zenon

LEMMA BeginningIs ==
    ASSUME NEW X, NEW s \in Seq(X), NEW j \in Nat, j <= Len(s)
    PROVE  /\ SubSeq(s, 1, j) \in Seq(X) /\ Len(SubSeq(s, 1, j)) = j
           /\ \A v \in 1..j : SubSeq(s, 1, j)[v] = s[v]
<1>1. PICK z \in Nat : z = 0 /\ z + j <= Len(s) /\ z + 1 = 1 /\ z + j = j
  OBVIOUS
<1>2. IsPiece(SubSeq(s, z + 1, z + j), s, z, j, X)
  BY <1>1, PieceIs, Zenon
<1>3. IsPiece(SubSeq(s, 1, j), s, z, j, X)
  BY <1>1, <1>2
<1> QED
  BY <1>1, <1>3 DEF IsPiece

LEMMA PiecesJoin ==
    ASSUME NEW X, NEW s \in Seq(X), NEW j \in Nat, NEW k \in Nat, j + k <= Len(s)
    PROVE  SubSeq(s, 1, j) \o SubSeq(s, j + 1, j + k) = SubSeq(s, 1, j + k)
<1> DEFINE f == SubSeq(s, 1, j)
           g == SubSeq(s, j + 1, j + k)
           h == SubSeq(s, 1, j + k)
<1>1. f \in Seq(X) /\ Len(f) = j /\ \A v \in 1..j : f[v] = s[v]
  <2>1. j <= Len(s)
    OBVIOUS
  <2> QED
    BY <2>1, BeginningIs
<1>2. g \in Seq(X) /\ Len(g) = k /\ \A v \in 1..k : g[v] = s[j + v]
  BY PieceIs, Zenon DEF IsPiece
<1>3. h \in Seq(X) /\ Len(h) = j + k /\ \A v \in 1..(j + k) : h[v] = s[v]
  <2>1. PICK x \in Nat : x = j + k
    OBVIOUS
  <2>2. SubSeq(s, 1, x) \in Seq(X) /\ Len(SubSeq(s, 1, x)) = x /\ \A v \in 1..x : SubSeq(s, 1, x)[v] = s[v]
    BY <2>1, BeginningIs
  <2> QED
    BY <2>1, <2>2
<1> HIDE DEF f, g, h
<1>4. /\ f \o g \in Seq(X) /\ Len(f \o g) = j + k
      /\ \A v \in 1..(j + k) : (f \o g)[v] = IF v <= j THEN f[v] ELSE g[v - j]
  BY <1>1, <1>2, ConcatProperties, ZenonT(60)
<1>5. ASSUME NEW v \in 1..(j + k) PROVE (f \o g)[v] = h[v]
  <2>1. CASE v <= j
    <3>1. v \in 1..j
      BY <2>1
    <3> QED
      BY <1>1, <1>3, <1>4, <2>1, <3>1
  <2>2. CASE ~(v <= j)
    <3>1. PICK x \in 1..k : x = v - j /\ j + x = v
      BY <2>2
    <3>2. g[x] = s[v]
      BY <1>2, <3>1
    <3> QED
      BY <1>3, <1>4, <2>2, <3>1, <3>2
  <2> QED
    BY <2>1, <2>2
<1>6. f \o g = h
  BY <1>3, <1>4, <1>5, SMTT(30)
<1> QED
  BY <1>6 DEF f, g, h

Chars == (UNION {{f[k] : k \in DOMAIN f} : f \in Files}) \cup {Small, Capital}

LEMMA FilesAre == Files \subseteq Seq(Chars) /\ <<>> \in Seq(Chars)
<1>1. ASSUME NEW f \in Files PROVE f \in Seq(Chars)
  <2>1. f \in Seq({f[k] : k \in DOMAIN f})
    BY ReverserAssumption
  <2>2. PICK X : X = {f[k] : k \in DOMAIN f} /\ f \in Seq(X)
    BY <2>1
  <2>3. X \subseteq Chars
    BY <2>2 DEF Chars
  <2> HIDE DEF Chars
  <2> QED
    BY <2>2, <2>3
<1>2. <<>> \in Seq(Chars)
  OBVIOUS
<1> QED
  BY <1>1, <1>2

LEMMA InvCharIs ==
    /\ \A x \in Chars : V!InvChar(x) \in Chars
    /\ \A x : V!InvChar(V!InvChar(x)) = x
<1>1. Small \in Chars /\ Capital \in Chars
  BY DEF Chars
<1>2. \A x \in Chars : V!InvChar(x) \in Chars
  BY <1>1 DEF V!InvChar
<1>3. ASSUME NEW x PROVE V!InvChar(V!InvChar(x)) = x
  BY DEF V!InvChar
<1> QED
  BY <1>2, <1>3

(* The whole file backwards, and what an older file leaves below it.       *)
Older == IF old = None THEN <<>> ELSE old

Again == IF V!N % B = 0 THEN SubSeq(V!Reversed, V!N - B + 1, V!N) ELSE <<>>

(* While task1.c runs, the end of the file is written backwards already;   *)
(* then all of it, and the checker agrees with what it has compared.       *)
LoopFits ==
    /\ bufrSize = B /\ rpos = 0
    /\ rev = V!Written(Older, 0, SubSeq(V!Reversed, 1, wpos))
    /\ \/ b = 0 /\ pos = V!N /\ wpos = 0
       \/ b = B /\ pos \in B..V!N /\ wpos = V!N - pos + B /\ wpos % B = 0

CheckFits ==
    /\ rev \in Seq(Chars) /\ rpos \in Nat
    /\ wpos > 0 /\ V!N > 0 => rev = V!Written(Older, 0, V!Reversed \o Again)
    /\ \A k \in 1..rpos : k <= Len(rev) => rev[k] = V!Reversed[k]
    /\ rvpc = "yes" => rpos >= V!N - 1
    /\ rvpc = "no" => wpos = 0 /\ \E k \in 1..(V!N - 1) : k > Len(rev) \/ rev[k] # V!Reversed[k]

ReverserInv ==
    /\ test \in Files /\ old \in Files \cup {None} /\ B \in Nat \ {0} /\ wpos \in Nat
    /\ rvpc \in {"open", "loop", "check", "yes", "no"}
    /\ rvpc = "open" => rev = old /\ bufrSize = B /\ b = 0 /\ wpos = 0 /\ rpos = 0
    /\ rvpc = "loop" => LoopFits
    /\ rvpc \in {"check", "yes", "no"} => CheckFits

LEMMA ReverserTypes ==
    ASSUME test \in Files, old \in Files \cup {None}, B \in Nat \ {0}
    PROVE  /\ test \in Seq(Chars) /\ V!N \in Nat /\ V!N = Len(test)
           /\ V!Reversed \in Seq(Chars) /\ Len(V!Reversed) = V!N
           /\ \A k \in 1..V!N : V!Reversed[k] = V!InvChar(test[V!N + 1 - k])
           /\ Older \in Seq(Chars) /\ (V!N > 0 => Again \in Seq(Chars))
<1>1. test \in Seq(Chars) /\ V!N \in Nat /\ V!N = Len(test)
  BY FilesAre DEF V!N
<1>2. \A k \in 1..V!N : V!InvChar(test[V!N + 1 - k]) \in Chars
  BY <1>1, InvCharIs
<1>3. V!Reversed = [k \in 1..V!N |-> V!InvChar(test[V!N + 1 - k])]
  BY DEF V!Reversed
<1>4. PICK m \in Nat : m = V!N
  BY <1>1
<1>5. V!Reversed \in [1..m -> Chars]
  BY <1>2, <1>3, <1>4
<1>6. V!Reversed \in Seq(Chars) /\ Len(V!Reversed) = m
  BY <1>5
<1>7. Older \in Seq(Chars)
  BY FilesAre DEF Older
<1>8. ASSUME V!N > 0 PROVE Again \in Seq(Chars)
  <2>1. CASE m % B = 0
    <3>1. m - B >= 0
      BY <1>4, <1>8, <2>1
    <3>2. PICK j \in Nat, k \in Nat : j = m - B /\ k = B /\ j + k = m
      BY <1>4, <3>1
    <3>3. SubSeq(V!Reversed, j + 1, j + k) \in Seq(Chars)
      BY <1>6, <3>2, PieceIs DEF IsPiece
    <3> QED
      BY <1>4, <2>1, <3>2, <3>3 DEF Again
  <2>2. CASE m % B # 0
    BY <1>4, <2>2, FilesAre DEF Again
  <2> QED
    BY <2>1, <2>2
<1> QED
  BY <1>1, <1>3, <1>4, <1>6, <1>7, <1>8

(* What task1.c makes of the piece of the file that it reads.              *)
LEMMA PieceTurned ==
    ASSUME test \in Files, old \in Files \cup {None}, B \in Nat \ {0},
           NEW j \in Nat, NEW k \in Nat, j + k <= V!N
    PROVE  /\ V!Reverse(V!Inverted(SubSeq(test, (V!N - j - k) + 1, (V!N - j - k) + k)))
              = SubSeq(V!Reversed, j + 1, j + k)
           /\ Len(SubSeq(test, (V!N - j - k) + 1, (V!N - j - k) + k)) = k
<1>1. PICK m \in Nat, x \in Nat : m = V!N /\ x = V!N - j - k /\ x + k <= m /\ j + k <= m /\ x = m - j - k
  BY ReverserTypes
<1>2. PICK s \in Seq(Chars) : s = SubSeq(test, x + 1, x + k) /\ Len(s) = k /\ \A v \in 1..k : s[v] = test[x + v]
  <2>1. test \in Seq(Chars) /\ x + k <= Len(test)
    BY <1>1, ReverserTypes
  <2>2. IsPiece(SubSeq(test, x + 1, x + k), test, x, k, Chars)
    BY <1>1, <2>1, PieceIs, Zenon
  <2> QED
    BY <2>2 DEF IsPiece
<1>3. PICK t \in Seq(Chars) : t = V!Inverted(s) /\ Len(t) = k /\ \A v \in 1..k : t[v] = V!InvChar(s[v])
  <2>1. V!Inverted(s) = [v \in 1..k |-> V!InvChar(s[v])]
    BY <1>2 DEF V!Inverted
  <2>2. \A v \in 1..k : V!InvChar(s[v]) \in Chars
    BY <1>2, InvCharIs
  <2>3. V!Inverted(s) \in [1..k -> Chars]
    BY <2>1, <2>2
  <2>4. V!Inverted(s) \in Seq(Chars) /\ Len(V!Inverted(s)) = k
    BY <2>3
  <2> QED
    BY <2>1, <2>4
<1>4. V!Reverse(t) = [v \in 1..Len(t) |-> t[Len(t) + 1 - v]]
  BY <1>3, ReverseIs
<1>5. PICK g \in Seq(Chars) : /\ g = SubSeq(V!Reversed, j + 1, j + k) /\ Len(g) = k
                              /\ \A v \in 1..k : g[v] = V!Reversed[j + v]
  <2>1. V!Reversed \in Seq(Chars) /\ j + k <= Len(V!Reversed)
    BY <1>1, ReverserTypes
  <2>2. IsPiece(SubSeq(V!Reversed, j + 1, j + k), V!Reversed, j, k, Chars)
    BY <1>1, <2>1, PieceIs, Zenon
  <2> QED
    BY <2>2 DEF IsPiece
<1>6. ASSUME NEW v \in 1..k PROVE t[k + 1 - v] = g[v]
  <2>1. PICK w \in 1..k, y \in 1..m : w = k + 1 - v /\ y = j + v /\ x + w = m + 1 - y
    BY <1>1
  <2>2. t[w] = V!InvChar(test[x + w])
    BY <1>2, <1>3, <2>1
  <2>3. V!Reversed[y] = V!InvChar(test[m + 1 - y])
    BY <1>1, <2>1, ReverserTypes
  <2> QED
    BY <1>5, <2>1, <2>2, <2>3
<1>7. V!Reverse(t) = g
  <2>1. g = [v \in 1..k |-> g[v]]
    <3>1. g \in Seq(Chars) /\ Len(g) = k
      BY <1>5
    <3> QED
      BY <3>1
  <2>2. V!Reverse(t) = [v \in 1..k |-> t[k + 1 - v]]
    BY <1>3, <1>4
  <2> QED
    BY <1>6, <2>1, <2>2, Zenon
<1> QED
  BY <1>1, <1>2, <1>3, <1>5, <1>7

(* A buffer appends the next piece of the file.                            *)
LEMMA PutAppends ==
    ASSUME test \in Files, old \in Files \cup {None}, B \in Nat \ {0},
           rev = V!Written(Older, 0, SubSeq(V!Reversed, 1, wpos)),
           wpos \in Nat, NEW k \in Nat, wpos + k <= V!N,
           V!Put(SubSeq(test, (V!N - wpos - k) + 1, (V!N - wpos - k) + k))
    PROVE  wpos' = wpos + k /\ rev' = V!Written(Older, 0, SubSeq(V!Reversed, 1, wpos + k))
<1> DEFINE R == V!Reversed
<1>1. PICK s : /\ s = SubSeq(test, (V!N - wpos - k) + 1, (V!N - wpos - k) + k) /\ Len(s) = k
               /\ V!Reverse(V!Inverted(s)) = SubSeq(R, wpos + 1, wpos + k)
  BY PieceTurned
<1>2. wpos' = wpos + k /\ rev' = V!Written(rev, wpos, SubSeq(R, wpos + 1, wpos + k))
  BY <1>1 DEF V!Put
<1>3. R \in Seq(Chars) /\ Len(R) = V!N /\ Older \in Seq(Chars)
  BY ReverserTypes
<1> HIDE DEF R
<1>4. PICK f \in Seq(Chars) : f = SubSeq(R, 1, wpos) /\ Len(f) = wpos
  <2>1. wpos <= Len(R)
    BY <1>3, ReverserTypes
  <2> QED
    BY <1>3, <2>1, BeginningIs
<1>5. PICK g \in Seq(Chars) : g = SubSeq(R, wpos + 1, wpos + k)
  <2>1. SubSeq(R, wpos + 1, wpos + k) \in Seq(Chars)
    <3>1. wpos + k <= Len(R)
      BY <1>3
    <3> QED
      BY <1>3, <3>1, PieceIs, Zenon DEF IsPiece
  <2> QED
    BY <2>1
<1>6. f \o g = SubSeq(R, 1, wpos + k)
  BY <1>3, <1>4, <1>5, PiecesJoin
<1>7. V!Written(V!Written(Older, 0, f), Len(f), g) = V!Written(Older, 0, f \o g)
  BY <1>3, WrittenOn
<1> QED
  BY <1>2, <1>4, <1>5, <1>6, <1>7 DEF R

LEMMA TurnedIs ==
    ASSUME NEW s \in Seq(Chars)
    PROVE  V!Reverse(V!Inverted(s)) \in Seq(Chars) /\ Len(V!Reverse(V!Inverted(s))) = Len(s)
<1>1. PICK m \in Nat : m = Len(s)
  OBVIOUS
<1>2. V!Inverted(s) = [k \in 1..m |-> V!InvChar(s[k])]
  BY <1>1 DEF V!Inverted
<1>3. \A k \in 1..m : V!InvChar(s[k]) \in Chars
  BY <1>1, InvCharIs
<1>4. V!Inverted(s) \in [1..m -> Chars]
  BY <1>2, <1>3
<1>5. PICK t \in Seq(Chars) : t = V!Inverted(s) /\ Len(t) = m
  BY <1>4
<1>6. V!Reverse(t) = [k \in 1..Len(t) |-> t[Len(t) + 1 - k]]
  BY ReverseIs
<1>7. \A k \in 1..m : t[m + 1 - k] \in Chars
  BY <1>5
<1>8. V!Reverse(t) \in [1..m -> Chars]
  BY <1>5, <1>6, <1>7
<1>9. V!Reverse(t) \in Seq(Chars) /\ Len(V!Reverse(t)) = m
  BY <1>8
<1> QED
  BY <1>1, <1>5, <1>9

LEMMA ReverserInitially == V!Init => ReverserInv
<1> SUFFICES ASSUME V!Init PROVE ReverserInv
  OBVIOUS
<1>1. /\ test \in Files /\ old \in Files \cup {None} /\ rev = old /\ B \in BufSizes /\ bufrSize = B
      /\ rvpc = "open" /\ b = 0 /\ wpos = 0 /\ rpos = 0
  BY DEF V!Init
<1>2. B \in Nat \ {0}
  BY <1>1, ReverserAssumption
<1> QED
  BY <1>1, <1>2 DEF ReverserInv

(* The operators of the invariant depend on what was given alone.          *)
LEMMA Given ==
    ASSUME UNCHANGED <<test, old, B>>
    PROVE  V!N' = V!N /\ V!Reversed' = V!Reversed /\ Older' = Older /\ Again' = Again
<1>1. test' = test /\ old' = old /\ B' = B
  OBVIOUS
<1>2. V!N' = V!N
  BY <1>1 DEF V!N
<1>3. V!Reversed' = V!Reversed
  BY <1>1, <1>2 DEF V!Reversed
<1> QED
  BY <1>1, <1>2, <1>3 DEF Older, Again

LEMMA OpenKeeps ==
    ASSUME ReverserInv, V!Open
    PROVE  ReverserInv'
<1>1. /\ rvpc = "open" /\ test' = test /\ old' = old /\ B' = B /\ b' = b /\ wpos' = wpos /\ rpos' = rpos
      /\ bufrSize' = bufrSize
      /\ test \in Files /\ old \in Files \cup {None} /\ B \in Nat \ {0}
      /\ rev = old /\ bufrSize = B /\ b = 0 /\ wpos = 0 /\ rpos = 0
  BY DEF ReverserInv, V!Open
<1>2. V!N' = V!N /\ V!Reversed' = V!Reversed /\ Older' = Older /\ Again' = Again
  BY <1>1, Given
<1>3. CASE rev' = Older /\ pos' = V!N /\ rvpc' = "loop"
  <2>1. Older \in Seq(Chars) /\ V!Reversed \in Seq(Chars)
    BY <1>1, ReverserTypes
  <2>2. V!Written(Older, 0, SubSeq(V!Reversed, 1, 0)) = Older
    <3>1. PICK s \in Seq(Chars) : s = SubSeq(V!Reversed, 1, 0) /\ Len(s) = 0
      <4>1. SubSeq(V!Reversed, 1, 0) = <<>>
        BY SubSeqEmpty
      <4> QED
        BY <4>1, FilesAre
    <3>2. PICK f \in Seq(Chars) : f = Older
      BY <2>1
    <3>3. 0 \in 0..Len(f)
      BY <3>2
    <3>4. PICK z : z = 0
      OBVIOUS
    <3>5. /\ V!Written(f, z, s) \in Seq(Chars)
          /\ Len(V!Written(f, z, s)) = IF z + Len(s) > Len(f) THEN z + Len(s) ELSE Len(f)
          /\ \A k \in 1..Len(V!Written(f, z, s)) :
                V!Written(f, z, s)[k] = IF z < k /\ k <= z + Len(s) THEN s[k - z] ELSE f[k]
      BY <3>3, <3>4, WrittenIs
    <3>6. PICK g \in Seq(Chars) : g = V!Written(f, z, s) /\ Len(g) = Len(f) /\ \A k \in 1..Len(g) : g[k] = f[k]
      BY <3>1, <3>4, <3>5
    <3>7. g = f
      BY <3>6
    <3> QED
      BY <3>1, <3>2, <3>4, <3>6, <3>7
  <2>3. LoopFits'
    BY <1>1, <1>2, <1>3, <2>2 DEF LoopFits
  <2> QED
    BY <1>1, <1>3, <2>3 DEF ReverserInv
<1>4. CASE old # None /\ rvpc' = "check" /\ rev' = rev
  <2>1. rev \in Seq(Chars)
    BY <1>1, <1>4, FilesAre
  <2>2. CheckFits'
    BY <1>1, <1>4, <2>1 DEF CheckFits
  <2> QED
    BY <1>1, <1>4, <2>2 DEF ReverserInv
<1> QED
  BY <1>1, <1>3, <1>4 DEF V!Open, Older

LEMMA Multiple ==
    ASSUME NEW y \in Nat \ {0}, NEW x \in Nat, x % y = 0
    PROVE  /\ (x + y) % y = 0
           /\ \A j \in 0..(y - 1) : (x + j) % y = j
<1>1. \A w \in Nat : \A j \in 0..(y - 1) : (y * w + j) % y = j
  OBVIOUS
<1>2. PICK w \in Nat : x = y * w
  <2>1. x \div y \in Nat /\ x = y * (x \div y) + (x % y)
    OBVIOUS
  <2> QED
    BY <2>1
<1>3. x + y = y * (w + 1) + 0
  BY <1>2
<1> QED
  BY <1>1, <1>2, <1>3

LEMMA WholeBufferKeeps ==
    ASSUME ReverserInv, V!WholeBuffer
    PROVE  ReverserInv'
<1>1. /\ rvpc = "loop" /\ test' = test /\ old' = old /\ B' = B /\ rpos' = rpos /\ bufrSize' = bufrSize
      /\ rvpc' = rvpc /\ b' = bufrSize
      /\ test \in Files /\ old \in Files \cup {None} /\ B \in Nat \ {0} /\ wpos \in Nat /\ LoopFits
  BY DEF ReverserInv, V!WholeBuffer
<1>2. V!N' = V!N /\ V!Reversed' = V!Reversed /\ Older' = Older /\ Again' = Again /\ V!N \in Nat
  BY <1>1, Given, ReverserTypes
<1>3. /\ bufrSize = B /\ rpos = 0 /\ rev = V!Written(Older, 0, SubSeq(V!Reversed, 1, wpos))
      /\ (b = 0 /\ pos = V!N /\ wpos = 0) \/ (b = B /\ pos \in B..V!N /\ wpos = V!N - pos + B /\ wpos % B = 0)
  BY <1>1 DEF LoopFits
<1>4. PICK x \in Nat : /\ x = pos - (B + b) /\ x = V!N - wpos - B /\ wpos + B <= V!N
                       /\ V!Put(SubSeq(test, x + 1, x + B)) /\ pos' = x + B
  <2>1. pos - (B + b) >= 0
    BY <1>3 DEF V!WholeBuffer
  <2>2. pos - (B + b) = V!N - wpos - B /\ pos - (B + b) \in Nat /\ wpos + B <= V!N
    <3>1. PICK m \in Nat, y \in Nat \ {0}, w \in Nat : m = V!N /\ y = B /\ w = wpos
      BY <1>1, <1>2
    <3>2. CASE b = 0 /\ pos = V!N /\ wpos = 0
      BY <2>1, <3>1, <3>2
    <3>3. CASE b = B /\ pos \in B..V!N /\ wpos = V!N - pos + B
      <4>1. PICK x \in Int : x = pos
        BY <3>1, <3>3
      <4> QED
        BY <2>1, <3>1, <3>3, <4>1
    <3> QED
      BY <1>3, <3>2, <3>3
  <2> QED
    BY <1>3, <2>2 DEF V!WholeBuffer
<1>5. wpos' = wpos + B /\ rev' = V!Written(Older, 0, SubSeq(V!Reversed, 1, wpos + B))
  BY <1>1, <1>3, <1>4, PutAppends
<1>6. pos' \in B..V!N /\ wpos' = V!N - pos' + B
  BY <1>1, <1>2, <1>4, <1>5
<1>7. wpos' % B = 0
  <2>1. wpos % B = 0
    BY <1>1, <1>3
  <2>2. PICK w \in Nat, y \in Nat \ {0} : w = wpos /\ y = B /\ w % y = 0
    BY <1>1, <2>1
  <2>3. (w + y) % y = 0
    BY <2>2, Multiple
  <2> QED
    BY <1>5, <2>2, <2>3
<1>8. LoopFits'
  BY <1>1, <1>2, <1>3, <1>5, <1>6, <1>7 DEF LoopFits
<1>9. wpos' \in Nat
  BY <1>1, <1>5
<1> QED
  BY <1>1, <1>8, <1>9 DEF ReverserInv

(* How far the last buffer goes back, and how long it is.                  *)
LEMMA StepsBack ==
    ASSUME NEW r \in Nat, V!Back = r, bufrSize \in Nat \ {0}, r < bufrSize
    PROVE  /\ r = 0 => V!Steps = {}
           /\ r # 0 => V!Steps # {} /\ (CHOOSE k \in V!Steps : \A j \in V!Steps : j <= k) = r
<1>1. \A k : k \in V!Steps <=> k \in 1..(bufrSize - 1) /\ r - k >= 0
  BY DEF V!Steps
<1>2. \A k : k \in V!Steps <=> k \in 1..r
  BY <1>1
<1>3. V!Steps = 1..r
  BY <1>2
<1>4. ASSUME r # 0 PROVE (CHOOSE k \in 1..r : \A j \in 1..r : j <= k) = r
  <2>1. r \in 1..r /\ \A j \in 1..r : j <= r
    BY <1>4
  <2>2. \A k \in 1..r : (\A j \in 1..r : j <= k) => k = r
    BY <2>1
  <2> QED
    BY <2>1, <2>2
<1> QED
  BY <1>3, <1>4

LEMMA LastBufferPuts ==
    ASSUME ReverserInv, V!LastBuffer
    PROVE  \/ /\ V!N = 0 /\ wpos' = wpos + B
              /\ \E s \in Seq(Chars) : rev' = V!Written(rev, wpos, s)
           \/ /\ wpos < V!N /\ V!N % B # 0 /\ V!Put(SubSeq(test, 1, V!N - wpos))
           \/ /\ V!N > 0 /\ wpos = V!N /\ V!N % B = 0 /\ B <= V!N /\ V!Put(SubSeq(test, 1, B))
<1>1. /\ rvpc = "loop" /\ test \in Files /\ old \in Files \cup {None} /\ B \in Nat \ {0} /\ wpos \in Nat
      /\ bufrSize = B /\ pos - (B + b) < 0
      /\ (b = 0 /\ pos = V!N /\ wpos = 0) \/ (b = B /\ pos \in B..V!N /\ wpos = V!N - pos + B /\ wpos % B = 0)
  BY DEF ReverserInv, V!LastBuffer, LoopFits
<1>2. PICK m \in Nat, y \in Nat \ {0}, w \in Nat, x \in Int : m = V!N /\ y = B /\ w = wpos /\ x = pos
  <2>1. V!N \in Nat
    BY <1>1, ReverserTypes
  <2>2. pos \in Int
    BY <1>1, <2>1
  <2> QED
    BY <1>1, <2>1, <2>2
<1>3. PICK r \in Nat : r = m - w /\ r < y /\ V!Back = r /\ w % y = 0 /\ (r = 0 /\ m > 0 => y <= m)
  <2>1. CASE b = 0 /\ pos = V!N /\ wpos = 0
    <3>1. x = m /\ w = 0 /\ m < y
      BY <1>1, <1>2, <2>1
    <3>2. V!Back = m
      BY <1>1, <1>2, <3>1 DEF V!Back
    <3>3. w % y = 0
      BY <3>1
    <3> QED
      BY <3>1, <3>2, <3>3
  <2>2. CASE b = B /\ pos \in B..V!N /\ wpos = V!N - pos + B /\ wpos % B = 0
    <3>1. x >= y /\ x <= m /\ w = m - x + y /\ x < y + y /\ w % y = 0
      BY <1>1, <1>2, <2>2
    <3>2. V!Back = x - y
      BY <1>1, <1>2, <3>1 DEF V!Back
    <3> QED
      BY <3>1, <3>2
  <2> QED
    BY <1>1, <2>1, <2>2
<1> DEFINE j == IF V!Steps = {} THEN 0 ELSE CHOOSE k \in V!Steps : \A v \in V!Steps : v <= k
<1>4. j = r
  BY <1>1, <1>2, <1>3, StepsBack
<1> HIDE DEF j
<1>5. \E junk \in {Small, Capital} :
         V!Put(IF V!N = 0 THEN [k \in 1..(IF j = 0 THEN bufrSize ELSE j) |-> junk]
               ELSE SubSeq(test, (V!Back - j) + 1, (V!Back - j) + (IF j = 0 THEN bufrSize ELSE j)))
  BY DEF V!LastBuffer, j
<1>6. V!Back - j = 0
  BY <1>3, <1>4
<1>7. CASE m = 0
  <2>1. r = 0
    BY <1>3, <1>7
  <2>2. PICK junk \in {Small, Capital} : V!Put([k \in 1..y |-> junk])
    BY <1>1, <1>2, <1>4, <1>5, <1>7, <2>1
  <2> DEFINE s == [k \in 1..y |-> junk]
  <2>3. s \in Seq(Chars) /\ Len(s) = y
    <3>1. junk \in Chars
      BY DEF Chars
    <3>2. s \in [1..y -> Chars]
      BY <3>1
    <3> QED
      BY <3>2
  <2> HIDE DEF s
  <2>4. wpos' = wpos + y /\ rev' = V!Written(rev, wpos, V!Reverse(V!Inverted(s)))
    BY <2>2, <2>3 DEF V!Put, s
  <2>5. V!Reverse(V!Inverted(s)) \in Seq(Chars)
    BY <2>3, TurnedIs
  <2> QED
    BY <1>2, <1>7, <2>4, <2>5
<1>8. CASE m > 0 /\ r > 0
  <2>1. V!Put(SubSeq(test, 1, r))
    <3>1. V!Put(SubSeq(test, (V!Back - j) + 1, (V!Back - j) + r))
      BY <1>2, <1>4, <1>5, <1>8
    <3>2. (V!Back - j) + 1 = 1 /\ (V!Back - j) + r = r
      BY <1>3, <1>6
    <3> QED
      BY <3>1, <3>2
  <2>2. m % y = r
    <3>1. r \in 0..(y - 1) /\ m = w + r
      BY <1>3
    <3>2. (w + r) % y = r
      BY <1>3, <3>1, Multiple, Zenon
    <3> QED
      BY <3>1, <3>2
  <2> QED
    BY <1>2, <1>3, <1>8, <2>1, <2>2
<1>9. CASE m > 0 /\ r = 0
  <2>1. V!Put(SubSeq(test, 1, B))
    <3>1. V!Put(SubSeq(test, (V!Back - j) + 1, (V!Back - j) + B))
      BY <1>1, <1>2, <1>4, <1>5, <1>9
    <3>2. (V!Back - j) + 1 = 1 /\ (V!Back - j) + B = B
      BY <1>1, <1>6
    <3> QED
      BY <3>1, <3>2
  <2>2. w = m
    BY <1>3, <1>9
  <2> QED
    BY <1>2, <1>3, <1>9, <2>1, <2>2
<1> QED
  BY <1>3, <1>7, <1>8, <1>9

(* All that task1.c leaves behind.                                         *)
LEMMA LastBufferKeeps ==
    ASSUME ReverserInv, V!LastBuffer
    PROVE  ReverserInv'
<1>1. /\ rvpc = "loop" /\ test' = test /\ old' = old /\ B' = B /\ rpos' = rpos /\ rvpc' = "check"
      /\ test \in Files /\ old \in Files \cup {None} /\ B \in Nat \ {0} /\ wpos \in Nat
      /\ rpos = 0 /\ rev = V!Written(Older, 0, SubSeq(V!Reversed, 1, wpos)) /\ wpos <= V!N
  <2>1. LoopFits /\ B \in Nat \ {0}
    BY DEF ReverserInv, V!LastBuffer
  <2>2. V!N \in Nat
    BY ReverserTypes DEF ReverserInv
  <2>3. wpos <= V!N
    BY <2>1, <2>2 DEF LoopFits
  <2> QED
    BY <2>1, <2>3 DEF ReverserInv, V!LastBuffer, LoopFits
<1>2. V!N' = V!N /\ V!Reversed' = V!Reversed /\ Older' = Older /\ Again' = Again /\ V!N \in Nat
  BY <1>1, Given, ReverserTypes
<1> DEFINE R == V!Reversed
<1>3. R \in Seq(Chars) /\ Len(R) = V!N /\ Older \in Seq(Chars) /\ (V!N > 0 => Again \in Seq(Chars))
  BY <1>1, ReverserTypes
<1>4. \A j \in 0..V!N : SubSeq(R, 1, j) \in Seq(Chars) /\ Len(SubSeq(R, 1, j)) = j
  BY <1>2, <1>3, BeginningIs
<1>5. SubSeq(R, 1, V!N) = R
  <2>1. PICK m \in Nat : m = V!N
    BY <1>2
  <2>2. /\ SubSeq(R, 1, m) \in Seq(Chars) /\ Len(SubSeq(R, 1, m)) = m
        /\ \A v \in 1..m : SubSeq(R, 1, m)[v] = R[v]
    BY <1>3, <2>1, BeginningIs
  <2>3. PICK f \in Seq(Chars), g \in Seq(Chars) : f = SubSeq(R, 1, m) /\ g = R
    BY <1>3, <2>2
  <2>4. Len(f) = Len(g) /\ \A v \in 1..Len(f) : f[v] = g[v]
    BY <1>3, <2>1, <2>2, <2>3
  <2>5. f = g
    BY <2>4
  <2> QED
    BY <2>1, <2>3, <2>5
<1>6. rev \in Seq(Chars) /\ wpos \in 0..Len(rev)
  <2>1. PICK f \in Seq(Chars) : f = SubSeq(R, 1, wpos) /\ Len(f) = wpos
    <3>1. wpos \in 0..V!N
      BY <1>1, <1>2
    <3>2. SubSeq(R, 1, wpos) \in Seq(Chars) /\ Len(SubSeq(R, 1, wpos)) = wpos
      BY <1>4, <3>1
    <3> QED
      BY <3>2
  <2>2. PICK z : z = 0 /\ z \in 0..Len(Older)
    BY <1>3
  <2>3. /\ V!Written(Older, z, f) \in Seq(Chars)
        /\ Len(V!Written(Older, z, f)) = IF z + Len(f) > Len(Older) THEN z + Len(f) ELSE Len(Older)
    BY <1>3, <2>2, WrittenIs
  <2>4. rev = V!Written(Older, z, f)
    BY <1>1, <2>1, <2>2
  <2> QED
    BY <1>1, <1>3, <2>1, <2>2, <2>3, <2>4
<1>7. CASE V!N = 0 /\ wpos' = wpos + B /\ \E s \in Seq(Chars) : rev' = V!Written(rev, wpos, s)
  <2>1. rev' \in Seq(Chars)
    BY <1>6, <1>7, WrittenIs
  <2>2. CheckFits'
    BY <1>1, <1>2, <1>7, <2>1 DEF CheckFits
  <2>3. wpos' \in Nat
    BY <1>1, <1>7
  <2> QED
    BY <1>1, <2>2, <2>3 DEF ReverserInv
<1>8. ASSUME V!N > 0, wpos' \in Nat, rev' = V!Written(Older, 0, R \o Again) PROVE ReverserInv'
  <2>1. rev' \in Seq(Chars)
    <3>1. R \o Again \in Seq(Chars) /\ 0 \in 0..Len(Older)
      BY <1>3, <1>8
    <3> QED
      BY <1>3, <1>8, <3>1, WrittenIs
  <2>2. CheckFits'
    BY <1>1, <1>2, <1>8, <2>1 DEF CheckFits
  <2> QED
    BY <1>1, <1>8, <2>2 DEF ReverserInv
<1>9. CASE wpos < V!N /\ V!N % B # 0 /\ V!Put(SubSeq(test, 1, V!N - wpos))
  <2>1. PICK k \in Nat : k = V!N - wpos /\ wpos + k = V!N /\ (V!N - wpos - k) + 1 = 1 /\ (V!N - wpos - k) + k = k
    BY <1>1, <1>2, <1>9
  <2>2. V!Put(SubSeq(test, (V!N - wpos - k) + 1, (V!N - wpos - k) + k))
    BY <1>9, <2>1
  <2>3. wpos' = wpos + k /\ rev' = V!Written(Older, 0, SubSeq(R, 1, wpos + k))
    BY <1>1, <2>1, <2>2, PutAppends
  <2>4. rev' = V!Written(Older, 0, R)
    BY <1>5, <2>1, <2>3
  <2>5. R \o Again = R
    <3>1. Again = <<>>
      BY <1>9 DEF Again
    <3> QED
      BY <1>3, <3>1
  <2> QED
    BY <1>1, <1>2, <1>8, <1>9, <2>1, <2>3, <2>4, <2>5
<1>10. CASE V!N > 0 /\ wpos = V!N /\ V!N % B = 0 /\ B <= V!N /\ V!Put(SubSeq(test, 1, B))
  <2>1. PICK j \in Nat, k \in Nat : /\ k = B /\ j = V!N - B /\ j + k = V!N /\ j + 1 = V!N - B + 1
                                    /\ (V!N - j - k) + 1 = 1 /\ (V!N - j - k) + k = k
    BY <1>1, <1>2, <1>10
  <2>2. /\ V!Reverse(V!Inverted(SubSeq(test, 1, B))) = SubSeq(R, j + 1, j + k)
        /\ Len(SubSeq(test, 1, B)) = B
    <3>1. /\ V!Reverse(V!Inverted(SubSeq(test, (V!N - j - k) + 1, (V!N - j - k) + k))) = SubSeq(R, j + 1, j + k)
          /\ Len(SubSeq(test, (V!N - j - k) + 1, (V!N - j - k) + k)) = k
      <4>1. j + k <= V!N
        BY <1>2, <2>1
      <4> QED
        BY <1>1, <4>1, PieceTurned, Zenon
    <3> QED
      BY <2>1, <3>1
  <2>3. SubSeq(R, j + 1, j + k) = Again
    BY <1>10, <2>1 DEF Again
  <2>4. wpos' = wpos + B /\ rev' = V!Written(rev, wpos, Again)
    BY <1>10, <2>2, <2>3 DEF V!Put
  <2>5. rev = V!Written(Older, 0, R) /\ wpos = Len(R)
    BY <1>1, <1>3, <1>5, <1>10
  <2>6. V!Written(V!Written(Older, 0, R), Len(R), Again) = V!Written(Older, 0, R \o Again)
    BY <1>3, <1>10, WrittenOn
  <2> QED
    BY <1>1, <1>8, <1>10, <2>4, <2>5, <2>6
<1> QED
  BY <1>7, <1>9, <1>10, LastBufferPuts

LEMMA CheckKeeps ==
    ASSUME ReverserInv, V!Check
    PROVE  ReverserInv'
<1>1. /\ rvpc = "check" /\ test' = test /\ old' = old /\ B' = B /\ wpos' = wpos /\ rev' = rev
      /\ test \in Files /\ old \in Files \cup {None} /\ B \in Nat \ {0} /\ wpos \in Nat /\ CheckFits
  BY DEF ReverserInv, V!Check
<1>2. V!N' = V!N /\ V!Reversed' = V!Reversed /\ Older' = Older /\ Again' = Again
  BY <1>1, Given
<1>3. /\ rev \in Seq(Chars) /\ rpos \in Nat /\ V!N \in Nat
      /\ \A k \in 1..rpos : k <= Len(rev) => rev[k] = V!Reversed[k]
      /\ wpos > 0 /\ V!N > 0 => rev = V!Written(Older, 0, V!Reversed \o Again)
  BY <1>1, ReverserTypes DEF CheckFits
<1> DEFINE r == IF rpos < Len(rev) THEN rev[rpos + 1] ELSE resChar
<1>4. CASE V!N - 1 - rpos <= 0
  <2>1. rvpc' = "yes" /\ rpos' = rpos
    BY <1>4 DEF V!Check
  <2>2. CheckFits'
    BY <1>1, <1>2, <1>3, <1>4, <2>1 DEF CheckFits
  <2> QED
    BY <1>1, <2>1, <2>2 DEF ReverserInv
<1>5. ASSUME ~(V!N - 1 - rpos <= 0)
      PROVE  V!Reversed[rpos + 1] = V!InvChar(test[V!N - rpos])
  <2>1. PICK k \in 1..V!N : k = rpos + 1 /\ V!N + 1 - k = V!N - rpos
    BY <1>3, <1>5
  <2>2. V!Reversed[k] = V!InvChar(test[V!N + 1 - k])
    BY <1>1, ReverserTypes
  <2> QED
    BY <2>1, <2>2
<1>6. CASE ~(V!N - 1 - rpos <= 0) /\ test[V!N - 1 - rpos + 1] # V!InvChar(r)
  <2>1. rvpc' = "no" /\ rpos' = rpos
    BY <1>6 DEF V!Check
  <2>2. test[V!N - rpos] # V!InvChar(r)
    <3>1. V!N - 1 - rpos + 1 = V!N - rpos
      BY <1>3
    <3> QED
      BY <1>6, <3>1
  <2>3. V!Reversed[rpos + 1] # r
    BY <1>5, <1>6, <2>2, InvCharIs
  <2>4. PICK k \in 1..(V!N - 1) : k = rpos + 1
    BY <1>3, <1>6
  <2>5. k > Len(rev) \/ rev[k] # V!Reversed[k]
    BY <1>3, <2>3, <2>4
  <2>6. wpos = 0
    <3> SUFFICES ASSUME wpos > 0 PROVE FALSE
      BY <1>1
    <3>1. V!N > 0 /\ k \in 1..V!N
      BY <1>3, <2>4
    <3>2. rev = V!Written(Older, 0, V!Reversed \o Again)
      BY <1>3, <3>1
    <3>3. /\ V!Reversed \in Seq(Chars) /\ Len(V!Reversed) = V!N /\ Older \in Seq(Chars)
          /\ Again \in Seq(Chars)
      BY <1>1, <3>1, ReverserTypes
    <3>4. PICK s \in Seq(Chars) : s = V!Reversed \o Again /\ Len(s) >= V!N /\ s[k] = V!Reversed[k]
      <4>1. /\ V!Reversed \o Again \in Seq(Chars) /\ Len(V!Reversed \o Again) = V!N + Len(Again)
            /\ \A v \in 1..(V!N + Len(Again)) :
                 (V!Reversed \o Again)[v] = IF v <= V!N THEN V!Reversed[v] ELSE Again[v - V!N]
        BY <3>3, ConcatProperties
      <4>2. Len(Again) \in Nat
        BY <3>3
      <4>3. k \in 1..(V!N + Len(Again)) /\ k <= V!N
        BY <1>3, <3>1, <4>2
      <4>4. (V!Reversed \o Again)[k] = V!Reversed[k]
        BY <4>1, <4>3
      <4>5. Len(V!Reversed \o Again) >= V!N
        BY <1>3, <4>1, <4>2
      <4> QED
        BY <4>1, <4>4, <4>5
    <3>5. PICK z : z = 0 /\ z \in 0..Len(Older)
      BY <3>3
    <3>6. /\ Len(V!Written(Older, z, s)) = IF z + Len(s) > Len(Older) THEN z + Len(s) ELSE Len(Older)
          /\ \A v \in 1..Len(V!Written(Older, z, s)) :
               V!Written(Older, z, s)[v] = IF z < v /\ v <= z + Len(s) THEN s[v - z] ELSE Older[v]
      BY <3>3, <3>5, WrittenIs
    <3>7. rev = V!Written(Older, z, s)
      BY <3>2, <3>4, <3>5
    <3>8. k \in 1..Len(rev) /\ z < k /\ k <= z + Len(s) /\ k - z = k
      BY <1>3, <3>1, <3>3, <3>4, <3>5, <3>6, <3>7
    <3>9. rev[k] = s[k]
      BY <3>6, <3>7, <3>8
    <3> QED
      BY <1>3, <2>5, <3>4, <3>8, <3>9
  <2>7. CheckFits'
    BY <1>1, <1>2, <1>3, <2>1, <2>4, <2>5, <2>6 DEF CheckFits
  <2> QED
    BY <1>1, <2>1, <2>7 DEF ReverserInv
<1>7. CASE ~(V!N - 1 - rpos <= 0) /\ test[V!N - 1 - rpos + 1] = V!InvChar(r)
  <2>1. rvpc' = rvpc /\ rpos' = rpos + 1
    BY <1>7 DEF V!Check
  <2>2. V!Reversed[rpos + 1] = r
    <3>1. V!N - 1 - rpos + 1 = V!N - rpos
      BY <1>3
    <3> QED
      BY <1>5, <1>7, <3>1, InvCharIs
  <2>3. ASSUME NEW k \in 1..(rpos + 1), k <= Len(rev) PROVE rev[k] = V!Reversed[k]
    <3>1. CASE k = rpos + 1
      BY <1>3, <2>2, <2>3, <3>1
    <3>2. CASE k # rpos + 1
      <4>1. k \in 1..rpos
        BY <1>3, <3>2
      <4> QED
        BY <1>3, <2>3, <4>1
    <3> QED
      BY <3>1, <3>2
  <2>4. CheckFits'
    BY <1>1, <1>2, <1>3, <2>1, <2>3 DEF CheckFits
  <2> QED
    BY <1>1, <2>1, <2>4 DEF ReverserInv
<1> QED
  BY <1>4, <1>6, <1>7

LEMMA ReverserStep == ReverserInv /\ V!Next => ReverserInv'
  BY OpenKeeps, WholeBufferKeeps, LastBufferKeeps, CheckKeeps DEF V!Next

LEMMA ReverserUnchanged == ReverserInv /\ UNCHANGED reverser => ReverserInv'
<1> SUFFICES ASSUME ReverserInv, UNCHANGED reverser PROVE ReverserInv'
  OBVIOUS
<1>1. /\ test' = test /\ old' = old /\ rev' = rev /\ rvpc' = rvpc /\ bufrSize' = bufrSize /\ B' = B
      /\ b' = b /\ pos' = pos /\ wpos' = wpos /\ resChar' = resChar /\ rpos' = rpos
  BY DEF reverser
<1>2. V!N' = V!N /\ V!Reversed' = V!Reversed /\ Older' = Older /\ Again' = Again
  BY <1>1, Given
<1>3. (LoopFits' <=> LoopFits) /\ (CheckFits' <=> CheckFits)
  BY <1>1, <1>2 DEF LoopFits, CheckFits
<1> QED
  BY <1>1, <1>3 DEF ReverserInv

LEMMA ReverserIsSound == ReverserInv => V!WholeFileReversed /\ V!CheckerSound
<1> SUFFICES ASSUME ReverserInv PROVE V!WholeFileReversed /\ V!CheckerSound
  OBVIOUS
<1>1. /\ test \in Files /\ old \in Files \cup {None} /\ B \in Nat \ {0} /\ wpos \in Nat
      /\ rvpc \in {"open", "loop", "check", "yes", "no"}
      /\ rvpc = "open" => wpos = 0
      /\ rvpc \in {"check", "yes", "no"} => CheckFits
  BY DEF ReverserInv
<1>2. V!WholeFileReversed
  <2>1. ASSUME wpos > 0, rvpc # "loop", V!N > 0 PROVE rev = V!Written(Older, 0, V!Reversed \o Again)
    <3>1. CheckFits
      BY <1>1, <2>1
    <3> QED
      BY <2>1, <3>1 DEF CheckFits
  <2> QED
    BY <2>1 DEF V!WholeFileReversed, V!Ran, Older, Again
<1>3. V!CheckerSound
  <2>1. V!N \in Nat
    BY <1>1, ReverserTypes
  <2>2. ASSUME rvpc = "yes", NEW k \in 1..(V!N - 1), k <= Len(rev) PROVE rev[k] = V!Reversed[k]
    <3>1. CheckFits
      BY <1>1, <2>2
    <3>2. rpos \in Nat /\ rpos >= V!N - 1
      BY <2>2, <3>1 DEF CheckFits
    <3>3. k \in 1..rpos
      BY <2>1, <3>2
    <3> QED
      BY <2>2, <3>1, <3>3 DEF CheckFits
  <2>3. ASSUME rvpc = "no" PROVE wpos = 0 /\ \E k \in 1..(V!N - 1) : k > Len(rev) \/ rev[k] # V!Reversed[k]
    BY <1>1, <2>3 DEF CheckFits
  <2> QED
    BY <2>2, <2>3 DEF V!CheckerSound, V!Ran
<1> QED
  BY <1>2, <1>3

-----------------------------------------------------------------------------
(* The merge sorts *)

(* f is g in another order.                                                *)
Permuted(f, g, m) ==
    \E e \in [1..m -> 1..m] :
        /\ \A j, k \in 1..m : e[j] = e[k] => j = k
        /\ \A k \in 1..m : f[k] = g[e[k]]

Ascending(f, s) == \A j, k \in s[1]..s[2] : j < k => f[j] <= f[k]

Segs(m) == (1..m) \X (1..m)

Inside(t, s) == s[1] <= t[1] /\ t[2] <= s[2]

Apart(t, s) == s[2] < t[1] \/ t[2] < s[1]

Underway == {"start", "upper", "wait", "join", "merge"}

(* Segments that somebody is or was at work on.                            *)
Proper(m, v, p) ==
    /\ p \in [Segs(m) -> Underway \cup {"idle", "done", "joined", "exited", "undefined"}]
    /\ \A s \in Segs(m) :
          /\ p[s] # "idle" => s[1] <= s[2]
          /\ p[s] \in {"upper", "wait", "join", "merge"} => s[1] < s[2]
          /\ p[s] \in {"upper", "merge"} => v = "threaded"
          /\ p[s] \in {"wait", "exited"} => v # "threaded"
          /\ p[s] \in {"joined", "undefined"} => s = <<1, m>>

Nested(m, p) ==
    \A s, t \in Segs(m) : p[s] # "idle" /\ p[t] # "idle" /\ s # t =>
        \/ Apart(s, t)
        \/ Inside(t, M!Lower(s)) \/ Inside(t, M!Upper(s))
        \/ Inside(s, M!Lower(t)) \/ Inside(s, M!Upper(t))

(* Work on a segment and on what is inside it.                             *)
Within(m, v, p) ==
    \A s, t \in Segs(m) : p[s] # "idle" /\ p[t] # "idle" /\ s # t /\ Inside(t, s) =>
        /\ p[s] # "start"
        /\ p[s] \in {"upper", "wait"} => Inside(t, M!Lower(s))
        /\ p[s] \in {"merge", "done", "joined", "exited", "undefined"} => p[t] \in {"done", "exited"}
        /\ p[s] = "join" /\ v # "threaded" /\ Inside(t, M!Lower(s)) => p[t] \in {"done", "exited"}

(* Without threads there is one at work, and those who wait for it.        *)
OneAtWork(m, v, p) ==
    v # "threaded" => \A s, t \in Segs(m) : p[s] \in Underway /\ p[t] \in Underway => Inside(s, t) \/ Inside(t, s)

HalvesDone(m, v, p, x) ==
    \A s \in Segs(m) :
        /\ p[s] = "merge" => p[M!Lower(s)] = "done" /\ p[M!Upper(s)] = "done"
        /\ x = {} => /\ p[s] # "exited"
                     /\ p[s] = "join" /\ v # "threaded" => p[M!Lower(s)] = "done"

(* What merge computes of the halves of s.                                 *)
Halves(a, s) == M!Merge(SubSeq(a, s[1], M!Mid(s)), SubSeq(a, M!Mid(s) + 1, s[2]))

(* What is done is in order, unless a child could not fork; what is about  *)
(* to be written back is what the halves still make.                       *)
InOrder(m, p, x, a, g) ==
    \A s \in Segs(m) :
        /\ p[s] = "merge" => g[s] = Halves(a, s)
        /\ x = {} /\ p[s] \in {"done", "joined"} => Ascending(a, s)

Sorting(m, v, p, x, a, g) ==
    /\ Proper(m, v, p) /\ Nested(m, p) /\ Within(m, v, p)
    /\ OneAtWork(m, v, p) /\ HalvesDone(m, v, p, x) /\ InOrder(m, p, x, a, g)

SortInv ==
    /\ variant \in {"threaded", "forked", "normal"}
    /\ input \in SortInputs /\ array \in Seq(Int) /\ Len(array) = M!n
    /\ Permuted(array, input, M!n)
    /\ DOMAIN merged = Segs(M!n)
    /\ Sorting(M!n, variant, mspc, failed, array, merged)

LEMMA SegmentIs ==
    ASSUME NEW m \in Nat, NEW s \in Segs(m)
    PROVE  /\ s[1] \in 1..m /\ s[2] \in 1..m /\ s = <<s[1], s[2]>>
           /\ s[1] < s[2] => /\ M!Lower(s) \in Segs(m) /\ M!Lower(s)[1] = s[1] /\ M!Lower(s)[2] = M!Mid(s)
                             /\ M!Upper(s) \in Segs(m) /\ M!Upper(s)[1] = M!Mid(s) + 1 /\ M!Upper(s)[2] = s[2]
                             /\ M!Mid(s) \in s[1]..(s[2] - 1)
           /\ s[1] = s[2] => /\ M!Lower(s)[1] = s[1] /\ M!Lower(s)[2] = s[1]
                             /\ M!Upper(s)[1] = s[1] + 1 /\ M!Upper(s)[2] = s[1]
<1>1. PICK l \in 1..m, h \in 1..m : s = <<l, h>>
  BY DEF Segs
<1>2. M!Lower(s) = <<l, M!Mid(s)>> /\ M!Upper(s) = <<M!Mid(s) + 1, h>> /\ M!Mid(s) = l + (h - l) \div 2
  BY <1>1 DEF M!Lower, M!Upper, M!Mid
<1>3. l < h => M!Mid(s) \in l..(h - 1)
  BY <1>2
<1>4. l = h => M!Mid(s) = l
  BY <1>2
<1> QED
  BY <1>1, <1>2, <1>3, <1>4 DEF Segs

LEMMA SameSegment ==
    ASSUME NEW m \in Nat, NEW s \in Segs(m), NEW t \in Segs(m), s[1] = t[1], s[2] = t[2]
    PROVE  s = t
  BY SegmentIs

(* Nested, in a form with numbers only.                                    *)
LEMMA NestedIs ==
    ASSUME NEW m \in Nat, NEW v, NEW p, Proper(m, v, p), Nested(m, p),
           NEW s \in Segs(m), NEW t \in Segs(m), p[s] # "idle", p[t] # "idle", s # t
    PROVE  \/ Apart(s, t)
           \/ s[1] < s[2] /\ Inside(t, s) /\ (Inside(t, M!Lower(s)) \/ Inside(t, M!Upper(s)))
           \/ t[1] < t[2] /\ Inside(s, t) /\ (Inside(s, M!Lower(t)) \/ Inside(s, M!Upper(t)))
<1>1. ASSUME NEW y \in Segs(m), NEW z \in Segs(m), p[y] # "idle", p[z] # "idle", y # z,
             Inside(z, M!Lower(y)) \/ Inside(z, M!Upper(y))
      PROVE  y[1] < y[2] /\ Inside(z, y)
  <2>1. y[1] <= y[2] /\ z[1] <= z[2]
    BY <1>1 DEF Proper
  <2>2. CASE y[1] = y[2]
    <3>1. ~Inside(z, M!Upper(y))
      BY <1>1, <2>1, <2>2, SegmentIs DEF Inside
    <3>2. z[1] = y[1] /\ z[2] = y[2]
      BY <1>1, <2>1, <2>2, <3>1, SegmentIs DEF Inside
    <3> QED
      BY <1>1, <3>2, SameSegment
  <2>3. CASE y[1] < y[2]
    BY <1>1, <2>1, <2>3, SegmentIs DEF Inside
  <2> QED
    BY <1>1, <2>1, <2>2, <2>3, SegmentIs
<1>2. CASE Inside(t, M!Lower(s)) \/ Inside(t, M!Upper(s))
  BY <1>1, <1>2
<1>3. CASE Inside(s, M!Lower(t)) \/ Inside(s, M!Upper(t))
  BY <1>1, <1>3
<1> QED
  BY <1>2, <1>3 DEF Nested

(* Half h of s is begun, or sorted, and s goes on with z.                  *)
Begun(m, v, p, s, h, u, z, q) ==
    /\ s \in Segs(m) /\ s[1] < s[2] /\ q = [p EXCEPT ![h] = u, ![s] = z]
    /\ u \in {"start", "done"}
    /\ v # "threaded" => u = "start"
    /\ \/ /\ h = M!Lower(s) /\ p[s] = "start"
          /\ z = IF v = "threaded" THEN "upper" ELSE "wait"
       \/ /\ h = M!Upper(s) /\ z = "join"
          /\ p[s] = IF v = "threaded" THEN "upper" ELSE "wait"
          /\ v # "threaded" => p[M!Lower(s)] \in {"done", "exited"}

LEMMA BegunIs ==
    ASSUME NEW m \in Nat, NEW v, NEW p, NEW q, NEW s, NEW h, NEW u, NEW z,
           Proper(m, v, p), Within(m, v, p), Begun(m, v, p, s, h, u, z, q)
    PROVE  /\ s \in Segs(m) /\ s[1] < s[2] /\ h \in Segs(m) /\ h # s /\ h[1] <= h[2] /\ Inside(h, s)
           /\ p[s] \in {"start", "upper", "wait"} /\ z \in {"upper", "wait", "join"}
           /\ q[h] = u /\ q[s] = z /\ \A t \in Segs(m) : t # h /\ t # s => q[t] = p[t]
           /\ \A t \in Segs(m) : p[t] # "idle" => ~Inside(t, h)
           /\ p[h] = "idle"
<1>1. /\ s \in Segs(m) /\ s[1] < s[2] /\ q = [p EXCEPT ![h] = u, ![s] = z]
      /\ h \in {M!Lower(s), M!Upper(s)}
      /\ p[s] \in {"start", "upper", "wait"} /\ z \in {"upper", "wait", "join"}
      /\ p[s] = "start" <=> h = M!Lower(s)
  <2>1. M!Lower(s) # M!Upper(s)
    BY SegmentIs DEF Begun
  <2> QED
    BY <2>1 DEF Begun
<1>2. h \in Segs(m) /\ h # s /\ h[1] <= h[2] /\ Inside(h, s)
  BY <1>1, SegmentIs DEF Inside
<1>3. p \in [Segs(m) -> Underway \cup {"idle", "done", "joined", "exited", "undefined"}]
  BY DEF Proper
<1>4. q[h] = u /\ q[s] = z /\ \A t \in Segs(m) : t # h /\ t # s => q[t] = p[t]
  BY <1>1, <1>2, <1>3
<1>5. ASSUME NEW t \in Segs(m), p[t] # "idle", Inside(t, h) PROVE FALSE
  <2>1. Inside(t, s) /\ t # s
    BY <1>1, <1>2, <1>5, SegmentIs DEF Inside
  <2>2. p[s] # "start" /\ Inside(t, M!Lower(s))
    BY <1>1, <1>5, <2>1 DEF Within
  <2>3. Inside(t, M!Upper(s))
    BY <1>1, <1>5, <2>2
  <2>4. t[1] <= t[2]
    BY <1>5 DEF Proper
  <2> QED
    BY <1>1, <2>2, <2>3, <2>4, SegmentIs DEF Inside
<1>6. p[h] = "idle"
  <2>1. Inside(h, h)
    BY <1>2, SegmentIs DEF Inside
  <2> QED
    BY <1>2, <1>5, <2>1
<1> QED
  BY <1>1, <1>2, <1>4, <1>5, <1>6

(* What lies beside h, or in s, and what contains s.                       *)
LEMMA BesideHalf ==
    ASSUME NEW m \in Nat, NEW v, NEW p, NEW q, NEW s, NEW h, NEW u, NEW z,
           Proper(m, v, p), Nested(m, p), Within(m, v, p), Begun(m, v, p, s, h, u, z, q),
           NEW t \in Segs(m), p[t] # "idle", t # s, ~Inside(s, t)
    PROVE  Apart(t, h) /\ (Inside(t, s) => p[s] # "start" /\ Inside(t, M!Lower(s)))
<1>1. /\ s \in Segs(m) /\ h \in Segs(m) /\ Inside(h, s) /\ ~Inside(t, h) /\ s[1] < s[2] /\ h[1] <= h[2]
      /\ p[s] \in {"start", "upper", "wait"} /\ t[1] <= t[2]
  <2>1. t[1] <= t[2]
    BY DEF Proper
  <2> QED
    BY <2>1, BegunIs
<1>2. Inside(t, s) \/ Apart(s, t)
  BY <1>1, NestedIs
<1>3. ASSUME Inside(t, s) PROVE Apart(t, h) /\ p[s] # "start" /\ Inside(t, M!Lower(s))
  <2>1. p[s] # "start" /\ Inside(t, M!Lower(s))
    BY <1>1, <1>3 DEF Within
  <2>2. h = M!Upper(s)
    BY <2>1 DEF Begun
  <2> QED
    BY <1>1, <2>1, <2>2, SegmentIs DEF Apart, Inside
<1>4. ASSUME Apart(s, t) PROVE Apart(t, h)
  BY <1>1, <1>4, SegmentIs DEF Apart, Inside
<1> QED
  BY <1>2, <1>3, <1>4

LEMMA AboveHalf ==
    ASSUME NEW m \in Nat, NEW v, NEW p, NEW q, NEW s, NEW h, NEW u, NEW z,
           Proper(m, v, p), Nested(m, p), Within(m, v, p), Begun(m, v, p, s, h, u, z, q),
           NEW t \in Segs(m), p[t] # "idle", t # s, Inside(s, t)
    PROVE  /\ Inside(h, t) /\ p[t] \notin {"start", "merge", "done", "joined", "exited", "undefined"}
           /\ Inside(h, M!Lower(t)) \/ Inside(h, M!Upper(t))
           /\ p[t] \in {"upper", "wait"} => Inside(h, M!Lower(t))
           /\ p[t] = "join" /\ v # "threaded" => ~Inside(h, M!Lower(t))
<1>1. /\ s \in Segs(m) /\ h \in Segs(m) /\ Inside(h, s) /\ s[1] < s[2] /\ h[1] <= h[2]
      /\ p[s] \in {"start", "upper", "wait"} /\ t[1] <= t[2]
  <2>1. t[1] <= t[2]
    BY DEF Proper
  <2> QED
    BY <2>1, BegunIs
<1>2. /\ p[t] \notin {"start", "merge", "done", "joined", "exited", "undefined"}
      /\ p[t] \in {"upper", "wait"} => Inside(s, M!Lower(t))
      /\ p[t] = "join" /\ v # "threaded" => ~Inside(s, M!Lower(t))
  BY <1>1 DEF Within
<1>3. t[1] < t[2] /\ (Inside(s, M!Lower(t)) \/ Inside(s, M!Upper(t)))
  <2>1. ~Apart(s, t)
    BY <1>1, SegmentIs DEF Apart, Inside
  <2>2. ~Inside(t, s)
    <3>1. Inside(t, s) => s[1] = t[1] /\ s[2] = t[2]
      BY <1>1, SegmentIs, SMTT(30) DEF Inside
    <3> QED
      BY <1>1, <3>1, SameSegment
  <2> QED
    BY <1>1, <2>1, <2>2, NestedIs
<1>4. Inside(h, t)
  BY <1>1, SegmentIs DEF Inside
<1>5. CASE Inside(s, M!Lower(t))
  <2>1. Inside(h, M!Lower(t))
    BY <1>1, <1>3, <1>5, SegmentIs DEF Inside
  <2> QED
    BY <1>2, <1>4, <1>5, <2>1
<1>6. CASE Inside(s, M!Upper(t)) /\ ~Inside(s, M!Lower(t))
  <2>1. Inside(h, M!Upper(t)) /\ ~Inside(h, M!Lower(t))
    BY <1>1, <1>3, <1>6, SegmentIs DEF Inside
  <2> QED
    BY <1>2, <1>4, <1>6, <2>1
<1> QED
  BY <1>3, <1>5, <1>6

LEMMA BegunKeepsProper ==
    ASSUME NEW m \in Nat, NEW v, NEW p, NEW q, NEW s, NEW h, NEW u, NEW z,
           Proper(m, v, p), Nested(m, p), Within(m, v, p), Begun(m, v, p, s, h, u, z, q)
    PROVE  Proper(m, v, q) /\ Nested(m, q)
<1>1. /\ s \in Segs(m) /\ s[1] < s[2] /\ h \in Segs(m) /\ h # s /\ h[1] <= h[2] /\ Inside(h, s)
      /\ p[s] \in {"start", "upper", "wait"} /\ q[h] = u /\ q[s] = z
      /\ \A t \in Segs(m) : t # h /\ t # s => q[t] = p[t]
  BY BegunIs
<1>2. /\ u \in {"start", "done"}
      /\ h = M!Lower(s) \/ h = M!Upper(s)
      /\ z = "upper" => v = "threaded"
      /\ z = "wait" => v # "threaded"
      /\ z \in {"upper", "wait", "join"} /\ q = [p EXCEPT ![h] = u, ![s] = z]
  <2>1. u \in {"start", "done"} /\ q = [p EXCEPT ![h] = u, ![s] = z]
    BY DEF Begun
  <2>2. CASE h = M!Lower(s) /\ z = IF v = "threaded" THEN "upper" ELSE "wait"
    BY <2>1, <2>2
  <2>3. CASE h = M!Upper(s) /\ z = "join"
    BY <2>1, <2>3
  <2> QED
    BY <2>2, <2>3 DEF Begun
<1>3. Proper(m, v, q)
  <2>1. q \in [Segs(m) -> Underway \cup {"idle", "done", "joined", "exited", "undefined"}]
    <3>1. u \in Underway \cup {"done"} /\ z \in Underway
      BY <1>2 DEF Underway
    <3> QED
      BY <1>2, <3>1 DEF Proper
  <2>2. ASSUME NEW t \in Segs(m)
        PROVE  /\ q[t] # "idle" => t[1] <= t[2]
               /\ q[t] \in {"upper", "wait", "join", "merge"} => t[1] < t[2]
               /\ q[t] \in {"upper", "merge"} => v = "threaded"
               /\ q[t] \in {"wait", "exited"} => v # "threaded"
               /\ q[t] \in {"joined", "undefined"} => t = <<1, m>>
    <3>1. CASE t = s
      BY <1>1, <1>2, <3>1, SegmentIs
    <3>2. CASE t = h
      BY <1>1, <1>2, <3>2
    <3>3. CASE t # s /\ t # h
      <4>1. q[t] = p[t]
        BY <1>1, <3>3
      <4> QED
        BY <4>1 DEF Proper
    <3> QED
      BY <3>1, <3>2, <3>3
  <2> QED
    BY <2>1, <2>2 DEF Proper
<1>4. ASSUME NEW t \in Segs(m), q[t] # "idle", t # h
      PROVE  \/ Apart(t, h)
             \/ Inside(h, M!Lower(t)) \/ Inside(h, M!Upper(t))
  <2>1. CASE t = s
    <3>1. Inside(M!Lower(s), M!Lower(s)) /\ Inside(M!Upper(s), M!Upper(s))
      BY <1>1, SegmentIs DEF Inside
    <3> QED
      BY <1>2, <2>1, <3>1
  <2>2. CASE t # s
    <3>1. p[t] # "idle"
      BY <1>1, <1>4, <2>2
    <3>2. CASE Inside(s, t)
      BY <2>2, <3>1, <3>2, AboveHalf
    <3>3. CASE ~Inside(s, t)
      BY <2>2, <3>1, <3>3, BesideHalf
    <3> QED
      BY <3>2, <3>3
  <2> QED
    BY <2>1, <2>2
<1>5. ASSUME NEW y \in Segs(m), NEW t \in Segs(m), q[y] # "idle", q[t] # "idle", y # t
      PROVE  \/ Apart(y, t)
             \/ Inside(t, M!Lower(y)) \/ Inside(t, M!Upper(y))
             \/ Inside(y, M!Lower(t)) \/ Inside(y, M!Upper(t))
  <2>1. \A x, w \in Segs(m) : Apart(x, w) => Apart(w, x)
    BY SegmentIs DEF Apart
  <2>2. CASE y = h \/ t = h
    BY <1>1, <1>4, <1>5, <2>1, <2>2
  <2>3. CASE y # h /\ t # h
    <3>1. p[y] # "idle" /\ p[t] # "idle"
      BY <1>1, <1>5, <2>3
    <3> QED
      BY <1>5, <3>1 DEF Nested
  <2> QED
    BY <2>2, <2>3
<1> QED
  BY <1>3, <1>5 DEF Nested

LEMMA BegunKeepsWithin ==
    ASSUME NEW m \in Nat, NEW v, NEW p, NEW q, NEW s, NEW h, NEW u, NEW z,
           Proper(m, v, p), Nested(m, p), Within(m, v, p), Begun(m, v, p, s, h, u, z, q)
    PROVE  Within(m, v, q)
<1> DEFINE Fits(y, t) ==
        /\ q[y] # "start"
        /\ q[y] \in {"upper", "wait"} => Inside(t, M!Lower(y))
        /\ q[y] \in {"merge", "done", "joined", "exited", "undefined"} => q[t] \in {"done", "exited"}
        /\ q[y] = "join" /\ v # "threaded" /\ Inside(t, M!Lower(y)) => q[t] \in {"done", "exited"}
<1>1. /\ s \in Segs(m) /\ s[1] < s[2] /\ h \in Segs(m) /\ h # s /\ h[1] <= h[2] /\ Inside(h, s)
      /\ p[s] \in {"start", "upper", "wait"} /\ q[h] = u /\ q[s] = z
      /\ \A t \in Segs(m) : t # h /\ t # s => q[t] = p[t]
      /\ \A t \in Segs(m) : p[t] # "idle" => ~Inside(t, h)
  BY BegunIs
<1>2. ASSUME NEW t \in Segs(m), q[t] # "idle", t # s, Inside(t, s) PROVE Fits(s, t)
  <2>1. CASE t = h
    <3>1. CASE h = M!Lower(s) /\ z \in {"upper", "wait"}
      <4>1. Inside(h, M!Lower(s))
        BY <1>1, <3>1, SegmentIs DEF Inside
      <4> QED
        BY <1>1, <2>1, <3>1, <4>1
    <3>2. CASE h = M!Upper(s) /\ z = "join"
      <4>1. ~Inside(h, M!Lower(s))
        BY <1>1, <3>2, SegmentIs DEF Inside
      <4> QED
        BY <1>1, <2>1, <3>2, <4>1
    <3> QED
      BY <3>1, <3>2 DEF Begun
  <2>2. CASE t # h
    <3>1. p[t] # "idle" /\ q[t] = p[t]
      BY <1>1, <1>2, <2>2
    <3>2. p[s] # "start" /\ Inside(t, M!Lower(s))
      BY <1>1, <1>2, <3>1 DEF Within
    <3>3. z = "join" /\ (v # "threaded" => p[M!Lower(s)] \in {"done", "exited"})
      BY <3>2 DEF Begun
    <3>4. v # "threaded" => p[t] \in {"done", "exited"}
      <4>1. M!Lower(s) \in Segs(m)
        BY <1>1, SegmentIs
      <4>2. CASE t = M!Lower(s)
        BY <3>3, <4>2
      <4>3. CASE t # M!Lower(s)
        BY <3>1, <3>2, <3>3, <4>1, <4>3 DEF Within
      <4> QED
        BY <4>2, <4>3
    <3> QED
      BY <1>1, <3>1, <3>3, <3>4
  <2> QED
    BY <2>1, <2>2
<1>3. ASSUME NEW y \in Segs(m), q[y] # "idle", y # s, y # h, Inside(s, y) PROVE Fits(y, s) /\ Fits(y, h)
  <2>1. p[y] # "idle" /\ q[y] = p[y]
    BY <1>1, <1>3
  <2>2. /\ p[y] \notin {"start", "merge", "done", "joined", "exited", "undefined"}
        /\ p[y] \in {"upper", "wait"} => Inside(h, M!Lower(y))
        /\ p[y] = "join" /\ v # "threaded" => ~Inside(h, M!Lower(y))
    BY <1>1, <1>3, <2>1, AboveHalf
  <2>3. /\ p[y] \in {"upper", "wait"} => Inside(s, M!Lower(y))
        /\ p[y] = "join" /\ v # "threaded" => ~Inside(s, M!Lower(y))
    BY <1>1, <1>3, <2>1 DEF Within
  <2> QED
    BY <2>1, <2>2, <2>3
<1>4. ASSUME NEW y \in Segs(m), q[y] # "idle", y # s, y # h, Inside(h, y) PROVE Inside(s, y)
  <2>1. p[y] # "idle"
    BY <1>1, <1>4
  <2>2. ~Apart(y, h)
    BY <1>1, <1>4, SegmentIs DEF Apart, Inside
  <2> QED
    BY <1>4, <2>1, <2>2, BesideHalf
<1>5. ASSUME NEW y \in Segs(m), NEW t \in Segs(m), q[y] # "idle", q[t] # "idle", y # t, Inside(t, y)
      PROVE  Fits(y, t)
  <2>1. CASE y = s
    BY <1>2, <1>5, <2>1
  <2>2. CASE y = h
    <3>1. t = s => FALSE
      BY <1>1, <1>5, <2>2
    <3>2. t # s => p[t] # "idle"
      BY <1>1, <1>5, <2>2
    <3> QED
      BY <1>1, <1>5, <2>2, <3>1, <3>2
  <2>3. CASE y # s /\ y # h /\ t = h
    BY <1>3, <1>4, <1>5, <2>3
  <2>4. CASE y # s /\ y # h /\ t = s
    BY <1>3, <1>5, <2>4
  <2>5. CASE y # s /\ y # h /\ t # s /\ t # h
    <3>1. q[y] = p[y] /\ q[t] = p[t]
      BY <1>1, <2>5
    <3> QED
      BY <1>5, <3>1 DEF Within
  <2> QED
    BY <2>1, <2>2, <2>3, <2>4, <2>5
<1> QED
  BY <1>5 DEF Within

LEMMA BegunKeepsWork ==
    ASSUME NEW m \in Nat, NEW v, NEW p, NEW q, NEW s, NEW h, NEW u, NEW z, NEW x,
           Proper(m, v, p), Nested(m, p), Within(m, v, p), Begun(m, v, p, s, h, u, z, q),
           OneAtWork(m, v, p), HalvesDone(m, v, p, x)
    PROVE  OneAtWork(m, v, q) /\ HalvesDone(m, v, q, x)
<1>1. /\ s \in Segs(m) /\ s[1] < s[2] /\ h \in Segs(m) /\ h # s /\ h[1] <= h[2] /\ Inside(h, s)
      /\ p[s] \in {"start", "upper", "wait"} /\ q[h] = u /\ q[s] = z /\ z \in {"upper", "wait", "join"}
      /\ \A t \in Segs(m) : t # h /\ t # s => q[t] = p[t]
      /\ p[h] = "idle" /\ u \in {"start", "done"}
  <2>1. u \in {"start", "done"}
    BY DEF Begun
  <2> QED
    BY <2>1, BegunIs
<1>2. ASSUME v # "threaded", NEW t \in Segs(m), q[t] \in Underway PROVE Inside(h, t) \/ Inside(t, h)
  <2>1. CASE t \in {s, h}
    BY <1>1, <2>1, SegmentIs DEF Inside
  <2>2. CASE t # s /\ t # h
    <3>1. q[t] = p[t] /\ p[t] \in Underway /\ p[t] # "idle" /\ p[t] \notin {"done", "exited"}
      BY <1>1, <1>2, <2>2 DEF Underway
    <3>2. ASSUME ~Inside(s, t) PROVE FALSE
      <4>1. Inside(t, s)
        <5>1. p[s] \in Underway
          BY <1>1 DEF Underway
        <5> QED
          BY <1>1, <1>2, <3>1, <3>2, <5>1 DEF OneAtWork
      <4>2. p[s] # "start" /\ Inside(t, M!Lower(s))
        BY <2>2, <3>1, <3>2, <4>1, BesideHalf
      <4>3. M!Lower(s) \in Segs(m) /\ p[M!Lower(s)] \in {"done", "exited"}
        <5>1. v # "threaded" => p[M!Lower(s)] \in {"done", "exited"}
          BY <4>2 DEF Begun
        <5> QED
          BY <1>1, <1>2, <5>1, SegmentIs
      <4> QED
        BY <3>1, <4>2, <4>3 DEF Within
    <3>3. Inside(h, t)
      BY <2>2, <3>1, <3>2, AboveHalf
    <3> QED
      BY <3>3
  <2> QED
    BY <2>1, <2>2
<1>3. ASSUME v # "threaded", NEW y \in Segs(m), NEW t \in Segs(m), q[y] \in Underway, q[t] \in Underway
      PROVE  Inside(y, t) \/ Inside(t, y)
  <2>1. CASE y = h \/ t = h
    BY <1>2, <1>3, <2>1
  <2>2. CASE y # h /\ t # h
    <3>1. p[y] \in Underway /\ p[t] \in Underway
      BY <1>1, <1>3, <2>2 DEF Underway
    <3> QED
      BY <1>3, <3>1 DEF OneAtWork
  <2> QED
    BY <2>1, <2>2
<1>4. ASSUME NEW t \in Segs(m), p[t] = "done" PROVE q[t] = "done"
  BY <1>1, <1>4
<1>5. ASSUME NEW t \in Segs(m), q[t] = "merge" PROVE q[M!Lower(t)] = "done" /\ q[M!Upper(t)] = "done"
  <2>1. p[t] = "merge"
    BY <1>1, <1>5
  <2>2. M!Lower(t) \in Segs(m) /\ M!Upper(t) \in Segs(m)
    BY <2>1, SegmentIs DEF Proper
  <2> QED
    BY <1>4, <2>1, <2>2 DEF HalvesDone
<1>6. ASSUME NEW t \in Segs(m), x = {} PROVE q[t] # "exited" /\ (q[t] = "join" /\ v # "threaded" => q[M!Lower(t)] = "done")
  <2>1. p[t] # "exited"
    BY <1>6 DEF HalvesDone
  <2>2. q[t] # "exited"
    BY <1>1, <2>1
  <2>3. ASSUME q[t] = "join", v # "threaded" PROVE q[M!Lower(t)] = "done"
    <3>1. CASE t = s
      <4>1. M!Lower(s) \in Segs(m)
        BY <1>1, SegmentIs
      <4>2. p[M!Lower(s)] \in {"done", "exited"}
        BY <1>1, <2>3, <3>1 DEF Begun
      <4>3. p[M!Lower(s)] = "done"
        BY <1>6, <4>1, <4>2 DEF HalvesDone
      <4> QED
        BY <1>4, <3>1, <4>1, <4>3
    <3>2. CASE t # s
      <4>1. p[t] = "join"
        BY <1>1, <2>3, <3>2
      <4>2. M!Lower(t) \in Segs(m)
        BY <4>1, SegmentIs DEF Proper
      <4>3. p[M!Lower(t)] = "done"
        BY <1>6, <2>3, <4>1 DEF HalvesDone
      <4> QED
        BY <1>4, <4>2, <4>3
    <3> QED
      BY <3>1, <3>2
  <2> QED
    BY <2>2, <2>3
<1> QED
  BY <1>3, <1>5, <1>6 DEF OneAtWork, HalvesDone

(* s goes on, and nobody is at work inside it.                             *)
Moved(m, v, p, s, z, q) ==
    /\ s \in Segs(m) /\ q = [p EXCEPT ![s] = z]
    /\ \/ p[s] \in {"start", "join", "merge"} /\ z = "done"
       \/ p[s] = "join" /\ z = "merge" /\ p[M!Lower(s)] = "done" /\ p[M!Upper(s)] = "done" /\ v = "threaded"
       \/ s = <<1, m>> /\ p[s] = "start" /\ z = "undefined"
       \/ s = <<1, m>> /\ p[s] = "done" /\ z = "joined"
    /\ \A t \in Segs(m) : t # s /\ p[t] # "idle" /\ Inside(t, s) => p[t] \in {"done", "exited"}

LEMMA MovedIs ==
    ASSUME NEW m \in Nat, NEW v, NEW p, NEW q, NEW s, NEW z,
           Proper(m, v, p), Moved(m, v, p, s, z, q)
    PROVE  /\ s \in Segs(m) /\ q[s] = z /\ \A t \in Segs(m) : t # s => q[t] = p[t]
           /\ z \in {"merge", "done", "joined", "undefined"}
           /\ p[s] \in {"start", "join", "merge", "done"}
           /\ p[s] = "done" \/ z \in {"joined", "undefined"} => s = <<1, m>>
           /\ z = "merge" => /\ p[s] = "join" /\ v = "threaded"
                             /\ p[M!Lower(s)] = "done" /\ p[M!Upper(s)] = "done"
           /\ q \in [Segs(m) -> Underway \cup {"idle", "done", "joined", "exited", "undefined"}]
           /\ \A t \in Segs(m) : t # s /\ p[t] # "idle" /\ Inside(t, s) => p[t] \in {"done", "exited"}
<1>1. s \in Segs(m) /\ q = [p EXCEPT ![s] = z]
  BY DEF Moved
<1>2. /\ z \in {"merge", "done", "joined", "undefined"}
      /\ p[s] \in {"start", "join", "merge", "done"}
      /\ p[s] = "done" \/ z \in {"joined", "undefined"} => s = <<1, m>>
      /\ z = "merge" => /\ p[s] = "join" /\ v = "threaded"
                        /\ p[M!Lower(s)] = "done" /\ p[M!Upper(s)] = "done"
  BY DEF Moved
<1>3. /\ q \in [Segs(m) -> Underway \cup {"idle", "done", "joined", "exited", "undefined"}]
      /\ q[s] = z /\ \A t \in Segs(m) : t # s => q[t] = p[t]
  <2>1. z \in Underway \cup {"idle", "done", "joined", "exited", "undefined"}
    BY <1>2 DEF Underway
  <2> QED
    BY <1>1, <2>1 DEF Proper
<1> QED
  BY <1>1, <1>2, <1>3 DEF Moved

LEMMA MovedKeepsTree ==
    ASSUME NEW m \in Nat, NEW v, NEW p, NEW q, NEW s, NEW z,
           Proper(m, v, p), Nested(m, p), Within(m, v, p), Moved(m, v, p, s, z, q)
    PROVE  Proper(m, v, q) /\ Nested(m, q) /\ Within(m, v, q)
<1>1. /\ s \in Segs(m) /\ q[s] = z /\ \A t \in Segs(m) : t # s => q[t] = p[t]
      /\ z \in {"merge", "done", "joined", "undefined"}
      /\ p[s] \in {"start", "join", "merge", "done"}
      /\ p[s] = "done" \/ z \in {"joined", "undefined"} => s = <<1, m>>
      /\ z = "merge" => p[s] = "join" /\ v = "threaded"
      /\ \A t \in Segs(m) : t # s /\ p[t] # "idle" /\ Inside(t, s) => p[t] \in {"done", "exited"}
  BY MovedIs
<1>2. \A t \in Segs(m) : q[t] # "idle" <=> p[t] # "idle"
  BY <1>1
<1>3. Proper(m, v, q)
  <2>1. q \in [Segs(m) -> Underway \cup {"idle", "done", "joined", "exited", "undefined"}]
    BY MovedIs
  <2>2. ASSUME NEW t \in Segs(m)
        PROVE  /\ q[t] # "idle" => t[1] <= t[2]
               /\ q[t] \in {"upper", "wait", "join", "merge"} => t[1] < t[2]
               /\ q[t] \in {"upper", "merge"} => v = "threaded"
               /\ q[t] \in {"wait", "exited"} => v # "threaded"
               /\ q[t] \in {"joined", "undefined"} => t = <<1, m>>
    <3>1. CASE t = s
      <4>1. p[s] # "idle" /\ s[1] <= s[2] /\ (p[s] = "join" => s[1] < s[2])
        BY <1>1 DEF Proper
      <4> QED
        BY <1>1, <3>1, <4>1
    <3>2. CASE t # s
      BY <1>1, <3>2 DEF Proper
    <3> QED
      BY <3>1, <3>2
  <2> QED
    BY <2>1, <2>2 DEF Proper
<1>4. Nested(m, q)
  BY <1>2 DEF Nested
<1>5. ASSUME NEW y \in Segs(m), NEW t \in Segs(m), q[y] # "idle", q[t] # "idle", y # t, Inside(t, y)
      PROVE  /\ q[y] # "start"
             /\ q[y] \in {"upper", "wait"} => Inside(t, M!Lower(y))
             /\ q[y] \in {"merge", "done", "joined", "exited", "undefined"} => q[t] \in {"done", "exited"}
             /\ q[y] = "join" /\ v # "threaded" /\ Inside(t, M!Lower(y)) => q[t] \in {"done", "exited"}
  <2>1. p[y] # "idle" /\ p[t] # "idle"
    BY <1>2, <1>5
  <2>2. CASE y = s
    BY <1>1, <1>5, <2>1, <2>2
  <2>3. CASE y # s
    <3>1. q[y] = p[y]
      BY <1>1, <2>3
    <3>2. CASE t = s
      <4>1. p[s] # "done"
        <5>1. s = <<1, m>> => y[1] = s[1] /\ y[2] = s[2]
          BY <1>5, <3>2, SegmentIs DEF Inside
        <5> QED
          BY <1>1, <1>5, <3>2, <5>1, SameSegment
      <4>2. p[s] \notin {"done", "exited"}
        BY <1>1, <4>1
      <4> QED
        BY <1>5, <2>1, <3>1, <3>2, <4>2 DEF Within
    <3>3. CASE t # s
      BY <1>1, <1>5, <2>1, <3>1, <3>3 DEF Within
    <3> QED
      BY <3>2, <3>3
  <2> QED
    BY <2>2, <2>3
<1> QED
  BY <1>3, <1>4, <1>5 DEF Within

LEMMA MovedKeepsWork ==
    ASSUME NEW m \in Nat, NEW v, NEW p, NEW q, NEW s, NEW z, NEW x,
           Proper(m, v, p), Moved(m, v, p, s, z, q), OneAtWork(m, v, p), HalvesDone(m, v, p, x)
    PROVE  OneAtWork(m, v, q) /\ HalvesDone(m, v, q, x)
<1>1. /\ s \in Segs(m) /\ q[s] = z /\ \A t \in Segs(m) : t # s => q[t] = p[t]
      /\ z \in {"merge", "done", "joined", "undefined"}
      /\ p[s] \in {"start", "join", "merge", "done"}
      /\ p[s] = "done" \/ z \in {"joined", "undefined"} => s = <<1, m>>
      /\ z = "merge" => /\ p[s] = "join" /\ v = "threaded"
                        /\ p[M!Lower(s)] = "done" /\ p[M!Upper(s)] = "done"
  BY MovedIs
<1>2. \A t \in Segs(m) : q[t] \in Underway => p[t] \in Underway
  BY <1>1 DEF Underway
<1>3. OneAtWork(m, v, q)
  BY <1>2 DEF OneAtWork
<1>4. ASSUME NEW t \in Segs(m), t # <<1, m>>, p[t] = "done" PROVE q[t] = "done"
  BY <1>1, <1>4
<1>5. ASSUME NEW t \in Segs(m), p[t] \in {"upper", "wait", "join", "merge"}
      PROVE  /\ M!Lower(t) \in Segs(m) /\ M!Lower(t) # <<1, m>> /\ M!Lower(t) # t
             /\ M!Upper(t) \in Segs(m) /\ M!Upper(t) # <<1, m>> /\ M!Upper(t) # t
  <2>1. t[1] < t[2]
    BY <1>5 DEF Proper
  <2> QED
    BY <2>1, SegmentIs
<1>6. ASSUME NEW t \in Segs(m), q[t] = "merge" PROVE q[M!Lower(t)] = "done" /\ q[M!Upper(t)] = "done"
  <2>1. CASE t = s
    BY <1>1, <1>4, <1>5, <1>6, <2>1
  <2>2. CASE t # s
    <3>1. p[t] = "merge"
      BY <1>1, <1>6, <2>2
    <3>2. p[M!Lower(t)] = "done" /\ p[M!Upper(t)] = "done"
      BY <3>1 DEF HalvesDone
    <3> QED
      BY <1>4, <1>5, <3>1, <3>2
  <2> QED
    BY <2>1, <2>2
<1>7. ASSUME NEW t \in Segs(m), x = {} PROVE q[t] # "exited" /\ (q[t] = "join" /\ v # "threaded" => q[M!Lower(t)] = "done")
  <2>1. p[t] # "exited"
    BY <1>7 DEF HalvesDone
  <2>2. q[t] # "exited"
    BY <1>1, <2>1
  <2>3. ASSUME q[t] = "join", v # "threaded" PROVE q[M!Lower(t)] = "done"
    <3>1. p[t] = "join"
      BY <1>1, <2>3
    <3>2. p[M!Lower(t)] = "done"
      BY <1>7, <2>3, <3>1 DEF HalvesDone
    <3> QED
      BY <1>4, <1>5, <3>1, <3>2
  <2> QED
    BY <2>2, <2>3
<1> QED
  BY <1>3, <1>6, <1>7 DEF HalvesDone

(* Nobody is at work in a segment whose halves are done.                   *)
LEMMA InsideJoin ==
    ASSUME NEW m \in Nat, NEW v, NEW p, Proper(m, v, p), Nested(m, p), Within(m, v, p),
           NEW s \in Segs(m), p[s] = "join", p[M!Upper(s)] = "done",
           v # "threaded" \/ p[M!Lower(s)] = "done"
    PROVE  \A t \in Segs(m) : t # s /\ p[t] # "idle" /\ Inside(t, s) => p[t] \in {"done", "exited"}
<1>1. s[1] < s[2] /\ M!Lower(s) \in Segs(m) /\ M!Upper(s) \in Segs(m)
  <2>1. s[1] < s[2]
    BY DEF Proper
  <2> QED
    BY <2>1, SegmentIs
<1>2. ASSUME NEW h \in Segs(m), p[h] = "done", NEW t \in Segs(m), p[t] # "idle", Inside(t, h)
      PROVE  p[t] \in {"done", "exited"}
  BY <1>2 DEF Within
<1>3. ASSUME NEW t \in Segs(m), t # s, p[t] # "idle", Inside(t, s) PROVE p[t] \in {"done", "exited"}
  <2>1. Inside(t, M!Lower(s)) \/ Inside(t, M!Upper(s))
    <3>1. t[1] <= t[2]
      BY <1>3 DEF Proper
    <3>2. ~Apart(s, t)
      BY <1>3, <3>1, SegmentIs DEF Apart, Inside
    <3>3. ~Inside(s, t)
      <4>1. Inside(s, t) => s[1] = t[1] /\ s[2] = t[2]
        BY <1>3, SegmentIs DEF Inside
      <4> QED
        BY <1>3, <4>1, SameSegment
    <3> QED
      BY <1>3, <3>2, <3>3, NestedIs
  <2>2. CASE Inside(t, M!Upper(s))
    BY <1>1, <1>2, <1>3, <2>2
  <2>3. CASE Inside(t, M!Lower(s))
    <3>1. CASE v # "threaded"
      BY <1>3, <2>3, <3>1 DEF Within
    <3>2. CASE p[M!Lower(s)] = "done"
      BY <1>1, <1>2, <1>3, <2>3, <3>2
    <3> QED
      BY <3>1, <3>2
  <2> QED
    BY <2>1, <2>2, <2>3
<1> QED
  BY <1>3

LEMMA InsideOthers ==
    ASSUME NEW m \in Nat, NEW v, NEW p, Within(m, v, p), NEW s \in Segs(m), p[s] \in {"start", "merge", "done"}
    PROVE  \A t \in Segs(m) : t # s /\ p[t] # "idle" /\ Inside(t, s) => p[t] \in {"done", "exited"}
  BY DEF Within

(* The segments with one end, the first of them, and a child that exits    *)
(* with all of them.                                                       *)
Ending(m, p, s) == {t \in Segs(m) : t[2] = s[2] /\ p[t] # "idle"}

LEMMA FirstEnding ==
    ASSUME NEW m \in Nat, NEW p, NEW s \in Segs(m), p[s] # "idle"
    PROVE  \E t \in Ending(m, p, s) : \A w \in Ending(m, p, s) : t[1] <= w[1]
<1> DEFINE Begins == {t[1] : t \in Ending(m, p, s)}
<1>1. Begins \in SUBSET Nat /\ s[1] \in Begins
  BY SegmentIs DEF Ending
<1>2. PICK j \in Begins : \A k \in Begins : j <= k
  <2> HIDE DEF Begins
  <2> QED
    BY <1>1, Least
<1>3. PICK t \in Ending(m, p, s) : j = t[1]
  BY <1>2
<1> QED
  BY <1>2, <1>3

Exits(m, p, s, f, q) ==
    /\ s \in Segs(m) /\ f \in Ending(m, p, s) /\ \A w \in Ending(m, p, s) : f[1] <= w[1]
    /\ q = [t \in Segs(m) |-> IF t[2] = s[2] /\ p[t] # "idle"
                              THEN IF t = f THEN "exited" ELSE "idle" ELSE p[t]]

LEMMA ExitKeepsTree ==
    ASSUME NEW m \in Nat, NEW v, NEW p, NEW q, NEW s, NEW f, v # "threaded", p[s] = "start",
           Proper(m, v, p), Nested(m, p), Within(m, v, p), OneAtWork(m, v, p), Exits(m, p, s, f, q)
    PROVE  Proper(m, v, q) /\ Nested(m, q) /\ Within(m, v, q) /\ OneAtWork(m, v, q)
<1>1. /\ s \in Segs(m) /\ f \in Segs(m) /\ f[2] = s[2] /\ p[f] # "idle" /\ q[f] = "exited"
      /\ \A t \in Segs(m) : t[2] = s[2] /\ p[t] # "idle" => f[1] <= t[1]
      /\ \A t \in Segs(m) : t[2] = s[2] /\ p[t] # "idle" /\ t # f => q[t] = "idle"
      /\ \A t \in Segs(m) : ~(t[2] = s[2] /\ p[t] # "idle") => q[t] = p[t]
  BY DEF Exits, Ending
<1>2. ASSUME NEW t \in Segs(m), q[t] # "idle", t # f PROVE q[t] = p[t] /\ t[2] # s[2] /\ p[t] # "idle"
  BY <1>1, <1>2
<1>3. Inside(s, f)
  BY <1>1, SegmentIs DEF Inside
<1>4. ASSUME NEW t \in Segs(m), t # f, q[t] # "idle", Inside(t, f) PROVE q[t] \in {"done", "exited"}
  <2>1. q[t] = p[t] /\ t[2] # s[2] /\ p[t] # "idle" /\ t # s
    BY <1>1, <1>2, <1>4
  <2>2. CASE p[t] \in Underway
    <3>1. p[s] \in Underway
      BY DEF Underway
    <3>2. Inside(s, t) \/ Inside(t, s)
      BY <1>1, <2>2, <3>1 DEF OneAtWork
    <3>3. ~Inside(s, t)
      BY <1>1, <1>4, <2>1, SegmentIs DEF Inside
    <3> QED
      BY <1>1, <2>1, <3>2, <3>3 DEF Within
  <2>3. CASE p[t] \in {"joined", "undefined"}
    <3>1. t = <<1, m>>
      BY <2>3 DEF Proper
    <3>2. t[2] = m
      BY <3>1
    <3>3. f[2] = m
      BY <1>1, <1>4, <3>2, SegmentIs DEF Inside
    <3> QED
      BY <1>1, <2>1, <3>2, <3>3
  <2> QED
    BY <2>1, <2>2, <2>3 DEF Proper
<1>5. Proper(m, v, q)
  <2>1. q \in [Segs(m) -> Underway \cup {"idle", "done", "joined", "exited", "undefined"}]
    <3>1. \A t \in Segs(m) : p[t] \in Underway \cup {"idle", "done", "joined", "exited", "undefined"}
      BY DEF Proper
    <3> QED
      BY <3>1 DEF Exits
  <2>2. ASSUME NEW t \in Segs(m)
        PROVE  /\ q[t] # "idle" => t[1] <= t[2]
               /\ q[t] \in {"upper", "wait", "join", "merge"} => t[1] < t[2]
               /\ q[t] \in {"upper", "merge"} => v = "threaded"
               /\ q[t] \in {"wait", "exited"} => v # "threaded"
               /\ q[t] \in {"joined", "undefined"} => t = <<1, m>>
    <3>1. CASE t = f
      <4>1. f[1] <= f[2]
        BY <1>1 DEF Proper
      <4> QED
        BY <1>1, <3>1, <4>1
    <3>2. CASE t # f /\ q[t] = "idle"
      BY <3>2
    <3>3. CASE t # f /\ q[t] # "idle"
      BY <1>2, <3>3 DEF Proper
    <3> QED
      BY <3>1, <3>2, <3>3
  <2> QED
    BY <2>1, <2>2 DEF Proper
<1>6. \A t \in Segs(m) : q[t] # "idle" => p[t] # "idle"
  BY <1>1, <1>2
<1>7. Nested(m, q)
  BY <1>6 DEF Nested
<1>8. ASSUME NEW y \in Segs(m), NEW t \in Segs(m), q[y] # "idle", q[t] # "idle", y # t, Inside(t, y)
      PROVE  /\ q[y] # "start"
             /\ q[y] \in {"upper", "wait"} => Inside(t, M!Lower(y))
             /\ q[y] \in {"merge", "done", "joined", "exited", "undefined"} => q[t] \in {"done", "exited"}
             /\ q[y] = "join" /\ v # "threaded" /\ Inside(t, M!Lower(y)) => q[t] \in {"done", "exited"}
  <2>1. p[y] # "idle" /\ p[t] # "idle"
    BY <1>6, <1>8
  <2>2. CASE y = f
    BY <1>1, <1>4, <1>8, <2>2
  <2>3. CASE y # f
    <3>1. q[y] = p[y]
      BY <1>2, <1>8, <2>3
    <3>2. q[t] = p[t] \/ q[t] = "exited"
      BY <1>1, <1>2, <1>8
    <3> QED
      BY <1>8, <2>1, <3>1, <3>2 DEF Within
  <2> QED
    BY <2>2, <2>3
<1>9. \A t \in Segs(m) : q[t] \in Underway => p[t] \in Underway
  <2>1. "exited" \notin Underway /\ "idle" \notin Underway
    BY DEF Underway
  <2> QED
    BY <1>1, <1>2, <2>1
<1>10. OneAtWork(m, v, q)
  BY <1>9 DEF OneAtWork
<1> QED
  BY <1>5, <1>7, <1>8, <1>10 DEF Within

LEMMA ExitKeepsHalves ==
    ASSUME NEW m \in Nat, NEW v, NEW p, NEW q, NEW s, NEW f, NEW x, x # {}, v # "threaded",
           Proper(m, v, q)
    PROVE  HalvesDone(m, v, q, x)
  BY DEF Proper, HalvesDone

LEMMA PermutedSame == ASSUME NEW m \in Nat, NEW f PROVE Permuted(f, f, m)
<1> DEFINE e == [k \in 1..m |-> k]
<1>1. e \in [1..m -> 1..m] /\ (\A j, k \in 1..m : e[j] = e[k] => j = k) /\ (\A k \in 1..m : f[k] = f[e[k]])
  OBVIOUS
<1> QED
  BY <1>1 DEF Permuted

LEMMA PermutedAgain ==
    ASSUME NEW m \in Nat, NEW f, NEW g, NEW h, Permuted(f, g, m), Permuted(g, h, m)
    PROVE  Permuted(f, h, m)
<1>1. PICK d \in [1..m -> 1..m] :
         (\A j, k \in 1..m : d[j] = d[k] => j = k) /\ (\A k \in 1..m : f[k] = g[d[k]])
  BY DEF Permuted
<1>2. PICK e \in [1..m -> 1..m] :
         (\A j, k \in 1..m : e[j] = e[k] => j = k) /\ (\A k \in 1..m : g[k] = h[e[k]])
  BY DEF Permuted
<1> DEFINE c == [k \in 1..m |-> e[d[k]]]
<1>3. c \in [1..m -> 1..m] /\ (\A j, k \in 1..m : c[j] = c[k] => j = k) /\ (\A k \in 1..m : f[k] = h[c[k]])
  <2>1. \A k \in 1..m : d[k] \in 1..m /\ c[k] = e[d[k]]
    BY <1>1
  <2>2. c \in [1..m -> 1..m]
    BY <1>2, <2>1
  <2>3. ASSUME NEW j \in 1..m, NEW k \in 1..m, c[j] = c[k] PROVE j = k
    <3>1. e[d[j]] = e[d[k]]
      BY <2>1, <2>3
    <3>2. d[j] = d[k]
      BY <1>2, <2>1, <3>1
    <3> QED
      BY <1>1, <3>2
  <2>4. \A k \in 1..m : f[k] = h[c[k]]
    BY <1>1, <1>2, <2>1
  <2> QED
    BY <2>2, <2>3, <2>4
<1> HIDE DEF c
<1> QED
  BY <1>3 DEF Permuted

LEMMA SortCounts == \A X : M!Cardinality(X) = Cardinality(X)
  BY DEF M!Cardinality, Cardinality

Places(f, m, w) == {k \in 1..m : f[k] = w}

(* The other order has as many of every number.                            *)
LEMMA PermutedCounts ==
    ASSUME NEW m \in Nat, NEW f, NEW g, Permuted(f, g, m), NEW w
    PROVE  Cardinality(Places(f, m, w)) = Cardinality(Places(g, m, w))
<1>1. PICK e \in [1..m -> 1..m] :
         (\A j, k \in 1..m : e[j] = e[k] => j = k) /\ (\A k \in 1..m : f[k] = g[e[k]])
  BY DEF Permuted
<1> DEFINE X == {k \in 1..m : f[k] = w}
           Y == {k \in 1..m : g[k] = w}
           d == [k \in X |-> e[k]]
<1>2. \A y \in 1..m : \E k \in 1..m : e[k] = y
  <2>1. IsFiniteSet(1..m)
    BY FS_Interval
  <2>2. e \in Injection(1..m, 1..m)
    BY <1>1, Fun_IsInj
  <2>3. e \in Surjection(1..m, 1..m)
    BY <2>1, <2>2, FS_Injection
  <2> QED
    BY <2>3 DEF Surjection
<1>3. d \in Bijection(X, Y)
  <2>1. d \in [X -> Y]
    BY <1>1
  <2>2. \A j, k \in X : d[j] = d[k] => j = k
    BY <1>1
  <2>3. ASSUME NEW y \in Y PROVE \E k \in X : d[k] = y
    <3>1. PICK k \in 1..m : e[k] = y
      BY <1>2
    <3>2. k \in X
      BY <1>1, <3>1
    <3> QED
      BY <3>1, <3>2
  <2> HIDE DEF d, X, Y
  <2> QED
    BY <2>1, <2>2, <2>3, Fun_IsBij
<1>4. IsFiniteSet(X)
  BY FS_Interval, FS_Subset
<1> HIDE DEF d, X, Y
<1>5. ExistsBijection(X, Y)
  BY <1>3 DEF ExistsBijection
<1>6. Cardinality(Y) = Cardinality(X)
  BY <1>4, <1>5, FS_Bijection
<1> QED
  BY <1>6 DEF X, Y, Places

LEMMA PermutedBag ==
    ASSUME NEW f, NEW g, Len(f) \in Nat, Len(g) = Len(f), Permuted(f, g, Len(f))
    PROVE  M!SameBag(f, g)
<1>1. ASSUME NEW w PROVE M!Count(f, w) = M!Count(g, w)
  <2>1. M!Count(f, w) = Cardinality(Places(f, Len(f), w))
    BY SortCounts DEF M!Count, Places
  <2>2. M!Count(g, w) = Cardinality(Places(g, Len(f), w))
    BY SortCounts DEF M!Count, Places
  <2>3. PICK m \in Nat : m = Len(f)
    OBVIOUS
  <2>4. Cardinality(Places(f, m, w)) = Cardinality(Places(g, m, w))
    <3>1. Permuted(f, g, m)
      BY <2>3, Zenon
    <3> QED
      BY <2>3, <3>1, PermutedCounts
  <2> QED
    BY <2>1, <2>2, <2>3, <2>4
<1> QED
  BY <1>1 DEF M!SameBag

(* Sorting: the rank of a cell among those of the segment.                 *)
Earlier(a, j, k) == a[j] < a[k] \/ (a[j] = a[k] /\ j < k)

Before(a, s, k) == {j \in s[1]..s[2] : Earlier(a, j, k)}

LEMMA RanksDiffer ==
    ASSUME NEW a, NEW s, s[1] \in Int, s[2] \in Int, \A k \in s[1]..s[2] : a[k] \in Int
    PROVE  \A j, k \in s[1]..s[2] :
              Earlier(a, j, k) => Cardinality(Before(a, s, j)) < Cardinality(Before(a, s, k))
<1>1. ASSUME NEW j \in s[1]..s[2], NEW k \in s[1]..s[2], Earlier(a, j, k)
      PROVE  Cardinality(Before(a, s, j)) < Cardinality(Before(a, s, k))
  <2>1. Before(a, s, j) \subseteq Before(a, s, k)
    BY <1>1 DEF Before, Earlier
  <2>2. j \in Before(a, s, k) /\ j \notin Before(a, s, j)
    BY <1>1 DEF Before, Earlier
  <2>3. IsFiniteSet(Before(a, s, k))
    <3>1. Before(a, s, k) \subseteq s[1]..s[2] /\ IsFiniteSet(s[1]..s[2])
      BY FS_Interval DEF Before
    <3> QED
      BY <3>1, FS_Subset
  <2>4. /\ IsFiniteSet(Before(a, s, j)) /\ Cardinality(Before(a, s, j)) <= Cardinality(Before(a, s, k))
        /\ Cardinality(Before(a, s, j)) # Cardinality(Before(a, s, k))
    <3>1. Before(a, s, j) # Before(a, s, k)
      BY <2>2
    <3> QED
      BY <2>1, <2>3, <3>1, FS_Subset
  <2>5. Cardinality(Before(a, s, j)) \in Nat /\ Cardinality(Before(a, s, k)) \in Nat
    BY <2>3, <2>4, FS_CardinalityType
  <2> QED
    BY <2>4, <2>5
<1> QED
  BY <1>1

LEMMA RanksTaken ==
    ASSUME NEW a, NEW s, s[1] \in Int, s[2] \in Int, s[1] <= s[2], \A k \in s[1]..s[2] : a[k] \in Int,
           NEW r \in 0..(s[2] - s[1])
    PROVE  \E j \in s[1]..s[2] : Cardinality(Before(a, s, j)) = r
<1> DEFINE I == s[1]..s[2]
           R == 0..(s[2] - s[1])
           rank == [k \in I |-> Cardinality(Before(a, s, k))]
<1>1. IsFiniteSet(I) /\ Cardinality(I) = s[2] - s[1] + 1 /\ IsFiniteSet(R) /\ Cardinality(R) = s[2] - s[1] + 1
  <2>1. PICK l \in Int, h \in Int : l = s[1] /\ h = s[2] /\ l <= h
    OBVIOUS
  <2>2. IsFiniteSet(l..h) /\ Cardinality(l..h) = h - l + 1
    <3>1. IsFiniteSet(l..h) /\ Cardinality(l..h) = IF l > h THEN 0 ELSE h - l + 1
      BY <2>1, FS_Interval
    <3> QED
      BY <2>1, <3>1
  <2>3. h - l \in Int /\ h - l >= 0
    BY <2>1
  <2>4. IsFiniteSet(0..(h - l)) /\ Cardinality(0..(h - l)) = h - l + 1
    <3>1. PICK w \in Int, o \in Int : w = h - l /\ w >= 0 /\ o = 0
      BY <2>3
    <3>2. IsFiniteSet(o..w) /\ Cardinality(o..w) = IF o > w THEN 0 ELSE w - o + 1
      BY <3>1, FS_Interval
    <3> QED
      BY <3>1, <3>2
  <2> QED
    BY <2>1, <2>2, <2>4
<1>2. ASSUME NEW k \in I PROVE rank[k] \in R
  <2>1. Before(a, s, k) \subseteq I \ {k}
    BY DEF Before, Earlier
  <2>2. IsFiniteSet(I \ {k}) /\ Cardinality(I \ {k}) = s[2] - s[1]
    <3>1. IsFiniteSet(I \ {k}) /\ Cardinality(I \ {k}) = Cardinality(I) - 1
      <4> HIDE DEF I
      <4> QED
        BY <1>1, <1>2, FS_RemoveElement
    <3> QED
      BY <1>1, <3>1
  <2>3. IsFiniteSet(Before(a, s, k)) /\ Cardinality(Before(a, s, k)) <= s[2] - s[1]
    <3> HIDE DEF I
    <3> QED
      BY <2>1, <2>2, FS_Subset
  <2>4. Cardinality(Before(a, s, k)) \in Nat
    BY <2>3, FS_CardinalityType
  <2> QED
    BY <2>3, <2>4
<1>3. ASSUME NEW j \in I, NEW k \in I, rank[j] = rank[k] PROVE j = k
  <2>1. Cardinality(Before(a, s, j)) = Cardinality(Before(a, s, k)) /\ Cardinality(Before(a, s, k)) \in Int
    <3>1. rank[j] = Cardinality(Before(a, s, j)) /\ rank[k] = Cardinality(Before(a, s, k))
      OBVIOUS
    <3>2. rank[k] \in R
      BY <1>2
    <3>3. rank[k] \in Int
      BY <3>2
    <3> QED
      BY <1>3, <3>1, <3>3
  <2>2. ~Earlier(a, j, k) /\ ~Earlier(a, k, j)
    BY <2>1, RanksDiffer
  <2> QED
    BY <2>2 DEF Earlier
<1>4. rank \in [I -> R]
  BY <1>2
<1> HIDE DEF I, R, rank
<1>5. rank \in Injection(I, R)
  BY <1>3, <1>4, Fun_IsInj
<1>6. rank \in Surjection(I, R)
  BY <1>1, <1>5, FS_Injection
<1>7. PICK j \in I : rank[j] = r
  BY <1>6 DEF Surjection, R
<1> QED
  BY <1>7 DEF I, rank

(* r is a, but the cells of s are in another order.                        *)
Rearranged(r, a, s, m) ==
    /\ r \in Seq(Int) /\ Len(r) = m /\ Permuted(r, a, m)
    /\ \A k \in 1..m : k \notin s[1]..s[2] => r[k] = a[k]

Through(a, e, s, m) == [k \in 1..m |-> IF k \in s[1]..s[2] THEN a[e[k]] ELSE a[k]]

(* It is enough to say which cell of the segment each comes from.          *)
LEMMA RearrangedIs ==
    ASSUME NEW m \in Nat, NEW a \in Seq(Int), Len(a) = m, NEW s \in Segs(m), NEW r, NEW e,
           r = Through(a, e, s, m),
           \A k \in s[1]..s[2] : e[k] \in s[1]..s[2],
           \A j, k \in s[1]..s[2] : e[j] = e[k] => j = k
    PROVE  Rearranged(r, a, s, m)
<1> DEFINE d == [k \in 1..m |-> IF k \in s[1]..s[2] THEN e[k] ELSE k]
<1>1. s[1] \in 1..m /\ s[2] \in 1..m
  BY SegmentIs
<1>2. \A k \in s[1]..s[2] : k \in 1..m
  BY <1>1
<1>3. d \in [1..m -> 1..m]
  BY <1>1, <1>2
<1>4. ASSUME NEW j \in 1..m, NEW k \in 1..m, d[j] = d[k] PROVE j = k
  BY <1>4
<1>5. r = [k \in 1..m |-> a[d[k]]] /\ \A k \in 1..m : r[k] = a[d[k]]
  BY DEF Through
<1>6. Permuted(r, a, m)
  <2> HIDE DEF d
  <2> QED
    BY <1>3, <1>4, <1>5 DEF Permuted
<1>7. r \in Seq(Int) /\ Len(r) = m
  <2>1. \A k \in 1..m : a[d[k]] \in Int
    <3> HIDE DEF d
    <3> QED
      BY <1>3
  <2>2. r \in [1..m -> Int]
    BY <1>5, <2>1
  <2> QED
    BY <2>2
<1>8. \A k \in 1..m : k \notin s[1]..s[2] => r[k] = a[k]
  BY DEF Through
<1> QED
  BY <1>6, <1>7, <1>8 DEF Rearranged

LEMMA SortedIs ==
    ASSUME NEW m \in Nat, NEW a \in Seq(Int), Len(a) = m, NEW s \in Segs(m), s[1] <= s[2]
    PROVE  Rearranged(M!Sorted(a, s), a, s, m) /\ Ascending(M!Sorted(a, s), s)
<1> DEFINE Rank(j) == M!Cardinality({w \in s[1]..s[2] : a[w] < a[j] \/ (a[w] = a[j] /\ w < j)})
           From(k) == CHOOSE j \in s[1]..s[2] : Rank(j) = k - s[1]
           e == [k \in s[1]..s[2] |-> From(k)]
           r == M!Sorted(a, s)
<1>1. s[1] \in 1..m /\ s[2] \in 1..m /\ \A k \in s[1]..s[2] : k \in 1..m /\ a[k] \in Int
  <2>1. s[1] \in 1..m /\ s[2] \in 1..m
    BY SegmentIs
  <2> QED
    BY <2>1
<1>2. r = [k \in 1..Len(a) |-> IF k \notin s[1]..s[2] THEN a[k] ELSE a[From(k)]]
  BY DEF M!Sorted
<1>3. \A j : Rank(j) = Cardinality(Before(a, s, j))
  BY SortCounts DEF Before, Earlier
<1> HIDE DEF Rank
<1>4. ASSUME NEW k \in s[1]..s[2] PROVE From(k) \in s[1]..s[2] /\ Rank(From(k)) = k - s[1]
  <2>1. k - s[1] \in 0..(s[2] - s[1])
    BY <1>1
  <2>2. \E j \in s[1]..s[2] : Cardinality(Before(a, s, j)) = k - s[1]
    BY <1>1, <2>1, RanksTaken, SMTT(30)
  <2>3. \E j \in s[1]..s[2] : Rank(j) = k - s[1]
    BY <1>3, <2>2
  <2> QED
    BY <2>3
<1>5. \A k \in s[1]..s[2] : e[k] = From(k)
  OBVIOUS
<1> HIDE DEF From
<1>6. \A k \in s[1]..s[2] : e[k] \in s[1]..s[2] /\ Rank(e[k]) = k - s[1]
  BY <1>4, <1>5
<1>7. r = [k \in 1..m |-> IF k \in s[1]..s[2] THEN a[e[k]] ELSE a[k]]
  BY <1>2, <1>5
<1> HIDE DEF e, r
<1>8. ASSUME NEW j \in s[1]..s[2], NEW k \in s[1]..s[2], e[j] = e[k] PROVE j = k
  <2>1. j - s[1] = k - s[1]
    BY <1>6, <1>8
  <2> QED
    BY <1>1, <2>1
<1>9. Rearranged(r, a, s, m)
  <2>1. r = Through(a, e, s, m)
    BY <1>7 DEF Through
  <2>2. \A k \in s[1]..s[2] : e[k] \in s[1]..s[2]
    BY <1>6
  <2> QED
    BY <1>8, <2>1, <2>2, RearrangedIs
<1>10. ASSUME NEW j \in s[1]..s[2], NEW k \in s[1]..s[2], j < k PROVE r[j] <= r[k]
  <2>1. r[j] = a[e[j]] /\ r[k] = a[e[k]] /\ a[e[j]] \in Int /\ a[e[k]] \in Int
    BY <1>1, <1>6, <1>7
  <2>2. ~Earlier(a, e[k], e[j])
    <3>1. ~(Cardinality(Before(a, s, e[k])) < Cardinality(Before(a, s, e[j])))
      <4>1. Cardinality(Before(a, s, e[k])) = k - s[1] /\ Cardinality(Before(a, s, e[j])) = j - s[1]
        BY <1>3, <1>6
      <4> QED
        BY <1>1, <1>10, <4>1
    <3>2. \A x, y \in s[1]..s[2] :
             Earlier(a, x, y) => Cardinality(Before(a, s, x)) < Cardinality(Before(a, s, y))
      <4>1. s[1] \in Int /\ s[2] \in Int /\ \A w \in s[1]..s[2] : a[w] \in Int
        BY <1>1
      <4> QED
        BY <4>1, RanksDiffer
    <3> QED
      BY <1>6, <3>1, <3>2
  <2> QED
    BY <2>1, <2>2 DEF Earlier
<1> QED
  BY <1>9, <1>10 DEF r, Ascending

(* Merging: from which half the k-th is taken, x having come from p so far.*)
Takes(p, q, x, k) ==
    LET y == k - 1 - x
    IN  IF y = Len(q) \/ (x < Len(p) /\ p[x + 1] <= q[y + 1]) THEN x + 1 ELSE x

Taking(p, q, f, m) == f = [k \in 0..m |-> IF k = 0 THEN 0 ELSE Takes(p, q, f[k - 1], k)]

Yield(p, q, f, m) == [k \in 1..m |-> IF f[k] > f[k - 1] THEN p[f[k]] ELSE q[k - f[k]]]

LEMMA TakingExists ==
    ASSUME NEW p, NEW q, NEW m \in Nat
    PROVE  \E f : Taking(p, q, f, m)
<1> DEFINE Bad == {j \in Nat : ~\E f : Taking(p, q, f, j)}
<1>1. ASSUME NEW j \in Bad, \A k \in Bad : j <= k PROVE FALSE
  <2>1. j \in Nat /\ ~\E f : Taking(p, q, f, j)
    OBVIOUS
  <2>2. CASE j = 0
    <3> DEFINE g == [k \in 0..0 |-> 0]
    <3>1. Taking(p, q, g, 0)
      BY DEF Taking
    <3> QED
      BY <2>1, <2>2, <3>1
  <2>3. CASE j # 0
    <3>1. j - 1 \in Nat /\ j - 1 \notin Bad
      <4>1. j - 1 \in Nat /\ ~(j <= j - 1)
        BY <2>1, <2>3
      <4> QED
        BY <1>1, <4>1
    <3>2. PICK f : Taking(p, q, f, j - 1)
      BY <3>1
    <3> DEFINE g == [k \in 0..j |-> IF k = j THEN Takes(p, q, f[j - 1], j) ELSE f[k]]
    <3>3. ASSUME NEW k \in 0..j PROVE g[k] = IF k = 0 THEN 0 ELSE Takes(p, q, g[k - 1], k)
      <4>1. CASE k = j
        <5>1. g[k - 1] = f[j - 1] /\ k # 0
          BY <2>1, <2>3, <4>1
        <5> QED
          BY <4>1, <5>1
      <4>2. CASE k # j
        <5>1. k \in 0..(j - 1) /\ g[k] = f[k] /\ (k # 0 => g[k - 1] = f[k - 1])
          BY <2>1, <4>2
        <5>2. f[k] = IF k = 0 THEN 0 ELSE Takes(p, q, f[k - 1], k)
          BY <3>2, <5>1 DEF Taking
        <5> QED
          BY <5>1, <5>2
      <4> QED
        BY <4>1, <4>2
    <3>4. g = [k \in 0..j |-> g[k]]
      OBVIOUS
    <3> HIDE DEF g
    <3>5. Taking(p, q, g, j)
      BY <3>3, <3>4 DEF Taking
    <3> QED
      BY <2>1, <3>5
  <2> QED
    BY <2>2, <2>3
<1>2. Bad = {}
  <2>1. Bad \in SUBSET Nat
    OBVIOUS
  <2> HIDE DEF Bad
  <2> QED
    BY <1>1, <2>1, Least
<1> QED
  BY <1>2

LEMMA MergeTakes ==
    ASSUME NEW p, NEW q, Len(p) \in Nat, Len(q) \in Nat
    PROVE  \E f : /\ Taking(p, q, f, Len(p) + Len(q))
                  /\ M!Merge(p, q) = Yield(p, q, f, Len(p) + Len(q))
<1> DEFINE Solves(f) == f = [k \in 0..(Len(p) + Len(q)) |->
                                IF k = 0 THEN 0
                                ELSE LET x == f[k - 1]
                                         y == k - 1 - x
                                     IN  IF y = Len(q) \/ (x < Len(p) /\ p[x + 1] <= q[y + 1])
                                         THEN x + 1 ELSE x]
           taken == CHOOSE f : Solves(f)
<1>1. M!Merge(p, q) = Yield(p, q, taken, Len(p) + Len(q))
  BY DEF M!Merge, Yield
<1>2. \A f : Solves(f) <=> Taking(p, q, f, Len(p) + Len(q))
  BY DEF Taking, Takes
<1> HIDE DEF Solves
<1>3. \E f : Solves(f)
  <2>1. PICK m \in Nat : m = Len(p) + Len(q)
    OBVIOUS
  <2>2. \E f : Taking(p, q, f, m)
    BY <2>1, TakingExists
  <2> QED
    BY <1>2, <2>1, <2>2
<1>4. Solves(taken)
  BY <1>3
<1> HIDE DEF taken
<1> QED
  BY <1>1, <1>2, <1>4

LEMMA TakingStays ==
    ASSUME NEW p, NEW q, Len(p) \in Nat, Len(q) \in Nat, NEW f, Taking(p, q, f, Len(p) + Len(q))
    PROVE  /\ f[0] = 0
           /\ \A k \in 0..(Len(p) + Len(q)) : f[k] \in 0..Len(p) /\ k - f[k] \in 0..Len(q)
           /\ \A k \in 1..(Len(p) + Len(q)) : f[k] = Takes(p, q, f[k - 1], k)
<1>1. PICK m \in Nat, lp \in Nat, lq \in Nat : lp = Len(p) /\ lq = Len(q) /\ m = lp + lq
  OBVIOUS
<1>2. \A k \in 0..m : f[k] = IF k = 0 THEN 0 ELSE Takes(p, q, f[k - 1], k)
  BY <1>1 DEF Taking
<1>3. f[0] = 0
  BY <1>1, <1>2
<1>4. \A k \in 1..m : f[k] = Takes(p, q, f[k - 1], k)
  BY <1>1, <1>2
<1> DEFINE Bad == {k \in 0..m : ~(f[k] \in 0..lp /\ k - f[k] \in 0..lq)}
<1> HIDE DEF Bad
<1>5. ASSUME NEW j \in Bad, \A k \in Bad : j <= k PROVE FALSE
  <2>1. j \in 0..m /\ ~(f[j] \in 0..lp /\ j - f[j] \in 0..lq)
    BY DEF Bad
  <2>2. j # 0
    BY <1>1, <1>3, <2>1
  <2>3. j - 1 \in 0..m /\ ~(j <= j - 1) /\ j \in 1..m
    BY <1>1, <2>1, <2>2
  <2>4. j - 1 \notin Bad
    BY <1>5, <2>3
  <2>5. f[j - 1] \in 0..lp /\ j - 1 - f[j - 1] \in 0..lq
    BY <2>3, <2>4 DEF Bad
  <2>6. PICK x \in Nat, y \in Nat : x = f[j - 1] /\ y = j - 1 - f[j - 1] /\ x + y = j - 1 /\ x <= lp /\ y <= lq
    BY <1>1, <2>3, <2>5
  <2>7. f[j] = IF y = lq \/ (x < lp /\ p[x + 1] <= q[y + 1]) THEN x + 1 ELSE x
    BY <1>1, <1>4, <2>3, <2>6 DEF Takes
  <2>8. CASE f[j] = x + 1
    <3>1. y = lq => x < lp
      BY <1>1, <2>3, <2>6
    <3>2. x < lp
      BY <2>6, <2>7, <2>8, <3>1
    <3>3. x + 1 \in 0..lp /\ j - (x + 1) \in 0..lq
      <4>1. x + 1 <= lp
        BY <1>1, <2>6, <3>2
      <4>2. j - (x + 1) = y
        <5>1. PICK c \in Int : c = j
          BY <1>1, <2>1
        <5>2. x + y = c - 1
          BY <2>6, <5>1
        <5>3. c - (x + 1) = y
          <6>1. \A g, h, o \in Int : g + h = o - 1 => o - (g + 1) = h
            OBVIOUS
          <6>2. x \in Int /\ y \in Int
            BY <2>6
          <6> QED
            BY <5>1, <5>2, <6>1, <6>2
        <5> QED
          BY <5>1, <5>3
      <4>3. x + 1 \in 0..lp
        BY <1>1, <2>6, <4>1, SMTT(30)
      <4>4. y \in 0..lq
        BY <1>1, <2>6
      <4> QED
        BY <4>2, <4>3, <4>4
    <3> QED
      BY <2>1, <2>8, <3>3
  <2>9. CASE f[j] = x /\ y # lq
    <3>1. j - x \in 0..lq
      <4>1. PICK c \in Int : c = j
        BY <1>1, <2>1
      <4>2. x + y = c - 1 /\ y + 1 <= lq
        BY <1>1, <2>6, <2>9, <4>1
      <4>3. \A g, h, o, w \in Int : g + h = o - 1 /\ h + 1 <= w /\ h >= 0 => o - g \in 0..w
        OBVIOUS
      <4>4. x \in Int /\ y \in Int /\ y >= 0 /\ lq \in Int
        BY <1>1, <2>6
      <4> QED
        BY <4>1, <4>2, <4>3, <4>4
    <3> QED
      BY <2>1, <2>6, <2>9, <3>1
  <2>10. f[j] = x + 1 \/ (f[j] = x /\ y # lq)
    BY <2>7
  <2> QED
    BY <2>8, <2>9, <2>10
<1>6. Bad = {}
  <2>1. Bad \in SUBSET Nat
    BY <1>1 DEF Bad
  <2> QED
    BY <1>5, <2>1, Least
<1>7. \A k \in 0..m : f[k] \in 0..lp /\ k - f[k] \in 0..lq
  BY <1>6 DEF Bad
<1> QED
  BY <1>1, <1>3, <1>4, <1>7

LEMMA TakingGrows ==
    ASSUME NEW p, NEW q, Len(p) \in Nat, Len(q) \in Nat, NEW f, Taking(p, q, f, Len(p) + Len(q)),
           NEW j \in 0..(Len(p) + Len(q)), NEW k \in 0..(Len(p) + Len(q)), j <= k
    PROVE  f[j] <= f[k] /\ j - f[j] <= k - f[k]
<1>1. PICK m \in Nat, lp \in Nat, lq \in Nat : lp = Len(p) /\ lq = Len(q) /\ m = lp + lq
  OBVIOUS
<1>2. \A w \in 0..m : f[w] \in Nat /\ w - f[w] \in Nat
  BY <1>1, TakingStays
<1>3. ASSUME NEW w \in 1..m PROVE f[w] \in {f[w - 1], f[w - 1] + 1}
  <2>1. f[w] = Takes(p, q, f[w - 1], w)
    BY <1>1, TakingStays
  <2> QED
    BY <2>1 DEF Takes
<1> DEFINE Bad == {w \in j..m : ~(f[j] <= f[w] /\ j - f[j] <= w - f[w])}
<1>4. ASSUME NEW w \in Bad, \A x \in Bad : w <= x PROVE FALSE
  <2>1. w \in 0..m /\ w >= j /\ ~(f[j] <= f[w] /\ j - f[j] <= w - f[w]) /\ j \in 0..m
    BY <1>1
  <2>2. f[j] \in Nat /\ f[w] \in Nat
    BY <1>2, <2>1
  <2>3. w # j
    BY <2>1, <2>2
  <2>4. w - 1 \in j..m /\ ~(w <= w - 1) /\ w \in 1..m /\ w - 1 \in 0..m
    BY <1>1, <2>1, <2>3
  <2>5. w - 1 \notin Bad
    BY <1>4, <2>4
  <2>6. f[j] <= f[w - 1] /\ j - f[j] <= w - 1 - f[w - 1] /\ f[w - 1] \in Nat
    BY <1>2, <2>4, <2>5
  <2>7. f[w] = f[w - 1] \/ f[w] = f[w - 1] + 1
    BY <1>3, <2>4
  <2>8. PICK fj \in Nat, fv \in Nat, fw \in Nat : fj = f[j] /\ fv = f[w - 1] /\ fw = f[w]
    BY <2>2, <2>6
  <2>9. fj <= fv /\ j - fj <= w - 1 - fv /\ (fw = fv \/ fw = fv + 1) /\ ~(fj <= fw /\ j - fj <= w - fw)
    BY <2>1, <2>6, <2>7, <2>8
  <2>10. PICK a \in Int, c \in Int : a = j /\ c = w
    BY <2>1
  <2>11. fj <= fv /\ a - fj <= c - 1 - fv /\ (fw = fv \/ fw = fv + 1) /\ ~(fj <= fw /\ a - fj <= c - fw)
    BY <2>9, <2>10
  <2>12. \A g, h, o \in Nat : g <= h /\ a - g <= c - 1 - h /\ (o = h \/ o = h + 1) => g <= o /\ a - g <= c - o
    BY <2>10
  <2> QED
    BY <2>8, <2>11, <2>12
<1>5. Bad = {}
  <2>1. Bad \in SUBSET Nat
    BY <1>1
  <2> HIDE DEF Bad
  <2> QED
    BY <1>4, <2>1, Least
<1>6. k \in j..m
  BY <1>1
<1> QED
  BY <1>5, <1>6

LEMMA StepLeft ==
    ASSUME NEW g \in Int, NEW h \in Int, NEW o \in Int, NEW c \in Int, g = h - o, c <= h - 1 - o
    PROVE  c + 1 <= g
  OBVIOUS

LEMMA StepInto ==
    ASSUME NEW g \in Int, NEW h \in Int, g >= 0, g < h
    PROVE  g + 1 \in 1..h /\ g + 1 > g /\ g + 1 \in Nat
  OBVIOUS

LEMMA StepInside ==
    ASSUME NEW g \in Int, NEW h \in Int, g + 1 >= 1, g + 1 <= h
    PROVE  g + 1 \in 1..h /\ g # h /\ g < h
  OBVIOUS

LEMMA StepOver == ASSUME NEW g \in Int, NEW h \in Int, g <= h PROVE g + 1 <= h + 1
  OBVIOUS

LEMMA StepUnder == ASSUME NEW g \in Int, NEW h \in Int, NEW o \in Int, g <= h, h <= o PROVE g <= o
  OBVIOUS

LEMMA StepBack == ASSUME NEW g \in Int, NEW h \in Int, g + 1 <= h PROVE g <= h
  OBVIOUS

LEMMA Steps ==
    /\ \A g, h, o \in Int : g + h = o - 1 => o - (g + 1) = h /\ o - g = h + 1
    /\ \A g, h \in Int : g >= 0 /\ g < h => g + 1 \in 1..h /\ g + 1 \in Nat
    /\ \A g : g \in Int => g + 1 > g /\ ~(g > g)
    /\ \A g, h, o \in Int : g + 1 <= h /\ h \in 1..o /\ g >= 0 => g + 1 \in 1..o /\ g < o /\ g # o
    /\ \A g, h, o \in Int : g <= h - 1 => g + 1 <= h /\ g <= h
    /\ \A g : g \in Nat => g + 1 \in Nat /\ g \in Int
  OBVIOUS

TurnOfP(p, q, lp, lq, f, k) ==
    /\ f[k] > f[k - 1] /\ f[k] = f[k - 1] + 1 /\ f[k] \in 1..lp
    /\ k - f[k] = lq \/ p[f[k]] <= q[k - f[k] + 1]

TurnOfQ(p, q, lp, lq, f, k) ==
    /\ ~(f[k] > f[k - 1]) /\ f[k] = f[k - 1] /\ k - f[k] \in 1..lq
    /\ f[k] < lp => ~(p[f[k] + 1] <= q[k - f[k]])

(* A turn of the loop takes from p, or from q.                             *)
LEMMA TakingTurn ==
    ASSUME NEW p, NEW q, NEW lp \in Nat, NEW lq \in Nat, lp = Len(p), lq = Len(q),
           NEW f, Taking(p, q, f, lp + lq), NEW k \in 1..(lp + lq)
    PROVE  /\ f[k] \in Nat /\ k - f[k] \in Nat
           /\ TurnOfP(p, q, lp, lq, f, k) \/ TurnOfQ(p, q, lp, lq, f, k)
<1>1. /\ f[k - 1] \in 0..lp /\ k - 1 - f[k - 1] \in 0..lq /\ f[k] \in 0..lp /\ k - f[k] \in 0..lq
      /\ f[k] = Takes(p, q, f[k - 1], k)
  <2>1. k - 1 \in 0..(lp + lq) /\ k \in 0..(lp + lq)
    OBVIOUS
  <2> QED
    BY <2>1, TakingStays
<1>2. PICK x \in Nat, y \in Nat, c \in Int :
         x = f[k - 1] /\ y = k - 1 - f[k - 1] /\ c = k /\ x + y = c - 1 /\ x <= lp /\ y <= lq
  BY <1>1
<1>3. f[k] = IF y = lq \/ (x < lp /\ p[x + 1] <= q[y + 1]) THEN x + 1 ELSE x
  BY <1>1, <1>2 DEF Takes
<1>4. CASE y = lq \/ (x < lp /\ p[x + 1] <= q[y + 1])
  <2>1. f[k] = x + 1
    BY <1>3, <1>4
  <2>2. k - f[k] = y
    BY <1>2, <2>1, Steps, SMTT(30)
  <2>3. x + 1 \in 1..lp /\ x + 1 > x /\ x + 1 \in Nat
    <3>1. x + 1 <= lp
      BY <1>1, <2>1
    <3>2. x < lp
      BY <1>2, <3>1
    <3>3. x \in Int /\ x >= 0 /\ lp \in Int
      BY <1>2
    <3> QED
      BY <3>2, <3>3, StepInto
  <2>4. f[k] \in Nat /\ k - f[k] \in Nat
    BY <1>2, <2>1, <2>2, <2>3
  <2>5. y = lq \/ p[x + 1] <= q[y + 1]
    BY <1>4
  <2>6. TurnOfP(p, q, lp, lq, f, k)
    BY <1>2, <2>1, <2>2, <2>3, <2>5 DEF TurnOfP
  <2> QED
    BY <2>4, <2>6
<1>5. CASE ~(y = lq \/ (x < lp /\ p[x + 1] <= q[y + 1]))
  <2>1. f[k] = x
    BY <1>3, <1>5
  <2>2. k - f[k] = y + 1
    BY <1>2, <2>1, Steps, SMTT(30)
  <2>3. y + 1 \in 1..lq /\ ~(x > x) /\ y + 1 \in Nat
    <3>1. y < lq
      BY <1>2, <1>5
    <3>2. y + 1 \in 1..lq
      <4>1. y \in Int /\ y >= 0 /\ lq \in Int
        BY <1>2
      <4> QED
        BY <3>1, <4>1, StepInto
    <3>3. x \in Int /\ y \in Nat
      BY <1>2
    <3>4. ~(x > x)
      BY <3>3, Steps, Zenon
    <3>5. y + 1 \in Nat
      BY <3>3, Steps, Zenon
    <3> QED
      BY <3>2, <3>4, <3>5
  <2>4. f[k] \in Nat /\ k - f[k] \in Nat
    BY <1>2, <2>1, <2>2, <2>3
  <2>5. TurnOfQ(p, q, lp, lq, f, k)
    BY <1>2, <1>5, <2>1, <2>2, <2>3 DEF TurnOfQ
  <2> QED
    BY <2>4, <2>5
<1> QED
  BY <1>4, <1>5

(* Of two turns the later one comes from further on.                       *)
LEMMA TurnsInOrder ==
    ASSUME NEW p, NEW q, NEW lp \in Nat, NEW lq \in Nat, lp = Len(p), lq = Len(q),
           NEW f, Taking(p, q, f, lp + lq),
           NEW j \in 1..(lp + lq), NEW k \in 1..(lp + lq), j < k
    PROVE  /\ f[j] \in Nat /\ j - f[j] \in Nat /\ f[k] \in Nat /\ k - f[k] \in Nat
           /\ TurnOfP(p, q, lp, lq, f, j) \/ TurnOfQ(p, q, lp, lq, f, j)
           /\ TurnOfP(p, q, lp, lq, f, k) \/ TurnOfQ(p, q, lp, lq, f, k)
           /\ TurnOfP(p, q, lp, lq, f, k) => f[j] + 1 <= f[k]
           /\ TurnOfQ(p, q, lp, lq, f, k) => j - f[j] + 1 <= k - f[k]
<1>1. /\ f[j] \in Nat /\ j - f[j] \in Nat /\ f[k] \in Nat /\ k - f[k] \in Nat
      /\ f[j] <= f[k - 1] /\ j - f[j] <= k - 1 - f[k - 1]
  <2>1. f[j] \in Nat /\ j - f[j] \in Nat /\ f[k] \in Nat /\ k - f[k] \in Nat
    BY TakingTurn
  <2>2. j \in 0..(lp + lq) /\ k - 1 \in 0..(lp + lq) /\ j <= k - 1
    OBVIOUS
  <2> QED
    BY <2>1, <2>2, TakingGrows
<1>2. /\ TurnOfP(p, q, lp, lq, f, j) \/ TurnOfQ(p, q, lp, lq, f, j)
      /\ TurnOfP(p, q, lp, lq, f, k) \/ TurnOfQ(p, q, lp, lq, f, k)
  BY TakingTurn
<1>3. PICK x \in Nat, y \in Nat, v \in Nat, w \in Nat : x = f[j] /\ y = j - f[j] /\ v = f[k] /\ w = k - f[k]
  BY <1>1
<1>4. /\ TurnOfP(p, q, lp, lq, f, k) => x + 1 <= v
      /\ TurnOfQ(p, q, lp, lq, f, k) => y + 1 <= w
  <2>1. ASSUME TurnOfP(p, q, lp, lq, f, k) PROVE x + 1 <= v
    <3>1. f[k] > f[k - 1] /\ f[k] = f[k - 1] + 1 /\ f[k] \in 1..lp
      BY <2>1 DEF TurnOfP
    <3>2. v = f[k - 1] + 1 /\ v \in 1..lp
      BY <1>3, <3>1
    <3>3. f[k - 1] \in Int
      BY TakingStays
    <3>4. x <= f[k - 1] /\ x \in Int
      BY <1>1, <1>3
    <3>5. x + 1 <= v
      <4>1. x + 1 <= f[k - 1] + 1
        BY <3>3, <3>4, StepOver
      <4> QED
        BY <3>2, <4>1
    <3> QED
      BY <3>5
  <2>2. ASSUME TurnOfQ(p, q, lp, lq, f, k) PROVE y + 1 <= w
    <3>1. w = k - v /\ f[k - 1] = v /\ y <= k - 1 - v
      BY <1>1, <1>3, <2>2 DEF TurnOfQ
    <3>2. k \in Int
      OBVIOUS
    <3>3. y \in Int /\ v \in Int /\ w \in Int
      BY <1>3
    <3>4. y + 1 <= w
      BY <3>1, <3>2, <3>3, StepLeft
    <3> QED
      BY <3>4
  <2> QED
    BY <2>1, <2>2
<1> QED
  BY <1>1, <1>2, <1>3, <1>4

(* What is taken first is not greater, if the halves are in order.         *)
LEMMA MergeAscends ==
    ASSUME NEW p, NEW q, NEW lp \in Nat, NEW lq \in Nat, lp = Len(p), lq = Len(q),
           NEW f, Taking(p, q, f, lp + lq),
           \A x \in 1..lp : p[x] \in Int, \A y \in 1..lq : q[y] \in Int,
           \A x, y \in 1..lp : x <= y => p[x] <= p[y],
           \A x, y \in 1..lq : x <= y => q[x] <= q[y],
           NEW j \in 1..(lp + lq), NEW k \in 1..(lp + lq), j < k
    PROVE  (IF f[j] > f[j - 1] THEN p[f[j]] ELSE q[j - f[j]])
              <= (IF f[k] > f[k - 1] THEN p[f[k]] ELSE q[k - f[k]])
<1>1. /\ f[j] \in Nat /\ j - f[j] \in Nat /\ f[k] \in Nat /\ k - f[k] \in Nat
      /\ TurnOfP(p, q, lp, lq, f, j) \/ TurnOfQ(p, q, lp, lq, f, j)
      /\ TurnOfP(p, q, lp, lq, f, k) \/ TurnOfQ(p, q, lp, lq, f, k)
      /\ TurnOfP(p, q, lp, lq, f, k) => f[j] + 1 <= f[k]
      /\ TurnOfQ(p, q, lp, lq, f, k) => j - f[j] + 1 <= k - f[k]
  BY TurnsInOrder
<1>2. TurnOfP(p, q, lp, lq, f, k) => f[k] > f[k - 1] /\ f[k] \in 1..lp
  BY DEF TurnOfP
<1>3. TurnOfQ(p, q, lp, lq, f, k) => ~(f[k] > f[k - 1]) /\ k - f[k] \in 1..lq
  BY DEF TurnOfQ
<1>4. PICK x \in Nat, y \in Nat, v \in Nat, w \in Nat : x = f[j] /\ y = j - f[j] /\ v = f[k] /\ w = k - f[k]
  BY <1>1
<1>5. /\ TurnOfP(p, q, lp, lq, f, j) => /\ f[j] > f[j - 1] /\ x \in 1..lp
                                        /\ y = lq \/ p[x] <= q[y + 1]
      /\ TurnOfQ(p, q, lp, lq, f, j) => /\ ~(f[j] > f[j - 1]) /\ y \in 1..lq
                                        /\ x < lp => ~(p[x + 1] <= q[y])
  BY <1>4 DEF TurnOfP, TurnOfQ
<1>6. /\ TurnOfP(p, q, lp, lq, f, k) => f[k] > f[k - 1] /\ v \in 1..lp /\ x + 1 <= v
      /\ TurnOfQ(p, q, lp, lq, f, k) => ~(f[k] > f[k - 1]) /\ w \in 1..lq /\ y + 1 <= w
  BY <1>1, <1>2, <1>4, <1>3
<1>7. CASE TurnOfP(p, q, lp, lq, f, j) /\ TurnOfP(p, q, lp, lq, f, k)
  <2>1. x \in 1..lp /\ v \in 1..lp
    BY <1>5, <1>6, <1>7
  <2>2. x + 1 <= v
    BY <1>6, <1>7
  <2>3. x <= v
    <3>1. x \in Int /\ v \in Int
      BY <1>4
    <3> QED
      BY <2>2, <3>1, StepBack
  <2>4. p[x] <= p[v]
    BY <2>1, <2>3
  <2> QED
    BY <1>4, <1>5, <1>6, <1>7, <2>4
<1>8. CASE TurnOfQ(p, q, lp, lq, f, j) /\ TurnOfQ(p, q, lp, lq, f, k)
  <2>1. y \in 1..lq /\ w \in 1..lq
    BY <1>5, <1>6, <1>8
  <2>2. y + 1 <= w
    BY <1>6, <1>8
  <2>3. y <= w
    <3>1. y \in Int /\ w \in Int
      BY <1>4, SMTT(30)
    <3> QED
      BY <2>2, <3>1, StepBack
  <2>4. q[y] <= q[w]
    BY <2>1, <2>3
  <2> QED
    BY <1>4, <1>5, <1>6, <1>8, <2>4
<1>9. CASE TurnOfP(p, q, lp, lq, f, j) /\ TurnOfQ(p, q, lp, lq, f, k)
  <2>1. x \in 1..lp /\ w \in 1..lq /\ y + 1 <= w
    BY <1>5, <1>6, <1>9
  <2>2. y + 1 \in 1..lq /\ y # lq
    <3>1. y + 1 >= 1 /\ w <= lq
      <4>1. y \in Nat
        BY <1>4
      <4>2. y + 1 >= 1
        BY <4>1
      <4>3. w <= lq
        BY <2>1
      <4> QED
        BY <4>2, <4>3
    <3>2. y + 1 <= lq
      <4>1. y + 1 \in Int /\ w \in Int /\ lq \in Int
        BY <1>4, SMTT(30)
      <4> QED
        BY <2>1, <3>1, <4>1, StepUnder
    <3>3. y \in Int /\ lq \in Int
      BY <1>4
    <3> QED
      BY <3>1, <3>2, <3>3, StepInside
  <2>3. p[x] <= q[y + 1]
    BY <1>5, <1>9, <2>2
  <2>4. q[y + 1] <= q[w]
    BY <2>1, <2>2
  <2>5. p[x] \in Int /\ q[y + 1] \in Int /\ q[w] \in Int
    BY <2>1, <2>2
  <2>6. p[x] <= q[w]
    BY <2>3, <2>4, <2>5
  <2> QED
    BY <1>4, <1>5, <1>6, <1>9, <2>6
<1>10. CASE TurnOfQ(p, q, lp, lq, f, j) /\ TurnOfP(p, q, lp, lq, f, k)
  <2>1. y \in 1..lq /\ v \in 1..lp /\ x + 1 <= v
    BY <1>5, <1>6, <1>10
  <2>2. x + 1 \in 1..lp /\ x < lp
    <3>1. x + 1 >= 1 /\ v <= lp
      <4>1. x \in Nat
        BY <1>4
      <4>2. x + 1 >= 1
        BY <4>1
      <4>3. v <= lp
        BY <2>1
      <4> QED
        BY <4>2, <4>3
    <3>2. x + 1 <= lp
      <4>1. x + 1 \in Int /\ v \in Int /\ lp \in Int
        <5>1. x \in Nat /\ v \in Nat
          BY <1>4
        <5> QED
          BY <5>1
      <4> QED
        BY <2>1, <3>1, <4>1, StepUnder
    <3>3. x \in Int /\ lp \in Int
      BY <1>4
    <3> QED
      BY <3>1, <3>2, <3>3, StepInside
  <2>3. ~(p[x + 1] <= q[y])
    BY <1>5, <1>10, <2>2
  <2>4. p[x + 1] <= p[v]
    BY <2>1, <2>2
  <2>5. q[y] \in Int /\ p[x + 1] \in Int /\ p[v] \in Int
    BY <2>1, <2>2
  <2>6. q[y] <= p[v]
    BY <2>3, <2>4, <2>5
  <2> QED
    BY <1>4, <1>5, <1>6, <1>10, <2>6
<1> QED
  BY <1>1, <1>7, <1>8, <1>9, <1>10

(* The cell that turn j takes from.                                        *)
Place(l, g, f, j) == IF f[j] > f[j - 1] THEN l + f[j] - 1 ELSE g + (j - f[j])

LEMMA PlaceIs ==
    ASSUME NEW p, NEW q, NEW lp \in Nat, NEW lq \in Nat, lp = Len(p), lq = Len(q),
           NEW f, Taking(p, q, f, lp + lq), NEW l \in Int, NEW g \in Int, NEW h \in Int,
           lp = g - l + 1, lq = h - g
    PROVE  /\ \A j \in 1..(lp + lq) : /\ TurnOfP(p, q, lp, lq, f, j) => Place(l, g, f, j) \in l..g
                                      /\ TurnOfQ(p, q, lp, lq, f, j) => Place(l, g, f, j) \in (g + 1)..h
                                      /\ Place(l, g, f, j) \in l..h
           /\ \A j, k \in 1..(lp + lq) : j < k => Place(l, g, f, j) # Place(l, g, f, k)
<1>1. ASSUME NEW j \in 1..(lp + lq), TurnOfP(p, q, lp, lq, f, j)
      PROVE  Place(l, g, f, j) \in l..g /\ Place(l, g, f, j) = l + f[j] - 1
  <2>1. f[j] > f[j - 1] /\ f[j] \in 1..lp
    BY <1>1 DEF TurnOfP
  <2>2. Place(l, g, f, j) = l + f[j] - 1
    BY <2>1 DEF Place
  <2>3. PICK x \in 1..lp : x = f[j]
    BY <2>1
  <2>4. l + x - 1 \in l..g
    BY <2>3
  <2> QED
    BY <2>2, <2>3, <2>4
<1>2. ASSUME NEW j \in 1..(lp + lq), TurnOfQ(p, q, lp, lq, f, j)
      PROVE  Place(l, g, f, j) \in (g + 1)..h /\ Place(l, g, f, j) = g + (j - f[j])
  <2>1. ~(f[j] > f[j - 1]) /\ j - f[j] \in 1..lq
    BY <1>2 DEF TurnOfQ
  <2>2. Place(l, g, f, j) = g + (j - f[j])
    BY <2>1 DEF Place
  <2>3. PICK x \in 1..lq : x = j - f[j]
    BY <2>1
  <2>4. g + x \in (g + 1)..h
    BY <2>3
  <2> QED
    BY <2>2, <2>3, <2>4
<1>3. l <= g + 1 /\ g <= h
  OBVIOUS
<1>4. ASSUME NEW j \in 1..(lp + lq) PROVE TurnOfP(p, q, lp, lq, f, j) \/ TurnOfQ(p, q, lp, lq, f, j)
  BY TakingTurn
<1>5. ASSUME NEW j \in 1..(lp + lq) PROVE Place(l, g, f, j) \in l..h
  <2>1. \A w : w \in l..g \/ w \in (g + 1)..h => w \in l..h
    BY <1>3
  <2> QED
    BY <1>1, <1>2, <1>4, <2>1
<1>6. ASSUME NEW j \in 1..(lp + lq), NEW k \in 1..(lp + lq), j < k PROVE Place(l, g, f, j) # Place(l, g, f, k)
  <2>1. /\ f[j] \in Nat /\ j - f[j] \in Nat /\ f[k] \in Nat /\ k - f[k] \in Nat
        /\ TurnOfP(p, q, lp, lq, f, k) => f[j] + 1 <= f[k]
        /\ TurnOfQ(p, q, lp, lq, f, k) => j - f[j] + 1 <= k - f[k]
    BY <1>6, TurnsInOrder
  <2>2. PICK x \in Nat, y \in Nat, v \in Nat, w \in Nat : x = f[j] /\ y = j - f[j] /\ v = f[k] /\ w = k - f[k]
    BY <2>1
  <2>3. \A o \in Int : (x + 1 <= v => o + x - 1 # o + v - 1) /\ (y + 1 <= w => o + y # o + w)
    BY <2>2
  <2>4. \A o : ~(o \in l..g /\ o \in (g + 1)..h)
    OBVIOUS
  <2>5. CASE TurnOfP(p, q, lp, lq, f, j) /\ TurnOfP(p, q, lp, lq, f, k)
    <3>1. Place(l, g, f, j) = l + x - 1 /\ Place(l, g, f, k) = l + v - 1 /\ x + 1 <= v
      BY <1>1, <2>1, <2>2, <2>5
    <3> QED
      BY <2>3, <3>1
  <2>6. CASE TurnOfQ(p, q, lp, lq, f, j) /\ TurnOfQ(p, q, lp, lq, f, k)
    <3>1. Place(l, g, f, j) = g + y /\ Place(l, g, f, k) = g + w /\ y + 1 <= w
      BY <1>2, <2>1, <2>2, <2>6
    <3> QED
      BY <2>3, <3>1
  <2>7. CASE TurnOfP(p, q, lp, lq, f, j) /\ TurnOfQ(p, q, lp, lq, f, k)
    BY <1>1, <1>2, <2>4, <2>7
  <2>8. CASE TurnOfQ(p, q, lp, lq, f, j) /\ TurnOfP(p, q, lp, lq, f, k)
    BY <1>1, <1>2, <2>4, <2>8
  <2> QED
    BY <1>4, <2>5, <2>6, <2>7, <2>8
<1> QED
  BY <1>1, <1>2, <1>5, <1>6

LEMMA PartIs ==
    ASSUME NEW m \in Nat, NEW a \in Seq(Int), Len(a) = m, NEW l \in 1..m, NEW h \in 1..m, l <= h
    PROVE  /\ Len(SubSeq(a, l, h)) = h - l + 1
           /\ \A x \in 1..(h - l + 1) : SubSeq(a, l, h)[x] = a[l + x - 1] /\ a[l + x - 1] \in Int
<1>1. Len(SubSeq(a, l, h)) = h - l + 1 /\ \A x \in 1..(h - l + 1) : SubSeq(a, l, h)[x] = a[l + x - 1]
  <2>1. l \in 1..(Len(a) + 1) /\ h \in (l - 1)..Len(a)
    OBVIOUS
  <2> QED
    BY <2>1, SubSeqProperties
<1>2. \A x \in 1..(h - l + 1) : l + x - 1 \in 1..m
  OBVIOUS
<1> QED
  BY <1>1, <1>2

LEMMA MidNumbers ==
    ASSUME NEW m \in Nat, NEW l \in 1..m, NEW h \in 1..m, NEW g \in l..(h - 1)
    PROVE  g \in 1..m /\ l <= g /\ g < h /\ g + 1 \in 1..m /\ g + 1 <= h
  OBVIOUS

LEMMA SplitNumbers ==
    ASSUME NEW l \in Int, NEW g \in Int, NEW h \in Int, NEW x \in Int, NEW y \in Int,
           l <= g, g < h, x = g - l + 1, y = h - g
    PROVE  /\ h - (g + 1) + 1 = y
           /\ \A o \in 1..y : (g + 1) + o - 1 = g + o /\ g + o \in (g + 1)..h
           /\ \A o \in 1..x : l + o - 1 \in l..g
           /\ \A k \in l..h : k - l + 1 \in 1..(x + y)
<1>1. \A k \in l..h : k - l + 1 \in 1..(x + y)
  OBVIOUS
<1>2. \A o \in 1..y : (g + 1) + o - 1 = g + o /\ g + o \in (g + 1)..h
  OBVIOUS
<1>3. \A o \in 1..x : l + o - 1 \in l..g
  OBVIOUS
<1> QED
  BY <1>1, <1>2, <1>3

LEMMA SplitLengths ==
    ASSUME NEW l \in Int, NEW g \in Int, NEW h \in Int, l <= g, g < h
    PROVE  g - l + 1 \in Nat /\ h - g \in Nat
  OBVIOUS

LEMMA SameStep ==
    ASSUME NEW c \in Int, NEW j \in Int, NEW k \in Int, ~(j - c + 1 < k - c + 1), ~(k - c + 1 < j - c + 1)
    PROVE  j = k
  OBVIOUS

LEMMA StepAlong ==
    ASSUME NEW c \in Int, NEW j \in Int, NEW k \in Int, j < k
    PROVE  c + j < c + k /\ c + j - 1 < c + k - 1 /\ j - c + 1 < k - c + 1
  OBVIOUS

LEMMA HalvesAre ==
    ASSUME NEW m \in Nat, NEW a \in Seq(Int), Len(a) = m, NEW s \in Segs(m), s[1] < s[2]
    PROVE  /\ \E e : /\ \A k \in s[1]..s[2] : e[k] \in s[1]..s[2] /\ Halves(a, s)[k - s[1] + 1] = a[e[k]]
                     /\ \A j, k \in s[1]..s[2] : e[j] = e[k] => j = k
           /\ Ascending(a, M!Lower(s)) /\ Ascending(a, M!Upper(s)) =>
                 \A j, k \in s[1]..s[2] : j < k => Halves(a, s)[j - s[1] + 1] <= Halves(a, s)[k - s[1] + 1]
<1>1. PICK l \in 1..m, h \in 1..m, g \in 1..m :
         /\ l = s[1] /\ h = s[2] /\ g = M!Mid(s) /\ l <= g /\ g < h /\ g + 1 \in 1..m /\ g + 1 <= h
         /\ M!Lower(s)[1] = l /\ M!Lower(s)[2] = g /\ M!Upper(s)[1] = g + 1 /\ M!Upper(s)[2] = h
  <2>1. s[1] \in 1..m /\ s[2] \in 1..m /\ M!Mid(s) \in s[1]..(s[2] - 1)
    BY SegmentIs
  <2>2. M!Mid(s) \in 1..m /\ s[1] <= M!Mid(s) /\ M!Mid(s) < s[2] /\ M!Mid(s) + 1 \in 1..m /\ M!Mid(s) + 1 <= s[2]
    BY <2>1, MidNumbers
  <2>3. M!Lower(s)[1] = s[1] /\ M!Lower(s)[2] = M!Mid(s) /\ M!Upper(s)[1] = M!Mid(s) + 1 /\ M!Upper(s)[2] = s[2]
    BY SegmentIs
  <2> QED
    BY <2>1, <2>2, <2>3
<1> DEFINE p == SubSeq(a, l, g)
           q == SubSeq(a, g + 1, h)
<1>2. PICK lp \in Nat, lq \in Nat : lp = g - l + 1 /\ lq = h - g
  <2>1. l \in Int /\ g \in Int /\ h \in Int /\ l <= g /\ g < h
    BY <1>1
  <2>2. g - l + 1 \in Nat /\ h - g \in Nat
    BY <2>1, SplitLengths
  <2> QED
    BY <2>2
<1>3. /\ l \in Int /\ g \in Int /\ h \in Int /\ lp \in Int /\ lq \in Int
      /\ l <= g /\ g < h /\ lp = g - l + 1 /\ lq = h - g
  BY <1>1, <1>2, SMTT(30)
<1>4. /\ h - (g + 1) + 1 = lq
      /\ \A o \in 1..lq : (g + 1) + o - 1 = g + o /\ g + o \in (g + 1)..h
      /\ \A o \in 1..lp : l + o - 1 \in l..g
      /\ \A k \in l..h : k - l + 1 \in 1..(lp + lq)
  BY <1>3, SplitNumbers
<1>5. lp = Len(p) /\ \A x \in 1..lp : p[x] = a[l + x - 1] /\ a[l + x - 1] \in Int
  <2>1. l \in 1..m /\ g \in 1..m /\ l <= g
    BY <1>1
  <2>2. /\ Len(SubSeq(a, l, g)) = g - l + 1
        /\ \A x \in 1..(g - l + 1) : SubSeq(a, l, g)[x] = a[l + x - 1] /\ a[l + x - 1] \in Int
    BY <2>1, PartIs
  <2> QED
    BY <1>2, <2>2
<1>6. lq = Len(q) /\ \A x \in 1..lq : q[x] = a[g + x] /\ a[g + x] \in Int
  <2>1. h - (g + 1) + 1 = lq /\ \A x \in 1..lq : (g + 1) + x - 1 = g + x
    BY <1>4
  <2>2. PICK o \in 1..m : o = g + 1
    BY <1>1
  <2>3. Len(SubSeq(a, o, h)) = h - o + 1 /\ \A x \in 1..(h - o + 1) : SubSeq(a, o, h)[x] = a[o + x - 1] /\ a[o + x - 1] \in Int
    <3>1. o \in 1..m /\ h \in 1..m /\ o <= h
      BY <1>1, <2>2
    <3> QED
      BY <3>1, PartIs
  <2> QED
    BY <2>1, <2>2, <2>3
<1>7. Halves(a, s) = M!Merge(p, q)
  BY <1>1 DEF Halves
<1> HIDE DEF p, q
<1>8. PICK f : /\ Taking(p, q, f, lp + lq)
               /\ M!Merge(p, q) = Yield(p, q, f, lp + lq)
  <2>1. Len(p) \in Nat /\ Len(q) \in Nat
    BY <1>2, <1>5, <1>6
  <2>2. \E f : /\ Taking(p, q, f, Len(p) + Len(q))
               /\ M!Merge(p, q) = Yield(p, q, f, Len(p) + Len(q))
    BY <2>1, MergeTakes
  <2> QED
    BY <1>5, <1>6, <2>2
<1>9. \A j \in 1..(lp + lq) : M!Merge(p, q)[j] = IF f[j] > f[j - 1] THEN p[f[j]] ELSE q[j - f[j]]
  BY <1>8 DEF Yield
<1>10. /\ \A j \in 1..(lp + lq) : Place(l, g, f, j) \in l..h
       /\ \A j, k \in 1..(lp + lq) : j < k => Place(l, g, f, j) # Place(l, g, f, k)
  <2>1. lp = Len(p) /\ lq = Len(q) /\ Taking(p, q, f, lp + lq)
    BY <1>5, <1>6, <1>8
  <2> QED
    BY <1>2, <1>3, <2>1, PlaceIs
<1>11. ASSUME NEW j \in 1..(lp + lq) PROVE M!Merge(p, q)[j] = a[Place(l, g, f, j)]
  <2>1. TurnOfP(p, q, lp, lq, f, j) \/ TurnOfQ(p, q, lp, lq, f, j)
    BY <1>2, <1>5, <1>6, <1>8, TakingTurn
  <2>2. CASE TurnOfP(p, q, lp, lq, f, j)
    <3>1. f[j] > f[j - 1] /\ f[j] \in 1..lp
      BY <2>2 DEF TurnOfP
    <3> QED
      BY <1>5, <1>9, <3>1 DEF Place
  <2>3. CASE TurnOfQ(p, q, lp, lq, f, j)
    <3>1. ~(f[j] > f[j - 1]) /\ j - f[j] \in 1..lq
      BY <2>3 DEF TurnOfQ
    <3> QED
      BY <1>6, <1>9, <3>1 DEF Place
  <2> QED
    BY <2>1, <2>2, <2>3
<1> DEFINE e == [k \in l..h |-> Place(l, g, f, k - l + 1)]
<1>12. \A k \in l..h : e[k] = Place(l, g, f, k - l + 1)
  OBVIOUS
<1> HIDE DEF e
<1>13. \A k \in l..h : e[k] \in l..h /\ Halves(a, s)[k - l + 1] = a[e[k]]
  <2>1. ASSUME NEW k \in l..h PROVE e[k] \in l..h /\ Halves(a, s)[k - l + 1] = a[e[k]]
    <3>1. PICK j \in 1..(lp + lq) : j = k - l + 1
      BY <1>4
    <3>2. e[k] = Place(l, g, f, j)
      BY <1>12, <3>1
    <3>3. Place(l, g, f, j) \in l..h
      BY <1>10
    <3>4. M!Merge(p, q)[j] = a[Place(l, g, f, j)]
      BY <1>11
    <3> QED
      BY <1>7, <3>1, <3>2, <3>3, <3>4
  <2> QED
    BY <2>1
<1>14. ASSUME NEW j \in l..h, NEW k \in l..h, e[j] = e[k] PROVE j = k
  <2>1. Place(l, g, f, j - l + 1) = Place(l, g, f, k - l + 1) /\ j - l + 1 \in 1..(lp + lq) /\ k - l + 1 \in 1..(lp + lq)
    BY <1>12, <1>4, <1>14
  <2>2. ~(j - l + 1 < k - l + 1) /\ ~(k - l + 1 < j - l + 1)
    BY <1>10, <2>1
  <2>3. l \in Int /\ j \in Int /\ k \in Int
    BY <1>3
  <2> QED
    BY <2>2, <2>3, SameStep
<1>15. ASSUME Ascending(a, M!Lower(s)), Ascending(a, M!Upper(s)), NEW j \in l..h, NEW k \in l..h, j < k
       PROVE  Halves(a, s)[j - l + 1] <= Halves(a, s)[k - l + 1]
  <2>1. (\A x, y \in l..g : x < y => a[x] <= a[y]) /\ (\A x, y \in (g + 1)..h : x < y => a[x] <= a[y])
    BY <1>1, <1>15 DEF Ascending
  <2>2. ASSUME NEW x \in 1..lp, NEW y \in 1..lp, x <= y PROVE p[x] <= p[y]
    <3>1. l + x - 1 \in l..g /\ l + y - 1 \in l..g /\ (x = y \/ l + x - 1 < l + y - 1)
      <4>1. x \in Int /\ y \in Int /\ l \in Int /\ (x = y \/ x < y)
        BY <1>3, <2>2
      <4> QED
        BY <1>4, <4>1, StepAlong
    <3>2. p[x] = a[l + x - 1] /\ p[y] = a[l + y - 1] /\ p[x] \in Int
      BY <1>5
    <3>3. CASE x = y
      BY <3>2, <3>3
    <3>4. CASE l + x - 1 < l + y - 1
      BY <2>1, <3>1, <3>2, <3>4
    <3> QED
      BY <3>1, <3>3, <3>4
  <2>3. ASSUME NEW x \in 1..lq, NEW y \in 1..lq, x <= y PROVE q[x] <= q[y]
    <3>1. g + x \in (g + 1)..h /\ g + y \in (g + 1)..h /\ (x = y \/ g + x < g + y)
      <4>1. x \in Int /\ y \in Int /\ g \in Int /\ (x = y \/ x < y)
        BY <1>3, <2>3
      <4> QED
        BY <1>4, <4>1, StepAlong
    <3>2. q[x] = a[g + x] /\ q[y] = a[g + y] /\ q[x] \in Int
      BY <1>6
    <3>3. CASE x = y
      BY <3>2, <3>3
    <3>4. CASE g + x < g + y
      BY <2>1, <3>1, <3>2, <3>4
    <3> QED
      BY <3>1, <3>3, <3>4
  <2>4. PICK x \in 1..(lp + lq), y \in 1..(lp + lq) : x = j - l + 1 /\ y = k - l + 1 /\ x < y
    <3>1. l \in Int /\ j \in Int /\ k \in Int /\ j < k
      BY <1>3, <1>15
    <3>2. j - l + 1 < k - l + 1
      BY <3>1, StepAlong
    <3> QED
      BY <1>4, <3>2
  <2>5. (\A o \in 1..lp : p[o] \in Int) /\ (\A o \in 1..lq : q[o] \in Int)
    BY <1>5, <1>6
  <2>6. (IF f[x] > f[x - 1] THEN p[f[x]] ELSE q[x - f[x]]) <= (IF f[y] > f[y - 1] THEN p[f[y]] ELSE q[y - f[y]])
    <3>1. lp \in Nat /\ lq \in Nat /\ lp = Len(p) /\ lq = Len(q) /\ Taking(p, q, f, lp + lq)
      BY <1>2, <1>5, <1>6, <1>8
    <3> QED
      BY <2>2, <2>3, <2>4, <2>5, <3>1, MergeAscends, ZenonT(60)
  <2> QED
    BY <1>7, <1>9, <2>4, <2>6
<1>16. \E d : /\ \A k \in l..h : d[k] \in l..h /\ Halves(a, s)[k - l + 1] = a[d[k]]
              /\ \A j, k \in l..h : d[j] = d[k] => j = k
  BY <1>14, <1>13
<1>17. Ascending(a, M!Lower(s)) /\ Ascending(a, M!Upper(s)) =>
          \A j, k \in l..h : j < k => Halves(a, s)[j - l + 1] <= Halves(a, s)[k - l + 1]
  BY <1>15
<1>18. l = s[1] /\ h = s[2]
  BY <1>1
<1> QED
  BY <1>16, <1>17, <1>18, Zenon

LEMMA MergedIs ==
    ASSUME NEW m \in Nat, NEW a \in Seq(Int), Len(a) = m, NEW s \in Segs(m), s[1] < s[2], NEW r,
           r = [k \in 1..m |-> IF k \in s[1]..s[2] THEN Halves(a, s)[k - s[1] + 1] ELSE a[k]]
    PROVE  /\ Rearranged(r, a, s, m)
           /\ Ascending(a, M!Lower(s)) /\ Ascending(a, M!Upper(s)) => Ascending(r, s)
<1>1. PICK e : /\ \A k \in s[1]..s[2] : e[k] \in s[1]..s[2] /\ Halves(a, s)[k - s[1] + 1] = a[e[k]]
               /\ \A j, k \in s[1]..s[2] : e[j] = e[k] => j = k
  BY HalvesAre, SMTT(30)
<1>2. r = [k \in 1..m |-> IF k \in s[1]..s[2] THEN a[e[k]] ELSE a[k]]
  BY <1>1
<1>3. Rearranged(r, a, s, m)
  <2>1. \A k \in s[1]..s[2] : e[k] \in s[1]..s[2]
    BY <1>1
  <2>2. \A j, k \in s[1]..s[2] : e[j] = e[k] => j = k
    BY <1>1
  <2> QED
    <3>1. r = Through(a, e, s, m)
      BY <1>2 DEF Through
    <3> QED
      BY <2>1, <2>2, <3>1, RearrangedIs
<1>4. ASSUME Ascending(a, M!Lower(s)), Ascending(a, M!Upper(s)) PROVE Ascending(r, s)
  <2>1. \A j, k \in s[1]..s[2] : j < k => Halves(a, s)[j - s[1] + 1] <= Halves(a, s)[k - s[1] + 1]
    BY <1>4, HalvesAre
  <2>2. \A k \in s[1]..s[2] : k \in 1..m
    BY SegmentIs, SMTT(30)
  <2> QED
    BY <2>1, <2>2 DEF Ascending
<1> QED
  BY <1>3, <1>4

LEMMA Narrower ==
    ASSUME NEW l \in Int, NEW h \in Int, NEW x \in Int, NEW y \in Int, l <= x, y <= h
    PROVE  \A k \in x..y : k \in l..h
  OBVIOUS

(* What is not rearranged stays in order.                                  *)
LEMMA ApartKeeps ==
    ASSUME NEW m \in Nat, NEW a \in Seq(Int), Len(a) = m, NEW r, NEW h, NEW t \in Segs(m),
           Rearranged(r, a, h, m), Apart(t, h), h[1] \in Int, h[2] \in Int, t[1] <= t[2]
    PROVE  /\ Ascending(a, t) => Ascending(r, t)
           /\ t[1] < t[2] => Halves(r, t) = Halves(a, t)
<1>1. ASSUME NEW k \in t[1]..t[2] PROVE r[k] = a[k] /\ k \in 1..m
  <2>1. t[1] \in 1..m /\ t[2] \in 1..m
    BY SegmentIs
  <2>2. k \in 1..m /\ k \notin h[1]..h[2]
    BY <1>1, <2>1, SMTT(30) DEF Apart
  <2> QED
    BY <2>2 DEF Rearranged
<1>2. Ascending(a, t) => Ascending(r, t)
  BY <1>1 DEF Ascending
<1>3. ASSUME t[1] < t[2] PROVE Halves(r, t) = Halves(a, t)
  <2>1. PICK l \in 1..m, w \in 1..m, g \in 1..m, o \in 1..m :
           l = t[1] /\ w = t[2] /\ g = M!Mid(t) /\ l <= g /\ g < w /\ o = g + 1 /\ o <= w
    <3>1. t[1] \in 1..m /\ t[2] \in 1..m /\ M!Mid(t) \in t[1]..(t[2] - 1)
      BY <1>3, SegmentIs
    <3>2. M!Mid(t) \in 1..m /\ t[1] <= M!Mid(t) /\ M!Mid(t) < t[2] /\ M!Mid(t) + 1 \in 1..m /\ M!Mid(t) + 1 <= t[2]
      BY <3>1, MidNumbers
    <3> QED
      BY <3>1, <3>2
  <2>2. ASSUME NEW x \in 1..m, NEW y \in 1..m, x <= y, l <= x, y <= w PROVE SubSeq(r, x, y) = SubSeq(a, x, y)
    <3>1. \A k \in x..y : r[k] = a[k] /\ a[k] \in Int
      <4>1. \A k \in x..y : k \in l..w
        <5>1. l \in Int /\ w \in Int /\ x \in Int /\ y \in Int /\ l <= x /\ y <= w
          BY <2>1, <2>2, SMTT(30)
        <5> QED
          BY <5>1, Narrower
      <4> QED
        BY <1>1, <2>1, <4>1, SMTT(30)
    <3>2. SubSeq(r, x, y) \in Seq(Int) /\ SubSeq(a, x, y) \in Seq(Int)
          /\ Len(SubSeq(r, x, y)) = y - x + 1 /\ Len(SubSeq(a, x, y)) = y - x + 1
          /\ \A k \in 1..(y - x + 1) : SubSeq(r, x, y)[k] = r[x + k - 1] /\ SubSeq(a, x, y)[k] = a[x + k - 1]
      <4>1. \A k \in x..y : r[k] \in Int
        BY <3>1
      <4>2. x \in Int /\ y \in Int
        BY <2>2
      <4> QED
        BY <2>2, <3>1, <4>1, <4>2, SubSeqProperties
    <3>3. \A k \in 1..(y - x + 1) : x + k - 1 \in x..y
      BY <2>2
    <3>4. \A k \in 1..Len(SubSeq(r, x, y)) : SubSeq(r, x, y)[k] = SubSeq(a, x, y)[k]
      BY <3>1, <3>2, <3>3
    <3> QED
      BY <3>2, <3>4, SeqEqual
  <2>3. SubSeq(r, l, g) = SubSeq(a, l, g) /\ SubSeq(r, o, w) = SubSeq(a, o, w)
    <3>1. g <= w /\ l <= o /\ w <= w /\ l <= l
      BY <2>1, SMTT(30)
    <3> QED
      BY <2>1, <2>2, <3>1
  <2> QED
    BY <2>1, <2>3 DEF Halves
<1> QED
  BY <1>2, <1>3

LEMMA ApartKeepsHalves ==
    ASSUME NEW m \in Nat, NEW a \in Seq(Int), Len(a) = m, NEW r, NEW h, NEW t \in Segs(m),
           Rearranged(r, a, h, m), Apart(t, h), h[1] \in Int, h[2] \in Int, t[1] < t[2]
    PROVE  Halves(r, t) = Halves(a, t)
<1>1. t[1] <= t[2]
  BY SegmentIs
<1> QED
  BY <1>1, ApartKeeps

LEMMA InsideKeeps ==
    ASSUME NEW m \in Nat, NEW r, NEW s \in Segs(m), NEW t \in Segs(m), Inside(t, s), Ascending(r, s)
    PROVE  Ascending(r, t)
<1>1. \A k \in t[1]..t[2] : k \in s[1]..s[2]
  BY SegmentIs DEF Inside
<1> QED
  BY <1>1 DEF Ascending

LEMMA MovedKeepsOrder ==
    ASSUME NEW m \in Nat, NEW v, NEW p, NEW q, NEW s, NEW z, NEW x, NEW a \in Seq(Int), Len(a) = m, NEW r, NEW g,
           Sorting(m, v, p, x, a, g), Moved(m, v, p, s, z, q), p[s] # "done", z # "merge",
           Rearranged(r, a, s, m), x = {} => Ascending(r, s)
    PROVE  InOrder(m, q, x, r, g)
<1>1. /\ s \in Segs(m) /\ q[s] = z /\ \A t \in Segs(m) : t # s => q[t] = p[t]
      /\ z \in {"done", "joined", "undefined"} /\ p[s] \in {"start", "join", "merge"}
      /\ \A t \in Segs(m) : t # s /\ p[t] # "idle" /\ Inside(t, s) => p[t] \in {"done", "exited"}
  BY MovedIs DEF Sorting
<1>2. ASSUME NEW t \in Segs(m), t # s, p[t] \in {"merge", "done", "joined"}
      PROVE  \/ Inside(t, s) /\ p[t] = "done"
             \/ Apart(t, s) /\ t[1] <= t[2] /\ (p[t] = "merge" => t[1] < t[2])
  <2>1. Apart(s, t) \/ Inside(t, s) \/ Inside(s, t)
    BY <1>1, <1>2, NestedIs DEF Sorting
  <2>2. ~Inside(s, t)
    BY <1>1, <1>2 DEF Sorting, Within
  <2>3. Inside(t, s) => p[t] = "done"
    BY <1>1, <1>2
  <2>4. Apart(s, t) => Apart(t, s)
    BY <1>1, SegmentIs DEF Apart
  <2>5. t[1] <= t[2] /\ (p[t] = "merge" => t[1] < t[2])
    BY <1>2 DEF Sorting, Proper
  <2> QED
    BY <2>1, <2>2, <2>3, <2>4, <2>5
<1>3. s[1] \in Int /\ s[2] \in Int
  BY <1>1, SegmentIs
<1>4. ASSUME NEW t \in Segs(m), q[t] = "merge" PROVE g[t] = Halves(r, t)
  <2>1. t # s /\ p[t] = "merge"
    BY <1>1, <1>4
  <2>2. Apart(t, s) /\ t[1] < t[2] /\ t[1] <= t[2]
    BY <1>2, <2>1
  <2>3. Halves(r, t) = Halves(a, t)
    BY <1>3, <2>2, ApartKeepsHalves
  <2> QED
    BY <2>1, <2>3 DEF Sorting, InOrder
<1>5. ASSUME x = {}, NEW t \in Segs(m), q[t] \in {"done", "joined"} PROVE Ascending(r, t)
  <2>1. CASE t = s
    BY <1>5, <2>1
  <2>2. CASE t # s
    <3>1. p[t] \in {"done", "joined"}
      BY <1>1, <1>5, <2>2
    <3>2. Ascending(a, t)
      BY <1>5, <3>1 DEF Sorting, InOrder
    <3>3. CASE Inside(t, s)
      BY <1>1, <1>5, <3>3, InsideKeeps
    <3>4. CASE Apart(t, s) /\ t[1] <= t[2]
      BY <1>3, <3>2, <3>4, ApartKeeps
    <3> QED
      BY <1>2, <2>2, <3>1, <3>3, <3>4
  <2> QED
    BY <2>1, <2>2
<1> QED
  BY <1>4, <1>5 DEF InOrder

LEMMA BegunKeepsOrder ==
    ASSUME NEW m \in Nat, NEW v, NEW p, NEW q, NEW s, NEW h, NEW u, NEW z, NEW x,
           NEW a \in Seq(Int), Len(a) = m, NEW r, NEW g,
           Sorting(m, v, p, x, a, g), Begun(m, v, p, s, h, u, z, q),
           Rearranged(r, a, h, m), u = "start" \/ Ascending(r, h)
    PROVE  InOrder(m, q, x, r, g)
<1>1. /\ s \in Segs(m) /\ h \in Segs(m) /\ h # s
      /\ q[h] = u /\ q[s] = z /\ z \in {"upper", "wait", "join"}
      /\ \A t \in Segs(m) : t # h /\ t # s => q[t] = p[t]
  BY BegunIs DEF Sorting
<1>2. u \in {"start", "done"}
  BY DEF Begun
<1>3. ASSUME NEW t \in Segs(m), t # s, t # h, p[t] \in {"merge", "done", "joined"}
      PROVE  Apart(t, h) /\ t[1] <= t[2] /\ (p[t] = "merge" => t[1] < t[2])
  <2>1. ~Inside(s, t)
    BY <1>3, AboveHalf DEF Sorting
  <2>2. Apart(t, h)
    BY <1>3, <2>1, BesideHalf DEF Sorting
  <2>3. t[1] <= t[2] /\ (p[t] = "merge" => t[1] < t[2])
    BY <1>3 DEF Sorting, Proper
  <2> QED
    BY <2>2, <2>3
<1>4. h[1] \in Int /\ h[2] \in Int
  BY <1>1, SegmentIs
<1>5. ASSUME NEW t \in Segs(m), q[t] = "merge" PROVE g[t] = Halves(r, t)
  <2>1. t # s /\ t # h /\ p[t] = "merge"
    BY <1>1, <1>2, <1>5
  <2>2. Apart(t, h) /\ t[1] < t[2] /\ t[1] <= t[2]
    BY <1>3, <2>1
  <2>3. Halves(r, t) = Halves(a, t)
    BY <1>4, <2>2, ApartKeepsHalves
  <2> QED
    BY <2>1, <2>3 DEF Sorting, InOrder
<1>6. ASSUME x = {}, NEW t \in Segs(m), q[t] \in {"done", "joined"} PROVE Ascending(r, t)
  <2>1. CASE t = h
    BY <1>1, <1>2, <1>6, <2>1
  <2>2. CASE t # h
    <3>1. t # s /\ p[t] \in {"done", "joined"}
      BY <1>1, <1>6, <2>2
    <3>2. Ascending(a, t)
      BY <1>6, <3>1 DEF Sorting, InOrder
    <3>3. Apart(t, h) /\ t[1] <= t[2]
      BY <1>3, <2>2, <3>1
    <3> QED
      BY <1>4, <3>2, <3>3, ApartKeeps
  <2> QED
    BY <2>1, <2>2
<1> QED
  BY <1>5, <1>6 DEF InOrder

LEMMA RearrangedSame ==
    ASSUME NEW m \in Nat, NEW a \in Seq(Int), Len(a) = m, NEW s PROVE Rearranged(a, a, s, m)
  BY PermutedSame DEF Rearranged

LEMMA MovedKeeps ==
    ASSUME NEW m \in Nat, NEW v, NEW p, NEW q, NEW s, NEW z, NEW x, NEW a \in Seq(Int), Len(a) = m, NEW r, NEW g,
           Sorting(m, v, p, x, a, g), Moved(m, v, p, s, z, q), p[s] # "done", z # "merge",
           Rearranged(r, a, s, m), x = {} => Ascending(r, s)
    PROVE  Sorting(m, v, q, x, r, g)
<1>1. /\ Proper(m, v, p) /\ Nested(m, p) /\ Within(m, v, p)
      /\ OneAtWork(m, v, p) /\ HalvesDone(m, v, p, x)
  BY DEF Sorting
<1>2. Proper(m, v, q) /\ Nested(m, q) /\ Within(m, v, q)
  BY <1>1, MovedKeepsTree
<1>3. OneAtWork(m, v, q) /\ HalvesDone(m, v, q, x)
  BY <1>1, MovedKeepsWork
<1>4. InOrder(m, q, x, r, g)
  BY MovedKeepsOrder
<1> QED
  BY <1>2, <1>3, <1>4 DEF Sorting

LEMMA BegunKeeps ==
    ASSUME NEW m \in Nat, NEW v, NEW p, NEW q, NEW s, NEW h, NEW u, NEW z, NEW x,
           NEW a \in Seq(Int), Len(a) = m, NEW r, NEW g,
           Sorting(m, v, p, x, a, g), Begun(m, v, p, s, h, u, z, q),
           Rearranged(r, a, h, m), u = "start" \/ Ascending(r, h)
    PROVE  Sorting(m, v, q, x, r, g)
<1>1. /\ Proper(m, v, p) /\ Nested(m, p) /\ Within(m, v, p)
      /\ OneAtWork(m, v, p) /\ HalvesDone(m, v, p, x)
  BY DEF Sorting
<1>2. Proper(m, v, q) /\ Nested(m, q) /\ Within(m, v, q)
  BY <1>1, BegunKeepsProper, BegunKeepsWithin
<1>3. OneAtWork(m, v, q) /\ HalvesDone(m, v, q, x)
  BY <1>1, BegunKeepsWork
<1>4. InOrder(m, q, x, r, g)
  BY BegunKeepsOrder
<1> QED
  BY <1>2, <1>3, <1>4 DEF Sorting

LEMMA ExitKeeps ==
    ASSUME NEW m \in Nat, NEW v, NEW p, NEW q, NEW s, NEW f, NEW x, NEW y, NEW a, NEW g,
           v # "threaded", p[s] = "start", y # {},
           Sorting(m, v, p, x, a, g), Exits(m, p, s, f, q)
    PROVE  Sorting(m, v, q, y, a, g)
<1>1. Proper(m, v, q) /\ Nested(m, q) /\ Within(m, v, q) /\ OneAtWork(m, v, q)
  BY ExitKeepsTree DEF Sorting
<1>2. HalvesDone(m, v, q, y)
  BY <1>1, ExitKeepsHalves
<1>3. \A t \in Segs(m) : q[t] # "merge"
  BY <1>1 DEF Proper
<1>4. InOrder(m, q, y, a, g)
  BY <1>3 DEF InOrder
<1> QED
  BY <1>1, <1>2, <1>4 DEF Sorting

(* Both halves are done, and merge fills its array; main joins.            *)
LEMMA JoinKeeps ==
    ASSUME NEW m \in Nat, NEW v, NEW p, NEW q, NEW s, NEW x, NEW a, NEW g, NEW w,
           Sorting(m, v, p, x, a, g), Moved(m, v, p, s, "merge", q),
           w[s] = Halves(a, s), \A t \in Segs(m) : t # s => w[t] = g[t]
    PROVE  Sorting(m, v, q, x, a, w)
<1>1. /\ s \in Segs(m) /\ q[s] = "merge" /\ \A t \in Segs(m) : t # s => q[t] = p[t]
  BY MovedIs DEF Sorting
<1>2. Proper(m, v, q) /\ Nested(m, q) /\ Within(m, v, q) /\ OneAtWork(m, v, q) /\ HalvesDone(m, v, q, x)
  BY MovedKeepsTree, MovedKeepsWork DEF Sorting
<1>3. ASSUME NEW t \in Segs(m)
      PROVE  /\ q[t] = "merge" => w[t] = Halves(a, t)
             /\ x = {} /\ q[t] \in {"done", "joined"} => Ascending(a, t)
  <2>1. CASE t = s
    BY <1>1, <2>1
  <2>2. CASE t # s
    <3>1. q[t] = p[t] /\ w[t] = g[t]
      BY <1>1, <2>2
    <3> QED
      BY <3>1 DEF Sorting, InOrder
  <2> QED
    BY <2>1, <2>2
<1> QED
  BY <1>2, <1>3 DEF Sorting, InOrder

LEMMA ReturnKeeps ==
    ASSUME NEW m \in Nat, NEW v, NEW p, NEW q, NEW s, NEW x, NEW a, NEW g,
           Sorting(m, v, p, x, a, g), Moved(m, v, p, s, "joined", q), p[s] = "done"
    PROVE  Sorting(m, v, q, x, a, g)
<1>1. /\ s \in Segs(m) /\ q[s] = "joined" /\ \A t \in Segs(m) : t # s => q[t] = p[t]
  BY MovedIs DEF Sorting
<1>2. Proper(m, v, q) /\ Nested(m, q) /\ Within(m, v, q) /\ OneAtWork(m, v, q) /\ HalvesDone(m, v, q, x)
  BY MovedKeepsTree, MovedKeepsWork DEF Sorting
<1>3. ASSUME NEW t \in Segs(m)
      PROVE  /\ q[t] = "merge" => g[t] = Halves(a, t)
             /\ x = {} /\ q[t] \in {"done", "joined"} => Ascending(a, t)
  <2>1. CASE t = s
    BY <1>1, <2>1 DEF Sorting, InOrder
  <2>2. CASE t # s
    <3>1. q[t] = p[t]
      BY <1>1, <2>2
    <3> QED
      BY <3>1 DEF Sorting, InOrder
  <2> QED
    BY <2>1, <2>2
<1> QED
  BY <1>2, <1>3 DEF Sorting, InOrder

(* The merged halves of s, when they are done.                             *)
LEMMA MergedInOrder ==
    ASSUME NEW m \in Nat, NEW v, NEW p, NEW s \in Segs(m), NEW x, NEW a \in Seq(Int), Len(a) = m, NEW g, NEW r,
           Sorting(m, v, p, x, a, g), s[1] < s[2],
           x = {} => p[M!Lower(s)] = "done" /\ p[M!Upper(s)] = "done",
           r = [k \in 1..m |-> IF k \in s[1]..s[2] THEN Halves(a, s)[k - s[1] + 1] ELSE a[k]]
    PROVE  Rearranged(r, a, s, m) /\ (x = {} => Ascending(r, s))
<1>1. M!Lower(s) \in Segs(m) /\ M!Upper(s) \in Segs(m)
  BY SegmentIs
<1>2. x = {} => Ascending(a, M!Lower(s)) /\ Ascending(a, M!Upper(s))
  BY <1>1 DEF Sorting, InOrder
<1> QED
  BY <1>2, MergedIs, SMTT(30)

(* What is not short is longer than one cell.                              *)
LEMMA NotShort ==
    ASSUME NEW s, s[1] \in Int, s[2] \in Int, s[1] <= s[2], ~M!Base(s),
           variant \in {"threaded", "forked", "normal"}
    PROVE  s[1] < s[2]
<1>1. MIN_LENGTH \in Nat \ {0}
  BY SortAssumption
<1>2. CASE variant = "threaded"
  <2>1. ~(s[2] - s[1] + 1 <= MIN_LENGTH)
    BY <1>2 DEF M!Base
  <2> QED
    BY <1>1, <2>1
<1>3. CASE variant = "forked"
  <2>1. ~(s[2] - s[1] < 2)
    BY <1>3 DEF M!Base
  <2> QED
    BY <2>1
<1>4. CASE variant = "normal"
  <2>1. ~(s[1] >= s[2])
    BY <1>4 DEF M!Base
  <2> QED
    BY <2>1
<1> QED
  BY <1>2, <1>3, <1>4

LEMMA PartsMerged == ASSUME NEW s PROVE M!Merge(M!Part(M!Lower(s)), M!Part(M!Upper(s))) = Halves(array, s)
  BY DEF M!Part, M!Lower, M!Upper, Halves

LEMMA SortUnchanged == SortInv /\ UNCHANGED sort => SortInv'
<1> SUFFICES ASSUME SortInv, UNCHANGED sort PROVE SortInv'
  OBVIOUS
<1>1. variant' = variant /\ input' = input /\ array' = array /\ mspc' = mspc /\ merged' = merged /\ failed' = failed
  BY DEF sort
<1>2. M!n' = M!n
  BY <1>1 DEF M!n
<1> QED
  BY <1>1, <1>2 DEF SortInv

LEMMA SortInitially == M!Init => SortInv
<1> SUFFICES ASSUME M!Init PROVE SortInv
  OBVIOUS
<1>1. /\ variant \in {"threaded", "forked", "normal"} /\ input \in SortInputs /\ array = input /\ failed = {}
      /\ mspc = [s \in M!Segments |-> IF s = M!Whole THEN "start" ELSE "idle"]
      /\ merged = [s \in M!Segments |-> <<>>]
  BY DEF M!Init, M!Entered
<1>2. array \in Seq(Int) /\ array # <<>> /\ Len(array) = M!n
  BY <1>1, SortAssumption DEF M!n
<1>3. PICK v, p : v = variant /\ p = mspc
  OBVIOUS
<1>4. PICK m \in Nat : m = M!n /\ m >= 1
  BY <1>2
<1>5. m \in Nat /\ m >= 1 /\ m = M!n /\ v = variant /\ p = mspc
  BY <1>3, <1>4
<1>6. M!Segments = Segs(m) /\ M!Whole = <<1, m>>
  BY <1>5 DEF M!Segments, M!Whole, Segs
<1>7. p = [s \in Segs(m) |-> IF s = <<1, m>> THEN "start" ELSE "idle"] /\ DOMAIN merged = Segs(m)
  BY <1>1, <1>5, <1>6
<1>8. \A s \in Segs(m) : p[s] = IF s = <<1, m>> THEN "start" ELSE "idle"
  BY <1>7
<1>9. Proper(m, v, p)
  <2>1. p \in [Segs(m) -> Underway \cup {"idle", "done", "joined", "exited", "undefined"}]
    BY <1>7 DEF Underway
  <2>2. ASSUME NEW s \in Segs(m) PROVE p[s] # "idle" => s[1] <= s[2]
    BY <1>5, <1>8
  <2> QED
    BY <1>8, <2>1, <2>2 DEF Proper
<1>10. \A s, t \in Segs(m) : p[s] # "idle" /\ p[t] # "idle" => s = t
  BY <1>8
<1>11. Nested(m, p) /\ Within(m, v, p)
  BY <1>10 DEF Nested, Within
<1>12. \A s, t \in Segs(m) : p[s] \in Underway /\ p[t] \in Underway => Inside(s, t)
  <2>1. ASSUME NEW s \in Segs(m), NEW t \in Segs(m), p[s] \in Underway, p[t] \in Underway PROVE Inside(s, t)
    <3>1. s = t
      BY <1>10, <2>1 DEF Underway
    <3> QED
      BY <3>1, SegmentIs DEF Inside
  <2> QED
    BY <2>1
<1>13. \A s \in Segs(m) : p[s] \notin {"merge", "exited", "join", "done", "joined"}
  BY <1>8
<1>14. Sorting(m, v, p, failed, array, merged)
  BY <1>9, <1>11, <1>12, <1>13 DEF Sorting, OneAtWork, HalvesDone, InOrder
<1>15. Permuted(array, input, m)
  BY <1>1, PermutedSame
<1> QED
  BY <1>1, <1>2, <1>5, <1>7, <1>14, <1>15 DEF SortInv

(* What the step of somebody has to show.                                  *)
AllKept(m, v, a, q, y, r, w) ==
    /\ Sorting(m, v, q, y, r, w)
    /\ r \in Seq(Int) /\ Len(r) = m /\ Permuted(r, a, m) /\ DOMAIN w = Segs(m)

LEMMA AllKeptIs ==
    ASSUME NEW m \in Nat, NEW v, NEW a, NEW q, NEW y, NEW r, NEW s, NEW w,
           Sorting(m, v, q, y, r, w), Rearranged(r, a, s, m), DOMAIN w = Segs(m)
    PROVE  AllKept(m, v, a, q, y, r, w)
  BY DEF AllKept, Rearranged

LEMMA SortStep ==
    ASSUME SortInv, M!Next PROVE SortInv'
<1>1. PICK v, p, x, g : v = variant /\ p = mspc /\ x = failed /\ g = merged
  OBVIOUS
<1>2. M!n \in Nat /\ array \in Seq(Int)
  BY LenProperties DEF SortInv
<1>3. PICK m \in Nat : m = M!n
  BY <1>2
<1>4. PICK a \in Seq(Int) : a = array
  BY <1>2
<1>5. /\ m \in Nat /\ a \in Seq(Int)
      /\ m = M!n /\ v = variant /\ p = mspc /\ x = failed /\ a = array /\ g = merged
  BY <1>1, <1>3, <1>4
<1>6. PICK q, y, r, w : q = mspc' /\ y = failed' /\ r = array' /\ w = merged'
  OBVIOUS
<1>7. /\ Sorting(m, v, p, x, a, g) /\ Len(a) = m /\ DOMAIN g = Segs(m)
      /\ v \in {"threaded", "forked", "normal"}
  BY <1>5 DEF SortInv
<1>8. m >= 1
  <2>1. input \in Seq(Int) /\ input # <<>>
    BY SortAssumption DEF SortInv
  <2> QED
    BY <1>5, <2>1 DEF M!n
<1>9. M!Segments = Segs(m) /\ M!Whole = <<1, m>> /\ <<1, m>> \in Segs(m)
  BY <1>5, <1>8 DEF M!Segments, M!Whole, Segs
<1>10. Proper(m, v, p) /\ Nested(m, p) /\ Within(m, v, p) /\ HalvesDone(m, v, p, x)
  BY <1>7 DEF Sorting
<1>11. \A s : Rearranged(a, a, s, m)
  BY <1>7, RearrangedSame
<1>12. ASSUME NEW s \in Segs(m), p[s] = "start", ~M!Base(s) PROVE s[1] < s[2]
  <2>1. s[1] \in Int /\ s[2] \in Int /\ s[1] <= s[2]
    BY <1>10, <1>12, SegmentIs DEF Proper
  <2> QED
    BY <1>5, <1>7, <1>12, <2>1, NotShort
<1>13. ASSUME NEW s, NEW h, NEW u, NEW z, Begun(m, v, p, s, h, u, z, q), u = "start", r = a, y = x, w = g
       PROVE  AllKept(m, v, a, q, y, r, w)
  BY <1>7, <1>11, <1>13, BegunKeeps, AllKeptIs
<1>14. ASSUME NEW s, NEW h, NEW u, NEW z, Begun(m, v, p, s, h, u, z, q), r = M!Sorted(a, h), y = x, w = g
       PROVE  AllKept(m, v, a, q, y, r, w)
  <2>1. h \in Segs(m) /\ h[1] <= h[2]
    BY <1>10, <1>14, BegunIs
  <2>2. Rearranged(r, a, h, m) /\ Ascending(r, h)
    BY <1>7, <1>14, <2>1, SortedIs
  <2> QED
    BY <1>7, <1>14, <2>2, BegunKeeps, AllKeptIs
<1>15. ASSUME NEW s \in Segs(m), M!SortBase(s) PROVE AllKept(m, v, a, q, y, r, w)
  <2>1. p[s] = "start" /\ q = [p EXCEPT ![s] = "done"] /\ r = M!Sorted(a, s) /\ y = x /\ w = g
    BY <1>5, <1>6, <1>15 DEF M!SortBase, M!At
  <2>2. s[1] <= s[2]
    BY <1>10, <2>1 DEF Proper
  <2>3. Moved(m, v, p, s, "done", q)
    BY <1>10, <2>1, InsideOthers DEF Moved
  <2>4. Rearranged(r, a, s, m) /\ Ascending(r, s)
    BY <1>7, <2>1, <2>2, SortedIs
  <2> QED
    BY <1>7, <2>1, <2>3, <2>4, MovedKeeps, AllKeptIs
<1>16. ASSUME NEW s \in Segs(m), M!CreateLower(s) \/ M!Fork(s) PROVE AllKept(m, v, a, q, y, r, w)
  <2>1. PICK z : /\ z = IF v = "threaded" THEN "upper" ELSE "wait"
                 /\ p[s] = "start" /\ ~M!Base(s) /\ q = [p EXCEPT ![M!Lower(s)] = "start", ![s] = z]
                 /\ r = a /\ y = x /\ w = g
    BY <1>5, <1>6, <1>16 DEF M!CreateLower, M!Fork, M!Divides, M!Give, M!At
  <2>2. Begun(m, v, p, s, M!Lower(s), "start", z, q)
    BY <1>12, <2>1 DEF Begun
  <2> QED
    BY <1>13, <2>1, <2>2
<1>17. ASSUME NEW s \in Segs(m), M!CreateUpper(s) \/ M!Wait(s) PROVE AllKept(m, v, a, q, y, r, w)
  <2>1. /\ p[s] \in {"upper", "wait"} /\ q = [p EXCEPT ![M!Upper(s)] = "start", ![s] = "join"]
        /\ r = a /\ y = x /\ w = g
        /\ p[s] = "wait" => p[M!Lower(s)] \in {"done", "exited"}
    BY <1>5, <1>6, <1>17 DEF M!CreateUpper, M!Wait, M!Give, M!At
  <2>2. s[1] < s[2] /\ (p[s] = IF v = "threaded" THEN "upper" ELSE "wait")
    BY <1>10, <2>1 DEF Proper
  <2>3. Begun(m, v, p, s, M!Upper(s), "start", "join", q)
    BY <2>1, <2>2 DEF Begun
  <2> QED
    BY <1>13, <2>1, <2>3
<1>18. ASSUME NEW s \in Segs(m), M!Partition(s) PROVE AllKept(m, v, a, q, y, r, w)
  <2>1. CASE M!Divides(s, "normal") /\ M!Give(s, M!Lower(s), "wait")
    <3>1. /\ v = "normal" /\ p[s] = "start" /\ ~M!Base(s)
          /\ q = [p EXCEPT ![M!Lower(s)] = "start", ![s] = "wait"] /\ r = a /\ y = x /\ w = g
      BY <1>5, <1>6, <2>1 DEF M!Divides, M!Give, M!At
    <3>2. Begun(m, v, p, s, M!Lower(s), "start", "wait", q)
      BY <1>12, <3>1 DEF Begun
    <3> QED
      BY <1>13, <3>1, <3>2
  <2>2. CASE variant = "normal" /\ M!At(s, "wait") /\ mspc[M!Lower(s)] = "done" /\ M!Give(s, M!Upper(s), "join")
    <3>1. /\ v = "normal" /\ p[s] = "wait" /\ p[M!Lower(s)] = "done"
          /\ q = [p EXCEPT ![M!Upper(s)] = "start", ![s] = "join"] /\ r = a /\ y = x /\ w = g
      BY <1>5, <1>6, <2>2 DEF M!Give, M!At
    <3>2. s[1] < s[2]
      BY <1>10, <3>1 DEF Proper
    <3>3. Begun(m, v, p, s, M!Upper(s), "start", "join", q)
      BY <3>1, <3>2 DEF Begun
    <3> QED
      BY <1>13, <3>1, <3>3
  <2> QED
    BY <1>18, <2>1, <2>2 DEF M!Partition
<1>19. ASSUME NEW s \in Segs(m), M!CreateLowerFails(s) PROVE AllKept(m, v, a, q, y, r, w)
  <2>1. /\ v = "threaded" /\ p[s] = "start" /\ ~M!Base(s)
        /\ q = [p EXCEPT ![M!Lower(s)] = "done", ![s] = "upper"]
        /\ r = M!Sorted(a, M!Lower(s)) /\ y = x /\ w = g
    BY <1>5, <1>6, <1>19 DEF M!CreateLowerFails, M!CreateFails, M!Divides, M!At
  <2>2. Begun(m, v, p, s, M!Lower(s), "done", "upper", q)
    BY <1>12, <2>1 DEF Begun
  <2> QED
    BY <1>14, <2>1, <2>2
<1>20. ASSUME NEW s \in Segs(m), M!CreateUpperFails(s) PROVE AllKept(m, v, a, q, y, r, w)
  <2>1. /\ p[s] = "upper" /\ q = [p EXCEPT ![M!Upper(s)] = "done", ![s] = "join"]
        /\ r = M!Sorted(a, M!Upper(s)) /\ y = x /\ w = g
    BY <1>5, <1>6, <1>20 DEF M!CreateUpperFails, M!CreateFails, M!At
  <2>2. s[1] < s[2] /\ v = "threaded"
    BY <1>10, <2>1 DEF Proper
  <2>3. Begun(m, v, p, s, M!Upper(s), "done", "join", q)
    BY <2>1, <2>2, SMTT(30) DEF Begun
  <2> QED
    BY <1>14, <2>1, <2>3
<1>21. ASSUME NEW s \in Segs(m), M!Join(s) PROVE AllKept(m, v, a, q, y, r, w)
  <2>1. /\ v = "threaded" /\ p[s] = "join" /\ p[M!Upper(s)] = "done" /\ p[M!Lower(s)] = "done"
        /\ q = [p EXCEPT ![s] = "merge"] /\ w = [g EXCEPT ![s] = Halves(a, s)] /\ r = a /\ y = x
    BY <1>5, <1>6, <1>21, PartsMerged DEF M!Join, M!At
  <2>2. \A t \in Segs(m) : t # s /\ p[t] # "idle" /\ Inside(t, s) => p[t] \in {"done", "exited"}
    BY <1>10, <2>1, InsideJoin
  <2>3. Moved(m, v, p, s, "merge", q)
    BY <2>1, <2>2 DEF Moved
  <2>4. Sorting(m, v, q, y, r, w)
    <3>1. w[s] = Halves(a, s) /\ \A t \in Segs(m) : t # s => w[t] = g[t]
      BY <1>7, <2>1
    <3>2. Sorting(m, v, q, x, a, w)
      BY <1>7, <2>3, <3>1, JoinKeeps
    <3> QED
      BY <2>1, <3>2
  <2>5. DOMAIN w = Segs(m)
    BY <1>7, <2>1
  <2> QED
    BY <1>11, <2>1, <2>4, <2>5, AllKeptIs
<1>22. ASSUME NEW s \in Segs(m), M!WriteBack(s) PROVE AllKept(m, v, a, q, y, r, w)
  <2>1. /\ p[s] = "merge" /\ q = [p EXCEPT ![s] = "done"] /\ y = x /\ w = g
        /\ r = [k \in 1..m |-> IF k \in s[1]..s[2] THEN g[s][k - s[1] + 1] ELSE a[k]]
    BY <1>5, <1>6, <1>22 DEF M!WriteBack, M!At
  <2>2. s[1] < s[2] /\ g[s] = Halves(a, s) /\ p[M!Lower(s)] = "done" /\ p[M!Upper(s)] = "done"
    BY <1>7, <1>10, <2>1 DEF Proper, HalvesDone, Sorting, InOrder
  <2>3. Moved(m, v, p, s, "done", q)
    BY <1>10, <2>1, InsideOthers, SMTT(30) DEF Moved
  <2>4. r = [k \in 1..m |-> IF k \in s[1]..s[2] THEN Halves(a, s)[k - s[1] + 1] ELSE a[k]]
    BY <2>1, <2>2
  <2>5. Rearranged(r, a, s, m) /\ (x = {} => Ascending(r, s))
    BY <1>7, <2>2, <2>4, MergedInOrder
  <2>6. p[s] # "done" /\ y = x /\ w = g
    BY <2>1
  <2>7. Sorting(m, v, q, x, r, g)
    BY <1>7, <2>3, <2>5, <2>6, MovedKeeps
  <2> QED
    BY <1>7, <2>5, <2>6, <2>7, AllKeptIs
<1>23. ASSUME NEW s \in Segs(m), M!MergeShared(s) \/ M!MergeList(s) PROVE AllKept(m, v, a, q, y, r, w)
  <2>1. /\ v # "threaded" /\ p[s] = "join" /\ p[M!Upper(s)] = "done"
        /\ q = [p EXCEPT ![s] = "done"] /\ y = x /\ w = g
        /\ r = [k \in 1..m |-> IF k \in s[1]..s[2] THEN Halves(a, s)[k - s[1] + 1] ELSE a[k]]
    BY <1>5, <1>6, <1>23, PartsMerged DEF M!MergeShared, M!MergeList, M!Merges, M!At
  <2>2. s[1] < s[2] /\ (x = {} => p[M!Lower(s)] = "done")
    BY <1>10, <2>1 DEF Proper, HalvesDone
  <2>3. \A t \in Segs(m) : t # s /\ p[t] # "idle" /\ Inside(t, s) => p[t] \in {"done", "exited"}
    BY <1>10, <2>1, InsideJoin
  <2>4. Moved(m, v, p, s, "done", q)
    BY <2>1, <2>3 DEF Moved
  <2>5. Rearranged(r, a, s, m) /\ (x = {} => Ascending(r, s))
    BY <1>7, <2>1, <2>2, MergedInOrder
  <2>6. p[s] # "done" /\ y = x /\ w = g
    BY <2>1
  <2>7. Sorting(m, v, q, x, r, g)
    BY <1>7, <2>4, <2>5, <2>6, MovedKeeps
  <2> QED
    BY <1>7, <2>5, <2>6, <2>7, AllKeptIs
<1>24. ASSUME NEW s \in Segs(m), M!ForkFails(s) PROVE AllKept(m, v, a, q, y, r, w)
  <2>1. PICK f : f = M!Process(s)
    OBVIOUS
  <2>2. /\ v = "forked" /\ p[s] = "start" /\ y = x \cup {f} /\ r = a /\ w = g
        /\ q = [t \in Segs(m) |-> IF t[2] = s[2] /\ p[t] # "idle"
                                  THEN IF t = f THEN "exited" ELSE "idle" ELSE p[t]]
    BY <1>5, <1>6, <1>9, <1>24, <2>1 DEF M!ForkFails, M!Divides, M!At
  <2>3. f = CHOOSE t \in Segs(m) : /\ t[2] = s[2] /\ p[t] # "idle"
                                   /\ \A u \in Segs(m) : u[2] = s[2] /\ p[u] # "idle" => t[1] <= u[1]
    BY <1>5, <1>9, <2>1 DEF M!Process
  <2>4. \E t \in Ending(m, p, s) : \A u \in Ending(m, p, s) : t[1] <= u[1]
    BY <2>2, FirstEnding
  <2>5. \E t \in Segs(m) : /\ t[2] = s[2] /\ p[t] # "idle"
                           /\ \A u \in Segs(m) : u[2] = s[2] /\ p[u] # "idle" => t[1] <= u[1]
    BY <2>4 DEF Ending
  <2>6. /\ f \in Segs(m) /\ f[2] = s[2] /\ p[f] # "idle"
        /\ \A u \in Segs(m) : u[2] = s[2] /\ p[u] # "idle" => f[1] <= u[1]
    BY <2>3, <2>5
  <2>7. Exits(m, p, s, f, q)
    BY <2>2, <2>6 DEF Exits, Ending
  <2>8. y # {} /\ v # "threaded"
    BY <2>2
  <2>9. Sorting(m, v, q, y, r, w)
    BY <1>7, <2>2, <2>7, <2>8, ExitKeeps
  <2> QED
    BY <1>7, <1>11, <2>2, <2>9, AllKeptIs
<1>25. ASSUME M!CreateTopFails PROVE AllKept(m, v, a, q, y, r, w)
  <2>1. PICK s \in Segs(m) : s = <<1, m>>
    BY <1>9
  <2>2. /\ p[s] = "start" /\ q = [p EXCEPT ![s] = "undefined"] /\ r = M!Sorted(a, s) /\ y = x /\ w = g
    BY <1>5, <1>6, <1>9, <1>25, <2>1 DEF M!CreateTopFails
  <2>3. s[1] <= s[2]
    BY <1>10, <2>2 DEF Proper
  <2>4. Moved(m, v, p, s, "undefined", q)
    BY <1>10, <2>1, <2>2, InsideOthers DEF Moved
  <2>5. Rearranged(r, a, s, m) /\ Ascending(r, s)
    BY <1>7, <2>2, <2>3, SortedIs
  <2> QED
    BY <1>7, <2>2, <2>4, <2>5, MovedKeeps, AllKeptIs
<1>26. ASSUME M!Return PROVE AllKept(m, v, a, q, y, r, w)
  <2>1. PICK s \in Segs(m) : s = <<1, m>>
    BY <1>9
  <2>2. p[s] = "done" /\ q = [p EXCEPT ![s] = "joined"] /\ r = a /\ y = x /\ w = g
    BY <1>5, <1>6, <1>9, <1>26, <2>1 DEF M!Return
  <2>3. Moved(m, v, p, s, "joined", q)
    BY <1>10, <2>1, <2>2, InsideOthers DEF Moved
  <2>4. Sorting(m, v, q, y, r, w)
    BY <1>7, <2>2, <2>3, ReturnKeeps
  <2> QED
    BY <1>7, <1>11, <2>2, <2>4, AllKeptIs
<1>27. AllKept(m, v, a, q, y, r, w)
  BY <1>9, <1>15, <1>16, <1>17, <1>18, <1>19, <1>20, <1>21, <1>22, <1>23, <1>24, <1>25, <1>26 DEF M!Next
<1>28. variant' = variant /\ input' = input
  BY DEF M!Next, M!SortBase, M!CreateLower, M!CreateUpper, M!CreateLowerFails, M!CreateUpperFails, M!CreateFails,
         M!Join, M!WriteBack, M!Fork, M!ForkFails, M!Wait, M!MergeShared, M!MergeList, M!Merges, M!Partition,
         M!Give, M!CreateTopFails, M!Return
<1>29. M!n' = m
  BY <1>5, <1>28 DEF M!n
<1>30. Permuted(r, input, m)
  <2>1. Permuted(a, input, m) /\ Permuted(r, a, m)
    BY <1>5, <1>27 DEF SortInv, AllKept
  <2> QED
    BY <2>1, PermutedAgain
<1> QED
  BY <1>5, <1>6, <1>27, <1>28, <1>29, <1>30 DEF SortInv, AllKept

LEMMA SortIsSound == SortInv => M!SortedAtEnd
<1> SUFFICES ASSUME SortInv PROVE M!SortedAtEnd
  OBVIOUS
<1>1. PICK v, p, x, g : v = variant /\ p = mspc /\ x = failed /\ g = merged
  OBVIOUS
<1>2. M!n \in Nat /\ array \in Seq(Int)
  BY LenProperties DEF SortInv
<1>3. PICK m \in Nat : m = M!n
  BY <1>2
<1>4. PICK a \in Seq(Int) : a = array
  BY <1>2
<1>5. /\ m \in Nat /\ a \in Seq(Int)
      /\ m = M!n /\ v = variant /\ p = mspc /\ x = failed /\ a = array /\ g = merged
  BY <1>1, <1>3, <1>4
<1>6. /\ Sorting(m, v, p, x, a, g) /\ Len(a) = m /\ Len(input) = m /\ Permuted(a, input, m)
      /\ input \in Seq(Int) /\ input # <<>>
  BY <1>5, SortAssumption DEF SortInv, M!n
<1>7. M!Segments = Segs(m) /\ M!Whole = <<1, m>> /\ <<1, m>> \in Segs(m)
  <2>1. m >= 1
    BY <1>6
  <2> QED
    BY <1>5, <2>1 DEF M!Segments, M!Whole, Segs
<1>8. M!SameBag(array, input)
  BY <1>5, <1>6, PermutedBag
<1>9. ASSUME mspc[M!Whole] \in {"done", "joined"}, failed = {} PROVE M!Ordered(array)
  <2>1. Ascending(a, <<1, m>>)
    BY <1>5, <1>6, <1>7, <1>9 DEF Sorting, InOrder
  <2> QED
    BY <1>5, <1>6, <2>1 DEF Ascending, M!Ordered
<1>10. ASSUME NEW s \in Segs(m), NEW t \in Segs(m), s # t, p[s] \in {"start", "merge"}, p[t] \in {"start", "merge"}
       PROVE  s[2] < t[1] \/ t[2] < s[1]
  <2>1. Proper(m, v, p) /\ Nested(m, p) /\ Within(m, v, p)
    BY <1>6 DEF Sorting
  <2>2. Apart(s, t) \/ Inside(t, s) \/ Inside(s, t)
    BY <1>10, <2>1, NestedIs
  <2>3. ~Inside(t, s) /\ ~Inside(s, t)
    BY <1>10, <2>1 DEF Within
  <2>4. Apart(s, t)
    BY <2>2, <2>3
  <2> QED
    BY <2>4 DEF Apart
<1> QED
  BY <1>5, <1>7, <1>8, <1>9, <1>10 DEF M!SortedAtEnd

-----------------------------------------------------------------------------
(* The programs together.  The variables of a program that does not run    *)
(* keep their initial values.                                              *)
ProgramInv ==
    /\ Q!BoothInv /\ StationInv /\ AcademyInv
    /\ program = "shell" => ReminderInv
    /\ program = "reverser" => ReverserInv
    /\ program = "sort" => SortInv

LEMMA ProgramsInitially == Init => ProgramInv
<1> SUFFICES ASSUME Init PROVE ProgramInv
  OBVIOUS
<1>1. Q!BoothInv /\ StationInv /\ AcademyInv
  BY BoothInitially, StationInitially, AcademyInitially DEF Init
<1>2. ASSUME program = "shell" PROVE ReminderInv
  BY <1>2, ReminderInitially DEF Init
<1>3. ASSUME program = "reverser" PROVE ReverserInv
  BY <1>3, ReverserInitially DEF Init
<1>4. ASSUME program = "sort" PROVE SortInv
  BY <1>4, SortInitially DEF Init
<1> QED
  BY <1>1, <1>2, <1>3, <1>4 DEF ProgramInv

LEMMA BoothPart == ProgramInv /\ [Next]_vars => Q!BoothInv'
<1>1. [Next]_vars => Q!Next \/ UNCHANGED booth
  BY DEF Next, vars
<1> QED
  BY <1>1, BoothStep, BoothUnchanged DEF ProgramInv

LEMMA StationPart == ProgramInv /\ [Next]_vars => StationInv'
<1>1. [Next]_vars => S!Next \/ UNCHANGED station
  BY DEF Next, vars
<1> QED
  BY <1>1, StationStep, StationUnchanged DEF ProgramInv

LEMMA AcademyPart == ProgramInv /\ [Next]_vars => AcademyInv'
<1>1. [Next]_vars => A!Next \/ UNCHANGED academy
  BY DEF Next, vars
<1> QED
  BY <1>1, AcademyStep, AcademyUnchanged DEF ProgramInv

LEMMA ShellPart == ProgramInv /\ [Next]_vars => (program = "shell" => ReminderInv)'
<1> SUFFICES ASSUME ProgramInv, [Next]_vars, program' = "shell" PROVE ReminderInv'
  OBVIOUS
<1>1. program' = program
  BY DEF Next, vars
<1>2. ReminderInv
  BY <1>1 DEF ProgramInv
<1>3. F!Next \/ UNCHANGED shell
  BY DEF Next, vars
<1> QED
  BY <1>2, <1>3, ReminderStep, ReminderUnchanged

LEMMA ReverserPart == ProgramInv /\ [Next]_vars => (program = "reverser" => ReverserInv)'
<1> SUFFICES ASSUME ProgramInv, [Next]_vars, program' = "reverser" PROVE ReverserInv'
  OBVIOUS
<1>1. program' = program
  BY DEF Next, vars
<1>2. ReverserInv
  BY <1>1 DEF ProgramInv
<1>3. V!Next \/ UNCHANGED reverser
  BY DEF Next, vars
<1> QED
  BY <1>2, <1>3, ReverserStep, ReverserUnchanged

LEMMA SortPart == ProgramInv /\ [Next]_vars => (program = "sort" => SortInv)'
<1> SUFFICES ASSUME ProgramInv, [Next]_vars, program' = "sort" PROVE SortInv'
  OBVIOUS
<1>1. program' = program
  BY DEF Next, vars
<1>2. SortInv
  BY <1>1 DEF ProgramInv
<1>3. M!Next \/ UNCHANGED sort
  BY DEF Next, vars
<1> QED
  BY <1>2, <1>3, SortStep, SortUnchanged

LEMMA ProgramsStep == ProgramInv /\ [Next]_vars => ProgramInv'
  BY BoothPart, StationPart, AcademyPart, ShellPart, ReverserPart, SortPart DEF ProgramInv

(* ProgramInv holds in every reachable state of every program.             *)
THEOREM ProgramInvariant == Spec => []ProgramInv
  BY ProgramsInitially, ProgramsStep, PTL DEF Spec

(* The slots of an EVM neither leak nor are given back twice, and an EVM   *)
(* that is published has room, whatever the EVM threads saw without the    *)
(* mutex (q2.c), for any numbers of EVMs, robots, voters and slots.        *)
THEOREM BoothSlots == Spec => []SlotsSound
<1>1. ProgramInv => SlotsSound
  BY DEF ProgramInv, SlotsSound, Q!BoothInv, Q!SlotsSound
<1> QED
  BY <1>1, ProgramInvariant, PTL

(* No voter votes twice, and the unlocked test of booth_get_voter lets at  *)
(* most one phantom voter through, with any number of robots (q2.c).       *)
THEOREM BoothVoters == Spec => []VotersSound
<1>1. ProgramInv => VotersSound
  BY DEF ProgramInv, VotersSound, Q!BoothInv, Q!VotersSound
<1> QED
  BY <1>1, ProgramInvariant, PTL

(* The cars are served in line, pay once, and none is stranded at the ATM, *)
(* though main takes `mutex` away from its owner and serving is counted    *)
(* under two mutexes (q1_temp.c), for any numbers of cars, pumps, places in*)
(* the queue and of attenders, from two.                                   *)
THEOREM StationServesInLine == Spec => []StationSound
<1>1. ProgramInv => StationSound
  BY StationIsSound DEF ProgramInv, StationSound
<1> QED
  BY <1>1, ProgramInvariant, PTL

(* Teams are two players and a referee, the court opens after them although*)
(* flag is set and cleared under different mutexes, and a referee who comes*)
(* too early is the last (q1.c), for any number of teams.                  *)
THEOREM AcademyFormsTeams == Spec => []AcademySound
<1>1. ProgramInv => AcademySound
  BY AcademyIsSound DEF ProgramInv, AcademySound
<1> QED
  BY <1>1, ProgramInvariant, PTL

(* A reminder that is set is printed once, with its own text, and in time  *)
(* unless the clock was set back (Assignment2's wonderShell.c), for any    *)
(* lines typed and any times, however the children and SIGINT interleave.  *)
THEOREM RemindersArePrinted == Spec => []ReminderSound
<1>1. ProgramInv => ReminderSound
  BY ReminderIsSound DEF ProgramInv, ReminderSound
<1> QED
  BY <1>1, ProgramInvariant, PTL

(* The file is written backwards whole, by buffers of any size, with what  *)
(* is written twice when the size divides the length; and the checker says *)
(* yes, and no, only for the reason it has (task1.c and task2.c), for files*)
(* of any length and any older output.                                     *)
THEOREM ReverserReverses == Spec => []ReverserSound
<1>1. ProgramInv => ReverserSound
  BY ReverserIsSound DEF ProgramInv, ReverserSound
<1> QED
  BY <1>1, ProgramInvariant, PTL

(* What the three merge sorts print is the input in order, though halves   *)
(* are sorted by threads and by children in any order and creating them    *)
(* may fail; no number is lost and no two write the same cells, even after *)
(* a child could not fork (q3_threaded.c, q3_forked.c, q3_normal.c), for   *)
(* arrays of any length and any MIN_LENGTH.                                *)
THEOREM SortsSort == Spec => []SortSound
<1>1. ProgramInv => SortSound
  BY SortIsSound DEF ProgramInv, SortSound
<1> QED
  BY <1>1, ProgramInvariant, PTL
=============================================================================

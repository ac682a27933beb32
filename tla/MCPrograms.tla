------------------------------ MODULE MCPrograms ------------------------------
(* The user programs.  A behaviour is one of them; the variables of those  *)
(* with many initial states are fixed in the behaviours of the others.     *)
EXTENDS Integers, Sequences, FiniteSets, TLC

CONSTANTS Programs,
          Evms, Robots, Voters, EvmSlots, NoEvm,
          CarLength, Attenders, QueueSize, Pumps, Main,
          Teams,
          SortInputs, MIN_LENGTH,
          Files, BufSizes, Small, Capital, None,
          Patterns, GrepInputs, BufSize, NL,
          Formats, Bits, Words, Strings,
          ForkN, Tables, FORKS, WRITES,
          LibCalls,
          Pids, Typed, Waits, Texts, MaxTime, MaxReminders

ASSUME BoothAssumption ==
    /\ IsFiniteSet(Robots) /\ Voters \in Nat
    /\ EvmSlots \in Nat \ {0} /\ NoEvm \notin Evms

(* q1_temp.c has three attenders: one who waits is woken by another.       *)
ASSUME StationAssumption ==
    /\ CarLength \in Nat /\ QueueSize \in Nat /\ Pumps \in Nat
    /\ Main \notin 0..(CarLength - 1) \cup Attenders
    /\ Attenders \cap 0..(CarLength - 1) = {}
    /\ \E a1, a2 \in Attenders : a1 # a2

ASSUME AcademyAssumption == Teams \in Nat

(* What q3_*.c sort are integers, one at least; and what is longer than    *)
(* MIN_LENGTH has two halves.                                              *)
ASSUME SortAssumption ==
    /\ \A a \in SortInputs : a \in Seq(Int) /\ a # <<>>
    /\ MIN_LENGTH \in Nat \ {0}

(* Files are sequences, and a buffer holds a character at least.           *)
ASSUME ReverserAssumption ==
    /\ \A f \in Files : f \in Seq({f[k] : k \in DOMAIN f})
    /\ None \notin Files /\ BufSizes \subseteq Nat \ {0}

(* The times that remindme is given are numbers, and so is the clock.      *)
ASSUME ReminderAssumption == Waits \subseteq Int /\ MaxTime \in Nat

VARIABLES program,
          mainpc, unassigned, votes, free, occupied, evmpc, robotpc, voterID,
          assigned, voted,
          stpc, locked, condQ, condATM, queLow, queHigh, carCompleted, serving,
          reg, ATM, ATMBUSY,
          kind, acpc, playerWithOrganiser, refreeWithOrganiser, flag,
          condPlayer, condRefree, condEnterCourt, teams, alone,
          variant, input, array, mspc, merged, failed,
          test, old, rev, rvpc, bufrSize, B, b, pos, wpos, resChar, rpos,
          re, rest, buf, out, kept,
          fmt, args, i, pfstate, ap, output,
          prog, slots, state, parent, ftpc, forks, block, size, says,
          lib, mem, turn, value, result,
          shpc, todo, now, timeVLD, timSt, waitFor, msg, loopflg, handler,
          child, fg, set, printed, last

booth == <<mainpc, unassigned, votes, free, occupied, evmpc, robotpc, voterID,
           assigned, voted>>
station == <<stpc, locked, condQ, condATM, queLow, queHigh, carCompleted, serving,
             reg, ATM, ATMBUSY>>
academy == <<kind, acpc, playerWithOrganiser, refreeWithOrganiser, flag,
             condPlayer, condRefree, condEnterCourt, teams, alone>>
sort == <<variant, input, array, mspc, merged, failed>>
reverser == <<test, old, rev, rvpc, bufrSize, B, b, pos, wpos, resChar, rpos>>
grep == <<re, rest, buf, out, kept>>
printf == <<fmt, args, i, pfstate, ap, output>>
tests == <<prog, slots, state, parent, ftpc, forks, block, size, says>>
library == <<lib, mem, turn, value, result>>
shell == <<shpc, todo, now, timeVLD, timSt, waitFor, msg, loopflg, handler,
           child, fg, set, printed, last>>

Q == INSTANCE Booth WITH epc <- evmpc, rpc <- robotpc, Slots <- EvmSlots
S == INSTANCE Station WITH pc <- stpc
A == INSTANCE Academy WITH pc <- acpc, N <- Teams
M == INSTANCE MergeSort WITH pc <- mspc, Inputs <- SortInputs
V == INSTANCE Reverser WITH pc <- rvpc, Lower <- Small, Upper <- Capital
G == INSTANCE Grep WITH Inputs <- GrepInputs
P == INSTANCE Printf WITH state <- pfstate, W <- Bits, Texts <- Strings
T == INSTANCE ForkTests WITH N <- ForkN, pc <- ftpc, n <- forks
U == INSTANCE Ulib
F == INSTANCE FirstShell WITH pc <- shpc, Lines <- Typed

Init ==
    /\ Q!Init /\ S!Init /\ A!Init
    /\ program \in Programs
    /\ \/ program \in {"booth", "station", "academy"}
       \/ program = "sort" /\ M!Init
       \/ program = "reverser" /\ V!Init
       \/ program = "grep" /\ G!Init
       \/ program = "printf" /\ P!Init
       \/ program = "tests" /\ T!Init
       \/ program = "library" /\ U!Init
       \/ program = "shell" /\ F!Init
    /\ program # "sort" =>
          /\ variant = 0 /\ input = 0 /\ array = 0 /\ mspc = 0 /\ merged = 0
          /\ failed = 0
    /\ program # "reverser" =>
          /\ test = 0 /\ old = 0 /\ rev = 0 /\ rvpc = 0 /\ bufrSize = 0 /\ B = 0
          /\ b = 0 /\ pos = 0 /\ wpos = 0 /\ resChar = 0 /\ rpos = 0
    /\ program # "grep" => re = 0 /\ rest = 0 /\ buf = 0 /\ out = 0 /\ kept = 0
    /\ program # "printf" =>
          /\ fmt = 0 /\ args = 0 /\ i = 0 /\ pfstate = 0 /\ ap = 0 /\ output = 0
    /\ program # "tests" =>
          /\ prog = 0 /\ slots = 0 /\ state = 0 /\ parent = 0 /\ ftpc = 0
          /\ forks = 0 /\ block = 0 /\ size = 0 /\ says = 0
    /\ program # "library" =>
          /\ lib = 0 /\ mem = 0 /\ turn = 0 /\ value = 0
          /\ result = 0
    /\ program # "shell" =>
          /\ shpc = 0 /\ todo = 0 /\ now = 0 /\ timeVLD = 0 /\ timSt = 0
          /\ waitFor = 0 /\ msg = 0 /\ loopflg = 0 /\ handler = 0 /\ child = 0
          /\ fg = 0 /\ set = 0 /\ printed = 0 /\ last = 0

Next ==
    /\ UNCHANGED program
    /\ \/ program = "booth" /\ Q!Next
          /\ UNCHANGED <<station, academy, sort, reverser, grep, printf, tests, library, shell>>
       \/ program = "station" /\ S!Next
          /\ UNCHANGED <<booth, academy, sort, reverser, grep, printf, tests, library, shell>>
       \/ program = "academy" /\ A!Next
          /\ UNCHANGED <<booth, station, sort, reverser, grep, printf, tests, library, shell>>
       \/ program = "sort" /\ M!Next
          /\ UNCHANGED <<booth, station, academy, reverser, grep, printf, tests, library, shell>>
       \/ program = "reverser" /\ V!Next
          /\ UNCHANGED <<booth, station, academy, sort, grep, printf, tests, library, shell>>
       \/ program = "grep" /\ G!Next
          /\ UNCHANGED <<booth, station, academy, sort, reverser, printf, tests, library, shell>>
       \/ program = "printf" /\ P!Next
          /\ UNCHANGED <<booth, station, academy, sort, reverser, grep, tests, library, shell>>
       \/ program = "tests" /\ T!Next
          /\ UNCHANGED <<booth, station, academy, sort, reverser, grep, printf, library, shell>>
       \/ program = "library" /\ U!Next
          /\ UNCHANGED <<booth, station, academy, sort, reverser, grep, printf, tests, shell>>
       \/ program = "shell" /\ F!Next
          /\ UNCHANGED <<booth, station, academy, sort, reverser, grep, printf, tests, library>>

vars == <<program, booth, station, academy, sort, reverser, grep, printf, tests, library, shell>>

Spec == Init /\ [][Next]_vars

(* The threads of the booth spin: see Booth.  No symmetry with liveness.   *)
PollingSpec == Spec /\ Q!Fairness

MCSortInputs == [1..6 -> 1..2] \cup {<<6, 5, 4, 3, 2, 1>>, <<3, 1, 4, 1, 5, 9>>}
MCFiles == UNION {[1..k -> {Small, "-"}] : k \in {0, 1, 4}}
               \cup {<<Capital, Small, "-", "-", Capital>>}
MCPatterns == {<<"a">>, <<"^", "a", "*", "$">>, <<"a", "*", "b">>, <<"^", ".", "b">>,
               <<"*">>, <<".", "*", "$", "a">>, <<"b", "*", "*">>, <<"$">>}
MCGrepInputs == UNION {[1..k -> {"a", "b", NL}] : k \in 0..5}
MCFormats == UNION {[1..k -> {"%", "d", "x", "s", "5"}] : k \in 0..4}
MCStrings == (7 :> <<>>) @@ (16 :> <<"a", "%">>)
MCTyped == {<<"exit">>, <<"remindme">>, <<"clock">>, <<"background", "other">>,
            <<"foreground">>}

(* Strings of digits, letters and bytes above 127 at every address; regions*)
(* that overlap both ways; input with and without ends of lines.           *)
Call(fn, m, s, t, c, text) ==
    [fn |-> fn, mem |-> m, s |-> s, t |-> t, n |-> c, input |-> text]
MCMemories == {m \in [0..4 -> {0, 49, 97, 200}] : m[4] = 0}
MCNumbers == {m \in [0..3 -> {0, 47, 48, 57, 58}] : m[3] = 0}
MCLetters == {m \in [0..2 -> {64, 65, 90, 91, 96, 97, 122, 123, 0}] : m[2] = 0}
MCRegion == [a \in 0..5 |-> a + 1]
MCLibCalls ==
    {Call("strcpy", m, c[1], c[2], 0, <<>>) : m \in MCMemories,
         c \in {<<0, 0>>, <<0, 1>>, <<1, 3>>, <<0, 4>>}}
    \cup {Call("strcmp", m, s, t, 0, <<>>) : m \in MCMemories, s \in 0..1, t \in 1..3}
    \cup {Call("strlen", m, s, 0, 0, <<>>) : m \in MCMemories, s \in 0..4}
    \cup {Call("strchr", m, 0, 0, c, <<>>) : m \in MCMemories, c \in {0, 200}}
    \cup {Call("memset", MCRegion, s, 9, c, <<>>) : s \in 0..2, c \in 0..3}
    \cup {Call("memmove", MCRegion, s, t, c, <<>>) : s \in 0..3, t \in 0..3, c \in 0..3}
    \cup {Call("atoi", m, s, 0, 0, <<>>) : m \in MCNumbers, s \in 0..3}
    \cup {Call("gets", MCRegion, 1, 0, max, text) : max \in 1..4,
             text \in UNION {[1..j -> {10, 13, 97}] : j \in 0..4}}
    \cup {Call("invertcase", m, 0, 0, 0, <<>>) : m \in MCLetters}
Symmetry == Permutations(Attenders) \cup Permutations(Pids)

-----------------------------------------------------------------------------
(* The slots of an EVM neither leak nor are given back twice, and the EVM  *)
(* a robot finds in free_evm always has one for it (q2.c).                 *)
SlotsSound == program = "booth" => Q!SlotsSound

(* A voter votes once, and one voter at most is not on the roll (q2.c).    *)
VotersSound == program = "booth" => Q!VotersSound

(* The votes are counted and main returns (q2.c).                          *)
PollingEnds == program = "booth" => Q!PollingEnds

(* The assertion that stands, commented out, at the head of                *)
(* booth_get_voter: assert (number_of_unassigned_voters >= 0).  It fails.  *)
UnassignedNonNegative == program = "booth" => Q!UnassignedNonNegative

(* Cars are served in line, pay once, and none is stranded at the ATM,     *)
(* though `mutex` protects little (q1_temp.c).                             *)
StationSound ==
    program = "station" => S!InLine /\ S!PaidOnce /\ S!NobodyStranded

(* Teams are two players and a referee, the court opens after them, and a  *)
(* referee who comes too early is the last (q1.c).                         *)
AcademySound ==
    program = "academy" => A!TeamsAreThree /\ A!CourtAfterTeams /\ A!EarlyIsLast

(* The merge sorts sort, unless a child of q3_forked.c cannot fork.        *)
SortSound == program = "sort" => M!SortedAtEnd

(* The reverser writes the whole file backwards, and what too; the checker *)
(* accepts it (task1.c, task2.c).                                          *)
ReverserSound ==
    program = "reverser" => V!WholeFileReversed /\ V!CheckerSound

(* xv6's grep selects the lines that the pattern means, its printf prints  *)
(* the pieces of the format, and its tests of fork and of the file system  *)
(* count their children and share no file (grep.c, printf.c, forktest.c,   *)
(* stressfs.c); the functions they call copy, compare and read what they   *)
(* should, where regions overlap and input is cut too (ulib.c).            *)
UserlandSound == /\ program = "grep" => G!LinesSelected
                 /\ program = "printf" => P!PrintsPieces
                 /\ program = "tests" => T!ForksCounted /\ T!ChainOfFiles
                 /\ program = "library" => U!WritesSound /\ U!LooksSound

(* A reminder is printed once, in time (Assignment2).                      *)
ReminderSound == program = "shell" => F!RemindedOnce
=============================================================================

--------------------------------- MODULE Ulib ---------------------------------
(***************************************************************************)
(* The library of xv6's user programs (ulib.c), and the one loop of        *)
(* invertcase.c, on a memory of bytes.  A step is one turn of a function's *)
(* loop, so source and destination may overlap.  A char is a number 0..255.*)
(***************************************************************************)
EXTENDS Integers, Sequences

CONSTANTS LibCalls  \* records: fn, the memory, what fn is called with and can read

VARIABLES lib,    \* the call: fn, mem, s, t, n, input
          mem,    \* address -> byte
          turn,   \* the turns of the loop so far
          value,  \* of atoi
          result

Running == -1000
Null == -1

Init ==
    /\ lib \in LibCalls
    /\ mem = lib.mem
    /\ turn = 0 /\ value = 0
    /\ result = Running

Called(fn) == lib.fn = fn /\ result = Running

Again == turn' = turn + 1 /\ UNCHANGED <<lib, result>>
Returns(r) == result' = r /\ UNCHANGED <<lib, turn>>

(* What the two pointers point to in this turn. *)
S == mem[lib.s + turn]
T == mem[lib.t + turn]

-----------------------------------------------------------------------------
Strcpy ==
    /\ Called("strcpy")
    /\ mem' = [mem EXCEPT ![lib.s + turn] = T]
    /\ IF T # 0 THEN Again ELSE Returns(lib.s)
    /\ UNCHANGED value

Strcmp ==
    /\ Called("strcmp")
    /\ IF S # 0 /\ S = T THEN Again ELSE Returns(S - T)
    /\ UNCHANGED <<mem, value>>

Strlen ==
    /\ Called("strlen")
    /\ IF S # 0 THEN Again ELSE Returns(turn)
    /\ UNCHANGED <<mem, value>>

(* Unlike the C library's, it does not find the 0 at the end. *)
Strchr ==
    /\ Called("strchr")
    /\ CASE S = 0 -> Returns(Null)
         [] S # 0 /\ S = lib.n -> Returns(lib.s + turn)
         [] OTHER -> Again
    /\ UNCHANGED <<mem, value>>

(* stosb is one instruction. *)
Memset ==
    /\ Called("memset")
    /\ mem' = [a \in DOMAIN mem |->
                  IF a \in lib.s..(lib.s + lib.n - 1) THEN lib.t ELSE mem[a]]
    /\ Returns(lib.s)
    /\ UNCHANGED value

(* Forwards, whichever of the two comes first. *)
Memmove ==
    /\ Called("memmove")
    /\ IF turn < lib.n THEN mem' = [mem EXCEPT ![lib.s + turn] = T] /\ Again
                    ELSE Returns(lib.s) /\ UNCHANGED mem
    /\ UNCHANGED value

Digit(c) == c \in 48..57

Atoi ==
    /\ Called("atoi")
    /\ IF Digit(S) THEN value' = value * 10 + S - 48 /\ Again ELSE Returns(value) /\ UNCHANGED value
    /\ UNCHANGED mem

(* One byte at a time, until there is no room, no input, or a line. *)
Newline(c) == c \in {10, 13}

Gets ==
    /\ Called("gets")
    /\ IF /\ turn + 1 < lib.n /\ turn < Len(lib.input)
          /\ turn > 0 => ~Newline(lib.input[turn])
       THEN mem' = [mem EXCEPT ![lib.s + turn] = lib.input[turn + 1]] /\ Again
       ELSE mem' = [mem EXCEPT ![lib.s + turn] = 0] /\ Returns(lib.s)
    /\ UNCHANGED value

(* The loop of invertcase over one argument. *)
Inverted(c) == CASE c \in 65..90 -> c + 32
                 [] c \in 97..122 -> c - 32
                 [] OTHER -> c

Invertcase ==
    /\ Called("invertcase")
    /\ IF S # 0 THEN mem' = [mem EXCEPT ![lib.s + turn] = Inverted(S)] /\ Again
                ELSE Returns(lib.s) /\ UNCHANGED mem
    /\ UNCHANGED value

Next ==
    \/ Strcpy \/ Strcmp \/ Strlen \/ Strchr \/ Memset \/ Memmove \/ Atoi \/ Gets
    \/ Invertcase

-----------------------------------------------------------------------------
(* Properties *)

Done(fn) == lib.fn = fn /\ result # Running

(* The string at a before the call, without its 0. *)
String(a) ==
    LET end == CHOOSE b \in DOMAIN mem : /\ b >= a /\ lib.mem[b] = 0
                                         /\ \A c \in a..(b - 1) : lib.mem[c] # 0
    IN  SubSeq([j \in 1..(end - a + 1) |-> lib.mem[a + j - 1]], 1, end - a)

Common(p, q) == {j \in 0..Len(p) : j <= Len(q) /\ SubSeq(p, 1, j) = SubSeq(q, 1, j)}

Writes(c) == \A a \in DOMAIN mem :
                mem[a] = IF a - lib.s + 1 \in DOMAIN c THEN c[a - lib.s + 1] ELSE lib.mem[a]

(* The two cases of each letter. *)
Letters == {{65 + i, 97 + i} : i \in 0..25}

(* The functions that write: what they should have put at s, and nothing   *)
(* elsewhere.  memmove repeats the beginning of what it moves if that      *)
(* overlaps what it overwrites and comes first; gets reads a line, or the  *)
(* piece of one that there is room for, and leaves the rest to be read.    *)
WritesSound ==
    /\ Done("strcpy") => Writes(Append(String(lib.t), 0))
    /\ Done("memset") => Writes([j \in 1..lib.n |-> lib.t])
    /\ Done("memmove") =>
          LET gap == lib.s - lib.t
          IN  Writes([j \in 1..lib.n |->
                        lib.mem[lib.t + (IF gap > 0 THEN (j - 1) % gap ELSE j - 1)]])
    /\ Done("gets") =>
          \E j \in 0..Len(lib.input) :
              /\ Writes(Append(SubSeq(lib.input, 1, j), 0))
              /\ j < lib.n /\ \A i \in 1..(j - 1) : ~Newline(lib.input[i])
              /\ \/ j = lib.n - 1 \/ j = Len(lib.input)
                 \/ j > 0 /\ Newline(lib.input[j])
    /\ Done("invertcase") =>
          \A a \in DOMAIN mem :
              LET c == lib.mem[a]
              IN  IF c \in UNION Letters /\ a < lib.s + Len(String(lib.s))
                  THEN {c, mem[a]} \in Letters ELSE mem[a] = c

(* The functions that look: strcmp orders strings as sequences of unsigned *)
(* bytes, a prefix first; atoi is the number that the digits spell.        *)
LooksSound ==
    /\ Done("strlen") => result = Len(String(lib.s))
    /\ Done("strcmp") =>
          LET p == Append(String(lib.s), 0)
              q == Append(String(lib.t), 0)
              same == CHOOSE j \in Common(p, q) : \A i \in Common(p, q) : i <= j
          IN  IF p = q THEN result = 0
              ELSE result # 0 /\ (p[same + 1] < q[same + 1] <=> result < 0)
    /\ Done("strchr") =>
          LET s == String(lib.s)
              at == {j \in 1..Len(s) : s[j] = lib.n}
          IN  IF at = {} THEN result = Null
              ELSE result - lib.s + 1 \in at /\ \A j \in at : result - lib.s + 1 <= j
    /\ Done("atoi") =>
          LET s == String(lib.s)
              l == CHOOSE j \in 0..Len(s) : /\ \A i \in 1..j : Digit(s[i])
                                            /\ j = Len(s) \/ ~Digit(s[j + 1])
          IN  /\ result \in 0..(10^l - 1)
              /\ \A j \in 1..l : (result \div 10^(l - j)) % 10 = s[j] - 48
=============================================================================

------------------------------- MODULE Printf -------------------------------
(***************************************************************************)
(* printf of xv6's user programs (printf.c): a machine of two states that  *)
(* reads the format, takes its arguments one after the other, and converts *)
(* them.  A step is one character of the format.                           *)
(***************************************************************************)
EXTENDS Integers, Sequences, FiniteSets, SequencesExt

CONSTANTS Formats,  \* sequences of characters
          W,        \* the bits of int, uint
          Words,    \* the arguments: unsigned numbers
          Texts     \* the strings by their addresses, which are words; 0 is none

VARIABLES fmt, args,
          i, state, ap,  \* what has been read of fmt, and of args
          output

pvars == <<fmt, args, i, state, ap, output>>

(* Position k of the format is what a % stands before, that is not itself  *)
(* what a % stands before.                                                 *)
Conversion(k) ==
    \E m \in 0..(k - 1) : /\ (k - 1 - m) % 2 = 1
                          /\ \A j \in (m + 1)..(k - 1) : fmt[j] = "%"
                          /\ m = 0 \/ fmt[m] # "%"

Takers == {k \in 1..Len(fmt) : Conversion(k) /\ fmt[k] \in {"d", "x", "s"}}

(* As many arguments as the format asks for, and of the right types. *)
Init ==
    /\ fmt \in Formats
    /\ args \in {a \in [1..Cardinality(Takers) -> Words] :
                    \A k \in Takers : fmt[k] = "s" =>
                        a[Cardinality({j \in Takers : j <= k})]
                            \in DOMAIN Texts \cup {0}}
    /\ i = 0 /\ state = "text" /\ ap = 1 /\ output = <<>>

-----------------------------------------------------------------------------
digits == <<"0", "1", "2", "3", "4", "5", "6", "7",
            "8", "9", "A", "B", "C", "D", "E", "F">>

(* A number of W bits is negative if its highest bit is set. *)
Negative(xx) == xx >= 2^(W - 1)

(* A loop that tests before it converts: a mutation. *)
DigitsWhile(x, base) ==
    LET buf[y \in 0..(2^W - 1)] ==
            IF y = 0 THEN <<>> ELSE <<digits[(y % base) + 1]>> \o buf[y \div base]
    IN  buf[x]

(* buf: the digits from the last to the first. *)
Digits(x, base) ==
    LET buf[y \in 0..(2^W - 1)] ==
            <<digits[(y % base) + 1]>> \o (IF y \div base = 0 THEN <<>> ELSE buf[y \div base])
    IN  buf[x]

PrintInt(xx, base, sgn) ==
    IF sgn /\ Negative(xx)
    THEN Reverse(Append(Digits((2^W - xx) % 2^W, base), "-"))
    ELSE Reverse(Digits(xx, base))

-----------------------------------------------------------------------------
Putc(s) == output' = output \o s

Step(c) == i < Len(fmt) /\ fmt[i + 1] = c /\ i' = i + 1 /\ UNCHANGED <<fmt, args>>

Plain(c) ==
    /\ Step(c) /\ state = "text"
    /\ IF c = "%" THEN state' = "%" /\ UNCHANGED output
                  ELSE Putc(<<c>>) /\ UNCHANGED state
    /\ UNCHANGED ap

(* %d and %x convert a number, %s copies a string. *)
Argument(c) ==
    /\ Step(c) /\ state = "%" /\ c \in {"d", "x", "s"}
    /\ Putc(CASE c = "d" -> PrintInt(args[ap], 10, TRUE)
              [] c = "x" -> PrintInt(args[ap], 16, FALSE)
              [] c = "s" /\ args[ap] = 0 -> <<"(null)">>
              [] OTHER -> Texts[args[ap]])
    /\ ap' = ap + 1 /\ state' = "text"

(* %% prints one, and an unknown sequence is printed as it is. *)
Unknown(c) ==
    /\ Step(c) /\ state = "%" /\ c \notin {"d", "x", "s"}
    /\ Putc(IF c = "%" THEN <<"%">> ELSE <<"%", c>>)
    /\ state' = "text" /\ UNCHANGED ap

Next == \E k \in 1..Len(fmt) : Plain(fmt[k]) \/ Argument(fmt[k]) \/ Unknown(fmt[k])

-----------------------------------------------------------------------------
(* What a position of the format stands for, without a machine: a number is*)
(* the numeral without a leading zero that has its value.                  *)
Length(x, base) == IF x = 0 THEN 1 ELSE CHOOSE n \in 1..W : base^(n - 1) <= x /\ x < base^n

Numeral(x, base) ==
    LET n == Length(x, base)
    IN  [k \in 1..n |-> digits[((x \div base^(n - k)) % base) + 1]]

Signed(x) ==
    IF x < 2^(W - 1) THEN Numeral(x, 10) ELSE <<"-">> \o Numeral(2^W - x, 10)

Piece(k) ==
    LET arg == args[Cardinality({j \in Takers : j <= k})]
    IN  CASE ~Conversion(k) /\ fmt[k] = "%" -> <<>>
          [] ~Conversion(k) /\ fmt[k] # "%" -> <<fmt[k]>>
          [] Conversion(k) /\ fmt[k] = "d" -> Signed(arg)
          [] Conversion(k) /\ fmt[k] = "x" -> Numeral(arg, 16)
          [] Conversion(k) /\ fmt[k] = "s" -> IF arg = 0 THEN <<"(null)">> ELSE Texts[arg]
          [] Conversion(k) /\ fmt[k] = "%" -> <<"%">>
          [] OTHER -> <<"%", fmt[k]>>

(* What is printed is the pieces of the format in their order, each with   *)
(* the argument that is its own, negative numbers, the smallest one and    *)
(* zero included, though the machine only knows the last character.        *)
PrintsPieces == output = FlattenSeq([k \in 1..i |-> Piece(k)])
=============================================================================

-------------------------------- MODULE Grep --------------------------------
(***************************************************************************)
(* grep of xv6 (grep.c): a buffer that read fills as far as it likes, the  *)
(* lines in it, and the matcher of Kernighan and Pike.  A step is one turn *)
(* of the loop over read.  The end of a string is the end of a sequence.   *)
(***************************************************************************)
EXTENDS Integers, Sequences

CONSTANTS Patterns, Inputs,
          BufSize,  \* of buf; 1024 in the code
          NL        \* '\n'

VARIABLES re,       \* the pattern
          rest,     \* of the input
          buf,      \* the m bytes that stay for the next turn
          out,
          kept      \* history: what has been read, but for what was dropped

gvars == <<re, rest, buf, out, kept>>

Init ==
    /\ re \in Patterns /\ rest \in Inputs
    /\ buf = <<>> /\ out = <<>> /\ kept = <<>>

(* A character is a string. *)
Text == Seq(STRING)

Skip(s, k) == SubSeq(s, k + 1, Len(s))

-----------------------------------------------------------------------------
(* The matcher *)

(* matchstar that wants one character at least: a mutation. *)
MatchPlus(here, c, r, text) ==
    \E k \in 1..Len(text) : /\ \A j \in 1..k : text[j] = c \/ c = "."
                            /\ here[r, Skip(text, k)]

(* The loop of matchstar: k characters c, and then matchhere of the rest. *)
MatchStar(here, c, r, text) ==
    \E k \in 0..Len(text) : /\ \A j \in 1..k : text[j] = c \/ c = "."
                            /\ here[r, Skip(text, k)]

MatchHere[r \in Text, text \in Text] ==
    CASE r = <<>> -> TRUE
      [] Len(r) > 1 /\ r[2] = "*" -> MatchStar(MatchHere, r[1], Skip(r, 2), text)
      [] r = <<"$">> -> text = <<>>
      [] OTHER -> /\ text # <<>> /\ (r[1] = "." \/ r[1] = text[1])
                  /\ MatchHere[Skip(r, 1), Skip(text, 1)]

Match(r, text) ==
    IF r # <<>> /\ r[1] = "^" THEN MatchHere[Skip(r, 1), text]
    ELSE \E k \in 0..Len(text) : MatchHere[r, Skip(text, k)]

-----------------------------------------------------------------------------
(* grep *)

Ends(s) == {k \in 1..Len(s) : s[k] = NL}

(* The loop over strchr: the lines of s that match, and what follows them. *)
Lines[s \in Text] ==
    IF Ends(s) = {} THEN <<>>
    ELSE LET k == CHOOSE k \in Ends(s) : \A j \in Ends(s) : k <= j
             line == SubSeq(s, 1, k)
         IN  (IF Match(re, SubSeq(s, 1, k - 1)) THEN line ELSE <<>>)
             \o Lines[Skip(s, k)]

AfterLines(s) ==
    IF Ends(s) = {} THEN s
    ELSE Skip(s, CHOOSE k \in Ends(s) : \A j \in Ends(s) : j <= k)

(* read returns as much as fits or less; at the end nothing, and grep ends.*)
(* A buffer without a newline is dropped (p == buf).                       *)
Read ==
    /\ rest # <<>>
    /\ \E k \in 1..(BufSize - Len(buf) - 1) :
          /\ k <= Len(rest)
          /\ LET s == buf \o SubSeq(rest, 1, k)
             IN  /\ out' = out \o Lines[s]
                 /\ buf' = IF Ends(s) = {} THEN <<>> ELSE AfterLines(s)
                 /\ kept' = IF Ends(s) = {} THEN SubSeq(kept, 1, Len(kept) - Len(buf))
                            ELSE kept \o SubSeq(rest, 1, k)
          /\ rest' = Skip(rest, k)
    /\ UNCHANGED re

Next == Read

-----------------------------------------------------------------------------
(* What a pattern means, without a matcher: the items it is made of, each  *)
(* with the stretch of the line that it stands for.                        *)
Items[r \in Text] ==
    CASE r = <<>> -> <<>>
      [] Len(r) > 1 /\ r[2] = "*" -> <<[c |-> r[1], many |-> TRUE]>> \o Items[Skip(r, 2)]
      [] OTHER -> <<[c |-> r[1], many |-> FALSE]>> \o Items[Skip(r, 1)]

Fits(item, s) ==
    /\ item.many \/ Len(s) = 1
    /\ \A k \in 1..Len(s) : item.c = "." \/ s[k] = item.c

Selects(r, line) ==
    LET first == r # <<>> /\ r[1] = "^"
        all == Items[IF first THEN Skip(r, 1) ELSE r]
        last == all # <<>> /\ all[Len(all)] = [c |-> "$", many |-> FALSE]
        items == IF last THEN SubSeq(all, 1, Len(all) - 1) ELSE all
    IN  \E cut \in [0..Len(items) -> 0..Len(line)] :
           /\ first => cut[0] = 0
           /\ last => cut[Len(items)] = Len(line)
           /\ \A k \in 1..Len(items) :
                 /\ cut[k - 1] <= cut[k]
                 /\ Fits(items[k], SubSeq(line, cut[k - 1] + 1, cut[k]))

IsLine(s, j, k) == /\ j <= k /\ s[k] = NL /\ (j = 1 \/ s[j - 1] = NL)
                   /\ \A i \in j..(k - 1) : s[i] # NL

(* The output is the lines of the input that the pattern selects, whole and*)
(* once, in their order, however read cuts the input into pieces, but for  *)
(* the part of a line that is dropped; and the buffer has room for a byte. *)
Selected[s \in Text, j \in Nat] ==
    IF \A k \in 1..Len(s) : ~IsLine(s, j, k) THEN <<>>
    ELSE LET k == CHOOSE k \in 1..Len(s) : IsLine(s, j, k)
         IN  (IF Selects(re, SubSeq(s, j, k - 1)) THEN SubSeq(s, j, k) ELSE <<>>)
             \o Selected[s, k + 1]

LinesSelected ==
    /\ out = Selected[kept, 1]
    /\ Len(buf) < BufSize - 1
    /\ \E k \in 0..Len(kept) : buf = Skip(kept, k) /\ Ends(buf) = {}
=============================================================================

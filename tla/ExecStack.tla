------------------------------ MODULE ExecStack ------------------------------
(***************************************************************************)
(* The arguments of exec (exec.c): the strings and then ustack are copied  *)
(* to the top of the new image, downwards, by copyout, which asks for the  *)
(* user bit of every page.  The image here has a page of the program, the  *)
(* page that clearpteu makes inaccessible, and the stack.                  *)
(*                                                                         *)
(* Memory is bytes, a word is four of them with the lowest first.  Where   *)
(* the pages come from, and what becomes of them when exec fails, is in    *)
(* AddressSpace.                                                           *)
(***************************************************************************)
EXTENDS Integers, Sequences

CONSTANTS Argvs,  \* the argument vectors: sequences of sequences of bytes, not 0
          PGSIZE, MAXARG

VARIABLES argv,
          argc, sp, ustack,  \* ustack: the addresses from ustack[3] on
          mem,               \* of the image: address -> byte
          pc                 \* "push", and then "commit" or "bad"

evars == <<argv, argc, sp, ustack, mem, pc>>

sz == 3 * PGSIZE

Init ==
    /\ argv \in Argvs
    /\ argc = 0 /\ sp = sz /\ ustack = <<>>
    /\ mem = [a \in 0..(sz - 1) |-> 0]
    /\ pc = "push"

-----------------------------------------------------------------------------
(* uva2ka's answer: the page of the address is the user's. *)
User(a) == a \in 0..(sz - 1) /\ a \div PGSIZE # 1

(* copyout of s to `to`, after which sp is there.  Below 0 the address has *)
(* wrapped, and is the kernel's.  What a failing copyout has written goes  *)
(* with the image.                                                         *)
Copyout(to, s) ==
    IF \A k \in 0..(Len(s) - 1) : User(to + k)
    THEN /\ mem' = [a \in 0..(sz - 1) |-> IF a \in to..(to + Len(s) - 1)
                                          THEN s[a - to + 1] ELSE mem[a]]
         /\ sp' = to
    ELSE UNCHANGED <<mem, sp>>

Down(a) == 4 * (a \div 4)

(* strlen without + 1: a mutation. *)
Unterminated(s) == s

(* strlen + 1 bytes. *)
Terminated(s) == Append(s, 0)

Push ==
    /\ pc = "push" /\ argc < Len(argv)
    /\ LET s == Terminated(argv[argc + 1])
           to == Down(sp - Len(s))
       IN  IF argc >= MAXARG \/ \E k \in 0..(Len(s) - 1) : ~User(to + k)
           THEN pc' = "bad" /\ UNCHANGED <<argc, sp, ustack, mem>>
           ELSE /\ Copyout(to, s)
                /\ ustack' = Append(ustack, to)
                /\ argc' = argc + 1
                /\ UNCHANGED pc
    /\ UNCHANGED argv

(* The fake return address has all bits set. *)
Fake == <<255, 255, 255, 255>>

Bytes(w) == <<w % 256, (w \div 256) % 256, (w \div 65536) % 256, (w \div 16777216) % 256>>

(* ustack: the return address, argc, argv, the strings' addresses, 0. *)
Block ==
    LET words == <<argc, sp - (argc + 1) * 4>> \o ustack \o <<0>>
    IN  Fake \o [k \in 1..(4 * Len(words)) |->
                    Bytes(words[((k - 1) \div 4) + 1])[((k - 1) % 4) + 1]]

PushUstack ==
    /\ pc = "push" /\ argc = Len(argv)
    /\ LET to == sp - (3 + argc + 1) * 4
       IN  /\ Copyout(to, Block)
           /\ pc' = IF sp' = to THEN "commit" ELSE "bad"
    /\ UNCHANGED <<argv, argc, ustack>>

Over == pc # "push" /\ UNCHANGED evars

Next == Push \/ PushUstack \/ Over

-----------------------------------------------------------------------------
(* Properties *)

(* Outside of the image there is nothing. *)
Byte(a) == IF a \in 0..(sz - 1) THEN mem[a] ELSE -1

At(a, s) == \A k \in 1..Len(s) : Byte(a + k - 1) = s[k]

(* main of the new program finds its arguments where the calling convention*)
(* puts them: the strings whole, terminated, none over another, and nothing*)
(* outside of the stack page.                                              *)
MainGetsArguments ==
    pc = "commit" =>
        /\ sp % 4 = 0 /\ At(sp, Fake)
        /\ At(sp + 4, Bytes(Len(argv))) /\ At(sp + 8, Bytes(sp + 12))
        /\ \A k \in 1..Len(argv) : \E a \in (2 * PGSIZE)..(sz - 1) :
              At(sp + 8 + 4 * k, Bytes(a)) /\ At(a, Append(argv[k], 0))
        /\ At(sp + 12 + 4 * Len(argv), Bytes(0))
        /\ sp >= 2 * PGSIZE /\ \A a \in 0..(2 * PGSIZE - 1) : mem[a] = 0

(* exec refuses only what is too much: too many arguments, or more bytes   *)
(* than the stack page has.                                                *)
Need[k \in Nat] == IF k = 0 THEN 0 ELSE Need[k - 1] - Down(-(Len(argv[k]) + 1))

RefusesTooMuch ==
    pc = "bad" => Len(argv) > MAXARG \/ Need[Len(argv)] + 4 * (Len(argv) + 4) > PGSIZE
=============================================================================

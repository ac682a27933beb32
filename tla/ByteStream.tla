------------------------------ MODULE ByteStream ------------------------------
(***************************************************************************)
(* What an xv6 pipe promises its users: a bounded first-in first-out       *)
(* stream of bytes between a write end and a read end.  A reader is told   *)
(* that the stream is over only when the write end is closed and every     *)
(* byte has been read; nothing is sent after that.                         *)
(***************************************************************************)
EXTENDS Naturals, Sequences

CONSTANTS Bytes, Capacity, Readers

VARIABLES queue,   \* the bytes sent and not yet received
          sendable, receivable,  \* the ends that are still open
          over     \* the readers that were told the stream is over

streamVars == <<queue, sendable, receivable, over>>

StreamInit ==
    /\ queue = <<>>
    /\ sendable = TRUE
    /\ receivable = TRUE
    /\ over = {}

Send(b) ==
    /\ sendable
    /\ Len(queue) < Capacity
    /\ queue' = Append(queue, b)
    /\ UNCHANGED <<sendable, receivable, over>>

Receive ==
    /\ receivable
    /\ queue # <<>>
    /\ queue' = Tail(queue)
    /\ UNCHANGED <<sendable, receivable, over>>

TellOver(r) ==
    /\ receivable
    /\ ~sendable
    /\ queue = <<>>
    /\ over' = over \cup {r}
    /\ UNCHANGED <<queue, sendable, receivable>>

CloseSender ==
    /\ sendable' = FALSE
    /\ UNCHANGED <<queue, receivable, over>>

CloseReceiver ==
    /\ receivable' = FALSE
    /\ UNCHANGED <<queue, sendable, over>>

StreamNext ==
    \/ \E b \in Bytes : Send(b)
    \/ Receive
    \/ \E r \in Readers : TellOver(r)
    \/ CloseSender
    \/ CloseReceiver

StreamSpec == StreamInit /\ [][StreamNext]_streamVars
=============================================================================

----------------------------- MODULE PacketFifo -----------------------------
(***************************************************************************)
(* What the FIFO of the EIB741 driver promises its readers: a bounded      *)
(* queue that gives up its oldest packet when it is full, and remembers    *)
(* that it did until a reader has been told.                               *)
(***************************************************************************)
EXTENDS Integers, Sequences

CONSTANTS Packet
VARIABLES queue, capacity, overflow

vars == <<queue, capacity, overflow>>

Init == queue = <<>> /\ capacity = 0 /\ overflow = FALSE

Put ==
    \E p \in Packet :
       \/ /\ Len(queue) < capacity
          /\ queue' = Append(queue, p) /\ UNCHANGED overflow
       \/ /\ Len(queue) = capacity /\ capacity > 0
          /\ queue' = Append(Tail(queue), p) /\ overflow' = TRUE

Take == queue # <<>> /\ ~overflow /\ queue' = Tail(queue) /\ UNCHANGED overflow

\* The reader of raw packets loses one with the report.
Report ==
    /\ overflow /\ overflow' = FALSE /\ queue # <<>>
    /\ queue' = queue \/ queue' = Tail(queue)

Clear == queue' = <<>> /\ UNCHANGED overflow

\* A mode is selected: with it comes a new queue, or none.
Renew == queue' = <<>> /\ overflow' = FALSE /\ capacity' \in Nat

Next ==
    \/ (Put \/ Take \/ Report \/ Clear) /\ UNCHANGED capacity
    \/ Renew

Spec == Init /\ [][Next]_vars
=============================================================================

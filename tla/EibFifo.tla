------------------------------- MODULE EibFifo -------------------------------
(***************************************************************************)
(* The packet FIFO of the EIB741 driver (EIBLib/src/fifo.c): a ring of     *)
(* slots with the indices start and end, of which one slot stays empty,    *)
(* and a flag that says that packets were overwritten.  A FIFO is a record *)
(* and an operation maps it to the FIFO that it leaves.                    *)
(***************************************************************************)
EXTENDS Integers, Sequences

CONSTANTS Packet, NoPacket
ASSUME NoPacketAssumption == NoPacket \notin Packet

\* max is MAXELEMENTS, the number of slots.
CreateFIFO(max) ==
    [data |-> [i \in 0 .. max - 1 |-> NoPacket], max |-> max,
     start |-> 0, end |-> 0, overflow |-> FALSE]

\* EIB_DestroyFIFO() clears the whole structure.
DestroyedFIFO == CreateFIFO(0)

IsFIFO(f) ==
    /\ f.max \in Nat
    /\ f \in [data : [0 .. f.max - 1 -> Packet \cup {NoPacket}], max : {f.max},
              start : Nat, end : Nat, overflow : BOOLEAN]
    /\ f.max = 0 => f.start = 0 /\ f.end = 0
    /\ f.max > 0 => f.start < f.max /\ f.end < f.max

NumElements(f) ==
    IF f.end >= f.start THEN f.end - f.start ELSE f.max - f.start + f.end

FreeElements(f) ==
    IF f.max - NumElements(f) - 1 < 0 THEN 0 ELSE f.max - NumElements(f) - 1

\* The slot after slot i.
Wrapped(f, i) == IF i + 1 >= f.max THEN 0 ELSE i + 1

\* Mutant: the reader is not told that the oldest packet is gone.
InsertFIFOQuiet(f, p) ==
    LET end == Wrapped(f, f.end) IN
    [f EXCEPT !.data[f.end] = p, !.end = end,
              !.start = IF end = f.start THEN Wrapped(f, f.start) ELSE f.start]

\* Mutant: the start stays, and the full FIFO looks empty.
InsertFIFOStuck(f, p) ==
    LET end == Wrapped(f, f.end) IN
    [f EXCEPT !.data[f.end] = p, !.end = end, !.overflow = f.overflow \/ end = f.start]

\* A full FIFO gives up its oldest packet.
InsertFIFO(f, p) ==
    LET end == Wrapped(f, f.end)
        full == end = f.start
    IN [f EXCEPT !.data[f.end] = p, !.end = end,
                 !.overflow = f.overflow \/ full,
                 !.start = IF full THEN Wrapped(f, f.start) ELSE f.start]

Oldest(f) == f.data[f.start]

\* Mutant: the index runs past the last slot before it wraps.
RemoveElementFIFOLate(f) == [f EXCEPT !.start = IF f.start + 1 > f.max THEN 0 ELSE f.start + 1]

RemoveElementFIFO(f) == [f EXCEPT !.start = Wrapped(f, f.start)]

\* The error EIB7_FIFOOverflow is returned once.
Reported(f) == [f EXCEPT !.overflow = FALSE]

\* EIB_RetrieveFIFO() takes the oldest packet, also when it returns the error.
RetrieveFIFO(f) == Reported(RemoveElementFIFO(f))

\* The overflow flag stays.
ClearFIFO(f) == [f EXCEPT !.start = 0, !.end = 0]

\* The slot i places after the oldest packet.
Place(f, i) == IF f.start + i >= f.max THEN f.start + i - f.max ELSE f.start + i

\* The packets in the FIFO, oldest first.
Contents(f) == [i \in 1 .. NumElements(f) |-> f.data[Place(f, i - 1)]]
=============================================================================

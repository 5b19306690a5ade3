------------------------------ MODULE EventLog ------------------------------
(***************************************************************************)
(* What the data path of a laser run promises: a log of laser events, each *)
(* trigger at most once and in the order of the triggers, and each line    *)
(* with a scan step that run control has announced and that is not older   *)
(* than the step it has already been told was received.                    *)
(***************************************************************************)
EXTENDS Integers, Sequences

CONSTANT Triggers  \* the trigger counts an event can have

VARIABLES announced,  \* step of the last data message run control sent
          confirmed,  \* last step acknowledged to it
          log         \* the lines of the run's text file

elVars == <<announced, confirmed, log>>

Init == announced = -1 /\ confirmed = -1 /\ log = <<>>

Announce ==
    /\ announced' = announced + 1
    /\ UNCHANGED <<confirmed, log>>

Confirm ==
    /\ confirmed' = announced
    /\ UNCHANGED <<announced, log>>

\* A line may follow the log: a later trigger, and no earlier step.
Follows(line) ==
    \A i \in DOMAIN log : log[i].trig < line.trig /\ log[i].step <= line.step

RecordEvent ==
    /\ \E step \in confirmed .. announced : \E trig \in Triggers :
          /\ Follows([step |-> step, trig |-> trig])
          /\ log' = Append(log, [step |-> step, trig |-> trig])
    /\ UNCHANGED <<announced, confirmed>>

Next == Announce \/ Confirm \/ RecordEvent

Spec == Init /\ [][Next]_elVars
=============================================================================

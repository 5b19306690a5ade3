----------------------------- MODULE MCHomeAxis -----------------------------
(***************************************************************************)
(* The axes of the configuration files in units of 10000 microsteps: the   *)
(* rotary axes home in the negative direction and make the reference move, *)
(* the linear axis of server 1 homes in the positive one; the files of     *)
(* config/ give the first a negative overshoot.                            *)
(***************************************************************************)
EXTENDS HomeAxis

MCConfigs == {[direction |-> 1, max |-> 2, ref |-> TRUE],
              [direction |-> 3, max |-> 2, ref |-> FALSE],
              [direction |-> 1, max |-> -2, ref |-> FALSE]}
=============================================================================

---------------------------- MODULE ConclaveLife ----------------------------
(***************************************************************************)
(* What a conclave promises its members: it is planned (or called off),    *)
(* it begins with round 1, its rounds only move forward, it is over once,  *)
(* and then for good.                                                      *)
(***************************************************************************)
EXTENDS Integers

CONSTANT Rounds

VARIABLES stage, round

vars == <<stage, round>>

Init == stage = "planned" /\ round = 0

Begin == /\ stage = "planned"
         /\ stage' = "live"
         /\ round' = 1

Advance == /\ stage = "live"
           /\ round' \in (round + 1)..Rounds
           /\ UNCHANGED stage

\* Completed in the room, or by the sweep.
Finish == /\ stage = "live"
          /\ stage' = "over"
          /\ round' = 0

Next == Begin \/ Advance \/ Finish

Spec == Init /\ [][Next]_vars
=============================================================================

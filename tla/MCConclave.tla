---- MODULE MCConclave ----
(* Instances of Conclave for TLC. *)
EXTENDS Conclave, TLC

CONSTANTS r1, r2

TwoRequests == {r1, r2}
OpenThenOver == {[reg |-> "open", over |-> FALSE], [reg |-> "after", over |-> TRUE]}
OneDate      == {[reg |-> "open", over |-> FALSE]}
OneRequest == {r1}
Symmetry    == Permutations(TwoRequests)

NoEdits  == {}
EditToCompleted == {"completed"}

ThreeRounds == {3}
TwoRounds   == {2}
ShortOrLongMove == {1, 3}
OneMove == {1}
OneExtension == {1}
====

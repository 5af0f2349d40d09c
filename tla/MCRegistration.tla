-------------------------- MODULE MCRegistration --------------------------
(* Instances of Registration for TLC. *)
EXTENDS Registration, TLC

CONSTANTS m1, m2, m3, r1, r2

TwoMembers   == {m1, m2}
ThreeMembers == {m1, m2, m3}
OneRequest   == {r1}
TwoRequests  == {r1, r2}

OneSeat == {1}

SomeAdditions == {[role |-> "captain", paid |-> TRUE, super |-> TRUE],
                  [role |-> "member", paid |-> FALSE, super |-> FALSE]}

PairSymmetry   == Permutations(TwoMembers) \cup Permutations(TwoRequests)
TripleSymmetry == Permutations(ThreeMembers)
=============================================================================

----------------------------- MODULE MCOneToOne -----------------------------
(* Instances of OneToOne for TLC. *)
EXTENDS OneToOne, TLC

CONSTANTS m1, m2, s1, s2, i1, i2

TwoMembers   == {m1, m2}
OneAsks      == {<<m1, m2>>}
TwoSlots     == {s1, s2}
TwoInstances == {i1, i2}

SoonOrLater == {1, 2}

PairSymmetry == Permutations(TwoSlots) \cup Permutations(TwoInstances)
=============================================================================

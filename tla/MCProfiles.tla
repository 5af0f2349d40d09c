----------------------------- MODULE MCProfiles -----------------------------
EXTENDS Profiles, TLC

CONSTANTS d1, d2

SomeFields == {"company", "email"}

Give(company, email) == [f \in SomeFields |-> IF f = "company" THEN company ELSE email]

\* Both, and another email with the company taken away.
SomePatches == {Give(d1, d1), Give(Empty, d2)}

Symmetry == Permutations(Conclaves) \cup Permutations(Files) \cup Permutations(Slots)
=============================================================================

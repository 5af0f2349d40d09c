------------------------------ MODULE MCAdmins ------------------------------
EXTENDS Admins, TLC

CONSTANTS u1, u2, u3, old, e1, e2, e3, v1, s1, s2

\* A superadmin, and an admin who has a login and has not signed in yet.
Listed == (u1 :> [email |-> e1, role |-> "superadmin", status |-> "Active"])
          @@ (old :> [email |-> e2, role |-> "admin", status |-> "Active"])
          @@ [k \in Keys |-> Null]

Logins == (u1 :> e1) @@ (u2 :> e2) @@ [u \in Uids |-> Null]

Given == {[role |-> "coordinator", status |-> "Inactive"], [role |-> "admin", status |-> "Active"]}

Symmetry == Permutations(Slots)
=============================================================================

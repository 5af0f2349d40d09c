---------------------------- MODULE MCReferrals ----------------------------
(* Instances of Referrals for TLC. *)
EXTENDS Referrals, TLC

CONSTANTS r1, i1, u1, u2

OneRequest == {r1}
OneReferral == {i1}
TwoUploads == {u1, u2}
TwoRounds == {2}
OneMove == {1}
NoExtension == {}
NoEdits == {}
OneDate == {[reg |-> "open", over |-> FALSE]}
AnyDrift == -1..1
JustPending == {"Pending"}
JustClosed == {"closed"}
UploadSymmetry == Permutations(TwoUploads)
=============================================================================

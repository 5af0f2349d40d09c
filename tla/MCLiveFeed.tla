----------------------------- MODULE MCLiveFeed -----------------------------
(* Instances of LiveFeed for TLC. *)
EXTENDS LiveFeed, TLC

CONSTANTS s1, s2

TwoStreams == {s1, s2}
=============================================================================

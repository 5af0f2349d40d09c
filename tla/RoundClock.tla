----------------------------- MODULE RoundClock -----------------------------
(***************************************************************************)
(* The round clock of a conclave: which round it is, and which part of it. *)
(*                                                                         *)
(* Only differences of times matter to the code, so the clock is kept      *)
(* relative to the present: a row's `age' is now - currentRoundStartedAt,  *)
(* Null while no round was ever anchored.  `elapsed' is the frozen point   *)
(* roundElapsedMsBeforePause, Null when not set.  A time unit is a minute. *)
(***************************************************************************)
EXTENDS Integers, FiniteSets

CONSTANTS Bio,        \* everyone's bio: personsPerTable minutes
          Referral,   \* the shared referral slot: personsPerTable half-minutes
          Null        \* a NULL column

ASSUME ClockAssumption == /\ Bio \in Nat \ {0}
                          /\ Referral \in Nat \ {0}
                          /\ Null \notin Int

\* The talking part of a round.
Talk == Bio + Referral

Modes == {"manual", "automatic"}

\* A round has been started, so the clock has an anchor to count from.
Anchored(row) == row.round >= 1 /\ row.age # Null

\* The frozen point of a paused round; a NULL column reads as 0.
Frozen(row) == IF row.elapsed = Null \/ row.elapsed < 0 THEN 0 ELSE row.elapsed

\* Slip: the pause is not seen.
SinceAnchorUnfrozen(row) == row.age

\* The clock's time since the stored anchor: frozen while paused.
SinceAnchor(row) == IF row.paused THEN Frozen(row) ELSE row.age

\* When round k starts, counted from the anchor. The extension belongs to the
\* stored round; each later round takes its talk time and a move break.
RoundOffset(row, k) ==
  IF k = row.round
    THEN 0
    ELSE Talk + row.ext + row.move + (k - row.round - 1) * (Talk + row.move)

\* Slip: one round too many.
ReachedPastLast(row) ==
  {k \in (row.round + 1)..(row.rounds + 1) : RoundOffset(row, k) <= SinceAnchor(row)}

\* The rounds after the stored one that automatic mode has started by itself.
ReachedByClock(row) ==
  {k \in (row.round + 1)..row.rounds : RoundOffset(row, k) <= SinceAnchor(row)}

\* The round in progress, or the last one reached; 0 before round 1.
LiveRound(row) ==
  IF ~Anchored(row) THEN 0
  ELSE IF row.mode = "automatic" THEN row.round + Cardinality(ReachedByClock(row))
  ELSE row.round

\* The clock's time since the live round began.
IntoRound(row) == SinceAnchor(row) - RoundOffset(row, LiveRound(row))

LiveExtension(row) == IF LiveRound(row) = row.round THEN row.ext ELSE 0

Phase(row) ==
  LET into == IntoRound(row)
      ends == Talk + LiveExtension(row)
  IN  CASE ~Anchored(row)                    -> "not_started"
        [] Anchored(row) /\ into < Bio       -> "bio"
        [] Anchored(row) /\ into \in Bio..(Talk - 1)  -> "referral"
        [] Anchored(row) /\ into \in Talk..(ends - 1) -> "extension"
        [] Anchored(row) /\ into >= ends ->
             IF LiveRound(row) >= row.rounds THEN "done"
             ELSE IF into < ends + row.move \/ row.mode = "automatic" THEN "move"
             ELSE "waiting"

TalkPhases == {"bio", "referral", "extension"}

\* The row with its anchor moved to the round the clock is actually on, so that
\* the rounds automatic mode started without a stored update are written down.
Materialize(row) ==
  IF LiveRound(row) > row.round
    THEN [row EXCEPT !.round   = LiveRound(row),
                     !.age     = row.age - RoundOffset(row, LiveRound(row)),
                     !.ext     = 0,
                     !.elapsed = IF row.paused THEN IntoRound(row) ELSE row.elapsed]
    ELSE row
=============================================================================

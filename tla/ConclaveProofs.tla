--------------------------- MODULE ConclaveProofs ---------------------------
(***************************************************************************)
(* Proofs about the clock of a conclave, its life and its live rounds, and *)
(* the referrals given in them, for every value of the constants.          *)
(*                                                                         *)
(* First what the round clock returns, for every row the database can      *)
(* hold: the rounds that automatic mode walks through form an interval, so *)
(* the live round is one the schedule has, and it has really begun.  Then  *)
(* the two invariants of the conclave, what each step does to the round    *)
(* being played, and the refinement of ConclaveLife.  Last the referrals,  *)
(* which rest on both: a referral is judged by the clock as it stood, so   *)
(* the judgement is right as long as no step moved the round's start.      *)
(***************************************************************************)
EXTENDS Referrals, FiniteSetTheorems, TLAPS

-----------------------------------------------------------------------------
(* The round clock                                                         *)

\* The columns the clock reads.
ClockRow(r) ==
  /\ r.round \in Nat /\ r.rounds \in Nat
  /\ r.age \in Int \cup {Null}
  /\ r.elapsed \in Int \cup {Null}
  /\ r.ext \in Nat /\ r.move \in Nat
  /\ r.paused \in BOOLEAN /\ r.mode \in Modes

\* The anchor is not in the future, and a frozen point lies between the two:
\* what makes the clock's time run forward from its anchor.
AnchorInPast(r) ==
  /\ r.age # Null => r.age >= 0
  /\ r.paused /\ r.elapsed # Null =>
       /\ r.elapsed >= 0
       /\ r.age # Null => r.elapsed <= r.age

\* Multiplying by a natural number keeps the order.
LEMMA TimesMonotone ==
  ASSUME NEW a \in Nat, NEW b \in Nat, NEW c \in Nat, a <= b
  PROVE  a * c <= b * c
<1>1. PICK d \in Nat : b = a + d
  <2>1. b - a \in Nat /\ b = a + (b - a)
    OBVIOUS
  <2> QED BY <2>1
<1>2. b * c = a * c + d * c
  BY <1>1
<1>3. d * c \in Nat /\ a * c \in Nat
  OBVIOUS
<1> QED BY <1>2, <1>3

\* The offset of a round is a length of time, and later rounds have later ones.
LEMMA OffsetMonotone ==
  ASSUME NEW r, ClockRow(r),
         NEW j \in Nat, NEW k \in Nat, r.round < j, j <= k
  PROVE  /\ RoundOffset(r, j) \in Nat
         /\ RoundOffset(r, k) \in Nat
         /\ RoundOffset(r, j) <= RoundOffset(r, k)
<1> DEFINE T == Talk + r.move
           a == j - r.round - 1
           b == k - r.round - 1
           base == Talk + r.ext + r.move
<1>1. T \in Nat /\ base \in Nat
  BY ClockAssumption DEF ClockRow, Talk
<1>2. a \in Nat /\ b \in Nat /\ a <= b
  BY DEF ClockRow
<1>3. a * T \in Nat /\ b * T \in Nat /\ a * T <= b * T
  <2> HIDE DEF T, a, b
  <2> QED BY <1>1, <1>2, TimesMonotone
<1>4. RoundOffset(r, j) = base + a * T /\ RoundOffset(r, k) = base + b * T
  BY DEF RoundOffset, ClockRow
<1> HIDE DEF T, a, b, base
<1> QED BY <1>1, <1>3, <1>4

LEMMA TimeTypes ==
  ASSUME NEW r, ClockRow(r), Anchored(r)
  PROVE  /\ SinceAnchor(r) \in Int
         /\ r.age \in Int
         /\ AnchorInPast(r) => /\ SinceAnchor(r) \in 0..r.age
                                 /\ r.age \in Nat
BY ClockAssumption DEF ClockRow, Anchored, SinceAnchor, Frozen, AnchorInPast

\* A downward closed set of rounds after the stored one is an interval.
LEMMA ReachedIsInterval ==
  ASSUME NEW r, ClockRow(r), Anchored(r)
  PROVE  LET c == Cardinality(ReachedByClock(r))
         IN  /\ c \in Nat
             /\ c = 0 \/ r.round + c \in ReachedByClock(r)
<1> DEFINE S == ReachedByClock(r)
           lo == r.round + 1
           c == Cardinality(S)
           k == r.round + c
<1> lo \in Nat /\ r.rounds \in Nat /\ r.round \in Nat
  BY DEF ClockRow
<1>1. S \subseteq lo..r.rounds
  BY DEF ReachedByClock
<1>2. IsFiniteSet(lo..r.rounds)
      /\ Cardinality(lo..r.rounds) = IF lo > r.rounds THEN 0 ELSE r.rounds - lo + 1
  <2>1. lo \in Int /\ r.rounds \in Int
    OBVIOUS
  <2> HIDE DEF lo
  <2> QED BY <2>1, FS_Interval, Zenon
<1>3. IsFiniteSet(S) /\ c \in Nat /\ c <= Cardinality(lo..r.rounds)
  BY <1>1, <1>2, FS_Subset, FS_CardinalityType
<1>4. ASSUME c # 0 PROVE k \in S
  <2>1. k \in lo..r.rounds
    BY <1>2, <1>3, <1>4
  <2>2. SUFFICES ASSUME k \notin S PROVE FALSE
    OBVIOUS
  <2>3. ~(RoundOffset(r, k) <= SinceAnchor(r))
    BY <2>1, <2>2 DEF ReachedByClock
  <2>4. ASSUME NEW m \in S PROVE m \in lo..(k - 1)
    <3>1. m \in lo..r.rounds /\ RoundOffset(r, m) <= SinceAnchor(r)
      BY DEF ReachedByClock
    <3>2. CASE m < k
      BY <3>1, <3>2, <2>1
    <3>3. CASE m >= k
      <4>1. RoundOffset(r, k) <= RoundOffset(r, m)
            /\ RoundOffset(r, k) \in Nat /\ RoundOffset(r, m) \in Nat
        BY <3>1, <3>3, <2>1, OffsetMonotone
      <4>2. RoundOffset(r, k) <= SinceAnchor(r)
        BY <3>1, <4>1, TimeTypes
      <4> QED BY <4>2, <2>3
    <3> QED BY <3>1, <3>2, <3>3, <2>1
  <2>5. IsFiniteSet(lo..(k - 1)) /\ Cardinality(lo..(k - 1)) = c - 1
    <3> DEFINE h == k - 1
    <3>1. lo \in Int /\ h \in Int /\ (IF lo > h THEN 0 ELSE h - lo + 1) = c - 1
      BY <1>3, <1>4
    <3> HIDE DEF lo, h, c
    <3>2. IsFiniteSet(lo..h) /\ Cardinality(lo..h) = c - 1
      BY <3>1, FS_Interval, Zenon
    <3> QED BY <3>2 DEF h
  <2>6. S \in SUBSET (lo..(k - 1))
    BY <2>4
  <2>7. c <= c - 1
    <3> DEFINE D == lo..(k - 1)
    <3>1. IsFiniteSet(D) /\ S \in SUBSET D /\ Cardinality(D) = c - 1
      BY <2>5, <2>6
    <3> HIDE DEF D
    <3> QED BY <3>1, FS_Subset
  <2> QED BY <2>7, <1>3
<1> QED BY <1>3, <1>4

\* Where the clock is: on the stored round or a later one of the schedule that
\* has begun.
LEMMA LiveRoundBounds ==
  ASSUME NEW r, ClockRow(r)
  PROVE  /\ LiveRound(r) \in Nat
         /\ Anchored(r) => LiveRound(r) >= r.round
         /\ LiveRound(r) > r.round =>
              /\ Anchored(r)
              /\ r.mode = "automatic"
              /\ LiveRound(r) \in ReachedByClock(r)
<1>1. CASE ~Anchored(r)
  BY <1>1 DEF LiveRound, ClockRow
<1>2. CASE Anchored(r) /\ r.mode # "automatic"
  BY <1>2 DEF LiveRound, ClockRow
<1>3. CASE Anchored(r) /\ r.mode = "automatic"
  <2>1. LiveRound(r) = r.round + Cardinality(ReachedByClock(r))
    BY <1>3 DEF LiveRound
  <2>2. Cardinality(ReachedByClock(r)) \in Nat
    BY <1>3, ReachedIsInterval
  <2>3. Cardinality(ReachedByClock(r)) = 0
          \/ r.round + Cardinality(ReachedByClock(r)) \in ReachedByClock(r)
    BY <1>3, ReachedIsInterval
  <2> QED BY <1>3, <2>1, <2>2, <2>3 DEF ClockRow
<1> QED BY <1>1, <1>2, <1>3

\* The clock's time into the live round is never negative.
LEMMA IntoRoundNat ==
  ASSUME NEW r, ClockRow(r), AnchorInPast(r), Anchored(r)
  PROVE  /\ IntoRound(r) \in Nat
         /\ RoundOffset(r, LiveRound(r)) \in Nat
         /\ IntoRound(r) = SinceAnchor(r) - RoundOffset(r, LiveRound(r))
<1>1. SinceAnchor(r) \in Nat
  BY TimeTypes
<1>2. CASE LiveRound(r) = r.round
  BY <1>1, <1>2 DEF IntoRound, RoundOffset
<1>3. CASE LiveRound(r) > r.round
  <2>1. LiveRound(r) \in (r.round + 1)..r.rounds
        /\ RoundOffset(r, LiveRound(r)) <= SinceAnchor(r)
    BY <1>3, LiveRoundBounds DEF ReachedByClock
  <2>2. RoundOffset(r, LiveRound(r)) \in Nat
    BY <2>1, OffsetMonotone, LiveRoundBounds DEF ClockRow
  <2> QED BY <1>1, <2>1, <2>2 DEF IntoRound
<1> QED BY <1>2, <1>3, LiveRoundBounds DEF ClockRow

-----------------------------------------------------------------------------
(* Which round is live, and what moves the clock to another one            *)

\* The rounds automatic mode has walked through are those up to the live one.
LEMMA ReachedUpTo ==
  ASSUME NEW r, ClockRow(r), Anchored(r), r.mode = "automatic"
  PROVE  \A k \in (r.round + 1)..LiveRound(r) : k \in ReachedByClock(r)
<1> DEFINE L == LiveRound(r)
<1>1. L \in Nat /\ r.round \in Nat /\ r.rounds \in Nat
      /\ (L > r.round => L \in ReachedByClock(r))
  BY LiveRoundBounds DEF ClockRow
<1> HIDE DEF L
<1>2. SUFFICES ASSUME NEW k \in (r.round + 1)..L PROVE k \in ReachedByClock(r)
  BY DEF L
<1>3. k \in Nat /\ r.round < k /\ k <= L
  BY <1>1
<1>4. L \in (r.round + 1)..r.rounds /\ RoundOffset(r, L) <= SinceAnchor(r)
  BY <1>1, <1>3 DEF ReachedByClock
<1>5. /\ RoundOffset(r, k) \in Nat /\ RoundOffset(r, L) \in Nat
      /\ RoundOffset(r, k) <= RoundOffset(r, L)
  BY <1>1, <1>3, OffsetMonotone
<1>6. RoundOffset(r, k) <= SinceAnchor(r)
  BY <1>4, <1>5, TimeTypes
<1> QED BY <1>1, <1>3, <1>4, <1>6 DEF ReachedByClock

\* ... and no other: a round that has begun is not after the live one.
LEMMA LiveRoundIsLast ==
  ASSUME NEW r, ClockRow(r), Anchored(r), r.mode = "automatic",
         NEW k \in ReachedByClock(r)
  PROVE  k <= LiveRound(r)
<1> DEFINE S == ReachedByClock(r)
           c == Cardinality(S)
           I == (r.round + 1)..LiveRound(r)
<1>1. LiveRound(r) = r.round + c /\ c \in Nat /\ r.round \in Nat /\ r.rounds \in Nat
  BY ReachedIsInterval DEF LiveRound, ClockRow
<1>2. S \subseteq (r.round + 1)..r.rounds
  BY DEF ReachedByClock
<1>3. IsFiniteSet(S)
  <2> DEFINE lo == r.round + 1
             h  == r.rounds
  <2>1. lo \in Int /\ h \in Int
    BY <1>1
  <2>2. S \in SUBSET (lo..h)
    BY <1>2
  <2> HIDE DEF S, lo, h
  <2>3. IsFiniteSet(lo..h)
    BY <2>1, FS_Interval, Zenon
  <2> QED BY <2>2, <2>3, FS_Subset
<1>4. I \subseteq S
  BY ReachedUpTo
<1>5. Cardinality(I) = c
  <2> DEFINE lo == r.round + 1
             h  == LiveRound(r)
  <2>1. lo \in Int /\ h \in Int /\ (IF lo > h THEN 0 ELSE h - lo + 1) = c
    BY <1>1
  <2> HIDE DEF lo, h, c
  <2>2. Cardinality(lo..h) = c
    BY <2>1, FS_Interval, Zenon
  <2> QED BY <2>2 DEF lo, h
<1>6. I = S
  <2>1. Cardinality(S) = c
    OBVIOUS
  <2> HIDE DEF I, S, c
  <2>2. I \in SUBSET S
    BY <1>4
  <2> QED BY <1>3, <1>5, <2>1, <2>2, FS_Subset
<1> QED BY <1>1, <1>6

\* A round ends its talk, the extension it was given and a move break after it
\* began.
LEMMA OffsetStep ==
  ASSUME NEW r, ClockRow(r), NEW j \in Nat, r.round <= j
  PROVE  /\ RoundOffset(r, j) \in Nat
         /\ RoundOffset(r, j + 1) \in Nat
         /\ RoundOffset(r, j + 1) =
              RoundOffset(r, j) + Talk + (IF j = r.round THEN r.ext ELSE 0) + r.move
<1> DEFINE T == Talk + r.move
           a == j - r.round - 1
<1>1. /\ r.round \in Nat /\ Talk \in Nat /\ r.ext \in Nat /\ r.move \in Nat
      /\ T \in Nat
  BY ClockAssumption DEF ClockRow, Talk
<1>2. RoundOffset(r, j + 1) \in Nat /\ (j # r.round => RoundOffset(r, j) \in Nat)
  <2>1. r.round < j + 1 /\ j + 1 \in Nat
    BY <1>1
  <2>2. RoundOffset(r, j + 1) \in Nat
    BY <2>1, OffsetMonotone
  <2>3. ASSUME j # r.round PROVE RoundOffset(r, j) \in Nat
    BY <1>1, <2>3, OffsetMonotone
  <2> QED BY <2>2, <2>3
<1>3. CASE j = r.round
  <2>1. RoundOffset(r, j + 1) = Talk + r.ext + r.move + 0 * T
    BY <1>1, <1>3 DEF RoundOffset
  <2>2. 0 * T = 0
    BY <1>1
  <2>3. RoundOffset(r, j) = 0
    BY <1>3 DEF RoundOffset
  <2> QED BY <1>1, <1>2, <1>3, <2>1, <2>2, <2>3
<1>4. CASE j # r.round
  <2>1. /\ RoundOffset(r, j) = Talk + r.ext + r.move + a * T
        /\ RoundOffset(r, j + 1) = Talk + r.ext + r.move + (a + 1) * T
    <3>1. j + 1 # r.round /\ (j + 1) - r.round - 1 = a + 1
      BY <1>1
    <3> QED BY <1>4, <3>1 DEF RoundOffset
  <2>2. (a + 1) * T = a * T + T
    <3>1. a \in Nat
      BY <1>1, <1>4
    <3> HIDE DEF a, T
    <3> QED BY <1>1, <3>1
  <2>3. a * T \in Nat
    <3>1. a \in Nat
      BY <1>1, <1>4
    <3> HIDE DEF a, T
    <3> QED BY <1>1, <3>1
  <2> DEFINE p == a * T
             q == (a + 1) * T
  <2>4. q = p + T /\ p \in Nat
    BY <2>2, <2>3
  <2>5. RoundOffset(r, j) = Talk + r.ext + r.move + p
        /\ RoundOffset(r, j + 1) = Talk + r.ext + r.move + q
    BY <2>1
  <2> HIDE DEF p, q
  <2> QED BY <1>1, <1>2, <1>4, <2>4, <2>5
<1> QED BY <1>3, <1>4

\* Where the clock has got to: the live round is over neither yet, nor is the
\* next one reached, as long as there is a next one.
LEMMA NextNotReached ==
  ASSUME NEW r, ClockRow(r), AnchorInPast(r), Anchored(r),
         r.mode = "automatic", LiveRound(r) < r.rounds
  PROVE  /\ RoundOffset(r, LiveRound(r) + 1) > SinceAnchor(r)
         /\ IntoRound(r) < Talk + LiveExtension(r) + r.move
<1> DEFINE L == LiveRound(r)
<1>1. L \in Nat /\ L >= r.round /\ r.round \in Nat /\ r.rounds \in Nat
  BY LiveRoundBounds DEF ClockRow
<1>2. L + 1 \notin ReachedByClock(r)
  <2>1. ASSUME L + 1 \in ReachedByClock(r) PROVE FALSE
    <3>1. L + 1 <= L
      BY <2>1, LiveRoundIsLast
    <3> QED BY <1>1, <3>1
  <2> QED BY <2>1
<1>3. ~(RoundOffset(r, L + 1) <= SinceAnchor(r))
  <2>1. L + 1 \in (r.round + 1)..r.rounds
    BY <1>1
  <2> QED BY <1>2, <2>1 DEF ReachedByClock
<1>4. /\ RoundOffset(r, L) \in Nat /\ RoundOffset(r, L + 1) \in Nat
      /\ RoundOffset(r, L + 1) = RoundOffset(r, L) + Talk + LiveExtension(r) + r.move
  BY <1>1, OffsetStep DEF LiveExtension
<1>5. SinceAnchor(r) \in Int /\ IntoRound(r) = SinceAnchor(r) - RoundOffset(r, L)
  BY TimeTypes DEF IntoRound
<1>6. Talk \in Nat /\ r.move \in Nat /\ LiveExtension(r) \in Nat
  BY ClockAssumption DEF Talk, ClockRow, LiveExtension
<1> HIDE DEF L
<1>7. RoundOffset(r, L + 1) > SinceAnchor(r)
  BY <1>3, <1>4, <1>5
<1>8. IntoRound(r) < Talk + LiveExtension(r) + r.move
  BY <1>4, <1>5, <1>6, <1>7
<1> QED BY <1>7, <1>8 DEF L

\* A round that is anchored where it begins is the live one until its talk, its
\* extension and the move break are over; the last round, and any round in
\* manual mode, for ever.
LEMMA AnchoredRoundIsLive ==
  ASSUME NEW r, ClockRow(r), AnchorInPast(r), Anchored(r),
         \/ r.mode = "manual"
         \/ r.round >= r.rounds
         \/ SinceAnchor(r) < Talk + r.ext + r.move
  PROVE  /\ LiveRound(r) = r.round
         /\ IntoRound(r) = SinceAnchor(r)
         /\ LiveExtension(r) = r.ext
<1>1. r.round \in Nat /\ r.rounds \in Nat /\ LiveRound(r) \in Nat
      /\ LiveRound(r) >= r.round /\ SinceAnchor(r) \in Int
  BY LiveRoundBounds, TimeTypes DEF ClockRow
<1>2. LiveRound(r) = r.round
  <2>1. SUFFICES ASSUME LiveRound(r) > r.round PROVE FALSE
    BY <1>1
  <2>2. r.mode = "automatic" /\ LiveRound(r) \in (r.round + 1)..r.rounds
    BY <2>1, LiveRoundBounds DEF ReachedByClock
  <2>3. SinceAnchor(r) < Talk + r.ext + r.move
    BY <1>1, <2>2
  <2>4. r.round + 1 \in (r.round + 1)..LiveRound(r)
    BY <1>1, <2>1
  <2>5. RoundOffset(r, r.round + 1) <= SinceAnchor(r)
    <3>1. r.round + 1 \in ReachedByClock(r)
      BY <2>2, <2>4, ReachedUpTo
    <3> QED BY <3>1 DEF ReachedByClock
  <2>6. RoundOffset(r, r.round + 1) = Talk + r.ext + r.move
        /\ Talk \in Nat /\ r.ext \in Nat /\ r.move \in Nat
    <3>1. RoundOffset(r, r.round) = 0
      BY DEF RoundOffset
    <3>2. RoundOffset(r, r.round + 1) = 0 + Talk + r.ext + r.move
      BY <1>1, <3>1, OffsetStep
    <3>3. Talk \in Nat /\ r.ext \in Nat /\ r.move \in Nat
      BY ClockAssumption DEF ClockRow, Talk
    <3> QED BY <3>2, <3>3
  <2> QED BY <1>1, <2>3, <2>5, <2>6
<1>3. RoundOffset(r, LiveRound(r)) = 0
  BY <1>2 DEF RoundOffset
<1> QED BY <1>1, <1>2, <1>3 DEF IntoRound, LiveExtension

\* Two rows with the same rounds, lengths, mode and time since the anchor show
\* the same.
LEMMA SameClock ==
  ASSUME NEW r, NEW x, ClockRow(r), ClockRow(x), Anchored(r), Anchored(x),
         x.round = r.round, x.rounds = r.rounds, x.ext = r.ext, x.move = r.move,
         x.mode = r.mode, SinceAnchor(x) = SinceAnchor(r)
  PROVE  /\ LiveRound(x) = LiveRound(r)
         /\ IntoRound(x) = IntoRound(r)
         /\ LiveExtension(x) = LiveExtension(r)
<1>1. \A k : RoundOffset(x, k) = RoundOffset(r, k)
  BY DEF RoundOffset
<1>2. ReachedByClock(x) = ReachedByClock(r)
  BY <1>1 DEF ReachedByClock
<1>3. LiveRound(x) = LiveRound(r)
  BY <1>2 DEF LiveRound
<1> QED BY <1>1, <1>3 DEF IntoRound, LiveExtension

\* A round whose beginning is still to come is after the live one.
LEMMA NotReachedYet ==
  ASSUME NEW r, ClockRow(r), Anchored(r), NEW k \in Nat, r.round < k,
         RoundOffset(r, k) > SinceAnchor(r)
  PROVE  LiveRound(r) < k
<1>1. r.round \in Nat /\ r.rounds \in Nat /\ LiveRound(r) \in Nat
      /\ SinceAnchor(r) \in Int /\ RoundOffset(r, k) \in Nat
  BY LiveRoundBounds, TimeTypes, OffsetMonotone DEF ClockRow
<1>2. SUFFICES ASSUME LiveRound(r) >= k PROVE FALSE
  BY <1>1
<1>3. r.mode = "automatic"
  BY <1>1, <1>2, LiveRoundBounds
<1>4. k \in (r.round + 1)..LiveRound(r)
  BY <1>1, <1>2
<1>5. k \in ReachedByClock(r)
  BY <1>3, <1>4, ReachedUpTo
<1> QED BY <1>1, <1>5 DEF ReachedByClock

\* More time since the anchor shows no earlier round.
LEMMA LaterClock ==
  ASSUME NEW r, NEW x, ClockRow(r), ClockRow(x), Anchored(r), Anchored(x),
         x.round = r.round, x.rounds = r.rounds, x.ext = r.ext, x.move = r.move,
         x.mode = r.mode, SinceAnchor(x) >= SinceAnchor(r)
  PROVE  LiveRound(x) >= LiveRound(r)
<1>1. /\ r.round \in Nat /\ r.rounds \in Nat /\ LiveRound(r) \in Nat /\ LiveRound(x) \in Nat
      /\ LiveRound(r) >= r.round /\ LiveRound(x) >= r.round
      /\ SinceAnchor(r) \in Int /\ SinceAnchor(x) \in Int
  BY LiveRoundBounds, TimeTypes DEF ClockRow
<1>2. \A k : RoundOffset(x, k) = RoundOffset(r, k)
  BY DEF RoundOffset
<1>3. SUFFICES ASSUME LiveRound(r) > r.round PROVE LiveRound(r) <= LiveRound(x)
  BY <1>1
<1>4. r.mode = "automatic" /\ LiveRound(r) \in ReachedByClock(r)
  BY <1>3, LiveRoundBounds
<1>5. LiveRound(r) \in (r.round + 1)..r.rounds
      /\ RoundOffset(r, LiveRound(r)) <= SinceAnchor(r)
  BY <1>4 DEF ReachedByClock
<1>6. RoundOffset(r, LiveRound(r)) \in Nat
  BY <1>1, <1>3, OffsetMonotone
<1>7. RoundOffset(x, LiveRound(r)) <= SinceAnchor(x)
  BY <1>1, <1>2, <1>5, <1>6
<1>8. LiveRound(r) \in ReachedByClock(x)
  BY <1>5, <1>7 DEF ReachedByClock
<1> QED BY <1>4, <1>8, LiveRoundIsLast

\* In a minute that the clock counts, the live round may end and the next one
\* begin, no more; if it stays, it is a minute older.
LEMMA MinutePasses ==
  ASSUME NEW r, NEW x, ClockRow(r), ClockRow(x), Anchored(r), Anchored(x),
         AnchorInPast(r),
         x.round = r.round, x.rounds = r.rounds, x.ext = r.ext, x.move = r.move,
         x.mode = r.mode, SinceAnchor(x) = SinceAnchor(r) + 1
  PROVE  /\ LiveRound(x) >= LiveRound(r)
         /\ LiveRound(x) <= LiveRound(r) + 1
         /\ LiveRound(x) = LiveRound(r) => IntoRound(x) = IntoRound(r) + 1
<1>1. /\ r.round \in Nat /\ r.rounds \in Nat /\ LiveRound(r) \in Nat /\ LiveRound(x) \in Nat
      /\ LiveRound(r) >= r.round /\ LiveRound(x) >= r.round
      /\ SinceAnchor(r) \in Int
  BY LiveRoundBounds, TimeTypes DEF ClockRow
<1>2. \A k : RoundOffset(x, k) = RoundOffset(r, k)
  BY DEF RoundOffset
<1>3. LiveRound(x) >= LiveRound(r)
  BY <1>1, LaterClock
<1>4. LiveRound(x) <= LiveRound(r) + 1
  <2> DEFINE L == LiveRound(r)
  <2>1. CASE r.mode # "automatic"
    BY <1>1, <2>1 DEF LiveRound
  <2>2. CASE r.mode = "automatic" /\ L >= r.rounds
    <3>1. LiveRound(x) > x.round => LiveRound(x) <= x.rounds
      BY <1>1, LiveRoundBounds DEF ReachedByClock
    <3> QED BY <1>1, <2>2, <3>1
  <2>3. CASE r.mode = "automatic" /\ L < r.rounds
    <3>1. RoundOffset(r, L + 1) > SinceAnchor(r)
      BY <2>3, NextNotReached
    <3>2. /\ L + 1 \in Nat /\ r.round < L + 1 /\ r.round <= L + 1 /\ L + 2 \in Nat
          /\ r.round < L + 2 /\ (L + 1) + 1 = L + 2 /\ L + 1 # r.round
      BY <1>1
    <3> HIDE DEF L
    <3>3. /\ RoundOffset(r, L + 1) \in Nat /\ RoundOffset(r, L + 2) \in Nat
          /\ RoundOffset(r, L + 2) = RoundOffset(r, L + 1) + Talk + 0 + r.move
      BY <3>2, OffsetStep
    <3>4. Talk \in Nat \ {0} /\ r.move \in Nat
      BY ClockAssumption DEF Talk, ClockRow
    <3>5. RoundOffset(r, L + 2) > SinceAnchor(r) + 1
      BY <1>1, <3>1, <3>3, <3>4
    <3>6. LiveRound(x) < L + 2
      <4>1. RoundOffset(x, L + 2) > SinceAnchor(x) /\ x.round < L + 2
        BY <1>2, <3>2, <3>5
      <4> QED BY <3>2, <4>1, NotReachedYet
    <3>7. L \in Nat
      BY <1>1 DEF L
    <3>8. LiveRound(x) <= L + 1
      BY <1>1, <3>6, <3>7
    <3> QED BY <3>8 DEF L
  <2> QED BY <1>1, <2>1, <2>2, <2>3
<1>5. ASSUME LiveRound(x) = LiveRound(r) PROVE IntoRound(x) = IntoRound(r) + 1
  <2>1. RoundOffset(r, LiveRound(r)) \in Nat
    BY <1>1, OffsetStep
  <2> QED BY <1>1, <1>2, <1>5, <2>1 DEF IntoRound
<1> QED BY <1>3, <1>4, <1>5

\* The beginning of a later round in closed form: a move break and a talk for
\* every round since the stored one, and the extension of that one.
LEMMA OffsetClosed ==
  ASSUME NEW r, ClockRow(r), NEW j \in Nat, r.round <= j
  PROVE  RoundOffset(r, j + 1) = (j - r.round + 1) * (Talk + r.move) + r.ext
<1> DEFINE T == Talk + r.move
           a == j - r.round
<1>1. /\ r.round \in Nat /\ Talk \in Nat /\ r.ext \in Nat /\ r.move \in Nat
      /\ T \in Nat /\ a \in Nat
  BY ClockAssumption DEF ClockRow, Talk
<1>2. RoundOffset(r, j + 1) = Talk + r.ext + r.move + a * T
  <2>1. j + 1 # r.round /\ (j + 1) - r.round - 1 = a
    BY <1>1
  <2> QED BY <2>1 DEF RoundOffset
<1>3. (a + 1) * T = a * T + T /\ a * T \in Nat
  <2> HIDE DEF a, T
  <2> QED BY <1>1
<1> DEFINE p == a * T
           q == (a + 1) * T
<1>4. q = p + T /\ p \in Nat /\ RoundOffset(r, j + 1) = Talk + r.ext + r.move + p
  BY <1>2, <1>3
<1> HIDE DEF p, q
<1>5. RoundOffset(r, j + 1) = q + r.ext
  BY <1>1, <1>4
<1> QED BY <1>5 DEF q

-----------------------------------------------------------------------------
(* The conclave's row                                                      *)

\* The numbers of rounds a conclave may have.
LEMMA RoundNumbers ==
  /\ \A n \in RoundCounts : n \in 1..MaxRounds
  /\ MaxRounds \in Nat \ {0}
<1>1. RoundCounts \subseteq Nat \ {0} /\ MaxRounds \in RoundCounts
      /\ \A n \in RoundCounts : n <= MaxRounds
  BY ConclaveAssumption
<1> QED BY <1>1

\* The other lengths and the lists of choices.
LEMMA Choices ==
  /\ \A m \in MoveOptions : m \in Nat
  /\ \A s \in ExtendOptions : s \in Nat
  /\ MaxExtension \in Nat /\ MaxWait \in Nat
  /\ Talk \in Nat
BY ConclaveAssumption, ClockAssumption DEF Talk

\* A row of the right type has what the clock reads, and a round of it that
\* automatic mode reaches is one the schedule has.
LEMMA RowIsClockRow ==
  ASSUME NEW r \in RowType
  PROVE  /\ ClockRow(r)
         /\ r.rounds \in 1..MaxRounds
         /\ LiveRound(r) \in 0..MaxRounds
         /\ LiveRound(r) <= r.round \/ LiveRound(r) \in (r.round + 1)..r.rounds
<1>1. r.rounds \in 1..MaxRounds /\ MaxRounds \in Nat \ {0}
  BY RoundNumbers DEF RowType
<1>2. ClockRow(r)
  <2>1. /\ r.round \in 0..MaxRounds /\ r.rounds \in RoundCounts
        /\ r.age \in Int \cup {Null} /\ r.elapsed \in Int \cup {Null}
        /\ r.ext \in 0..MaxExtension /\ r.move \in MoveOptions
        /\ r.paused \in BOOLEAN /\ r.mode \in Modes
    BY DEF RowType
  <2>2. r.round \in Nat /\ r.rounds \in Nat /\ r.ext \in Nat /\ r.move \in Nat
    <3>1. r.round \in Nat /\ r.rounds \in Nat
      BY <2>1, RoundNumbers
    <3>2. r.ext \in Nat /\ r.move \in Nat
      BY <2>1, Choices
    <3> QED BY <3>1, <3>2
  <2> QED BY <2>1, <2>2 DEF ClockRow
<1>3. LiveRound(r) > r.round => LiveRound(r) \in (r.round + 1)..r.rounds
  BY <1>2, LiveRoundBounds DEF ReachedByClock
<1> QED BY <1>1, <1>2, <1>3, LiveRoundBounds DEF RowType

\* Pinning the live round changes the anchor only, and keeps it sound.
LEMMA MaterializeSound ==
  ASSUME NEW r \in RowType, AnchorInPast(r)
  PROVE  LET m == Materialize(r)
         IN  /\ m \in RowType
             /\ AnchorInPast(m)
             /\ m.age = Null <=> r.age = Null
             /\ m.round = r.round \/ (Anchored(r) /\ m.round \in (r.round + 1)..r.rounds)
             /\ \A f \in {"status", "schedule", "locked", "rounds", "paused", "mode", "regOpen"} :
                  m[f] = r[f]
<1>1. ClockRow(r) /\ LiveRound(r) \in 0..MaxRounds
  BY RowIsClockRow
<1>2. CASE ~(LiveRound(r) > r.round)
  BY <1>2 DEF Materialize
<1>3. CASE LiveRound(r) > r.round
  <2> DEFINE off  == RoundOffset(r, LiveRound(r))
             into == IntoRound(r)
             m    == Materialize(r)
  <2>1. Anchored(r) /\ LiveRound(r) \in (r.round + 1)..r.rounds
    BY <1>1, <1>3, LiveRoundBounds DEF ReachedByClock
  <2>2. into \in Nat /\ off \in Nat /\ into = SinceAnchor(r) - off
    BY <1>1, <2>1, IntoRoundNat
  <2>3. SinceAnchor(r) \in 0..r.age /\ r.age \in Nat
    BY <1>1, <2>1, TimeTypes
  <2>4. ~r.paused => SinceAnchor(r) = r.age
    BY DEF SinceAnchor
  <2>5. m = [r EXCEPT !.round = LiveRound(r), !.age = r.age - off, !.ext = 0,
                      !.elapsed = IF r.paused THEN into ELSE r.elapsed]
    BY <1>3 DEF Materialize
  <2> HIDE DEF off, into, m
  <2>6. /\ m.round = LiveRound(r) /\ m.age = r.age - off /\ m.ext = 0
        /\ m.elapsed = IF r.paused THEN into ELSE r.elapsed
        /\ \A f \in {"status", "schedule", "locked", "rounds", "paused", "mode", "regOpen"} :
             m[f] = r[f]
    BY <2>5 DEF RowType
  <2>7. r.age - off \in Nat /\ into <= r.age - off
    BY <2>2, <2>3
  <2>8. m \in RowType
    <3>1. LiveRound(r) \in 0..MaxRounds /\ r.age - off \in Int /\ 0 \in 0..MaxExtension
          /\ into \in Int
      BY <1>1, <2>2, <2>7, Choices
    <3> QED BY <3>1, <2>5 DEF RowType
  <2>9. AnchorInPast(m)
    BY <2>2, <2>3, <2>4, <2>6, <2>7, ClockAssumption DEF AnchorInPast
  <2>10. m.age # Null /\ r.age # Null
    BY <2>3, <2>6, <2>7, ClockAssumption
  <2> QED BY <2>1, <2>6, <2>8, <2>9, <2>10 DEF m
<1> QED BY <1>1, <1>2, <1>3 DEF RowType, ClockRow

\* What the evaluation of a status returns: a live or terminal status as it is,
\* one of the three statuses before the conclave runs for any other.
LEMMA EvaluateResult ==
  ASSUME NEW s, NEW r, NEW w \in {"before", "open", "after"},
         r.schedule \in BOOLEAN, r.locked \in BOOLEAN, r.override \in Overrides
  PROVE  /\ s \in RoleLockedStatuses => Evaluate(s, r, w).status = s
         /\ s \notin RoleLockedStatuses =>
              Evaluate(s, r, w).status \in Statuses \ RoleLockedStatuses
         /\ Evaluate(s, r, w).status \in Statuses
         /\ Evaluate(s, r, w).open \in BOOLEAN
<1>1. CASE s \in RoleLockedStatuses
  BY <1>1 DEF Evaluate, RoleLockedStatuses, Statuses
<1>2. CASE s \notin RoleLockedStatuses /\ (r.schedule \/ r.locked)
  BY <1>2 DEF Evaluate, RoleLockedStatuses, Statuses
<1>3. CASE s \notin RoleLockedStatuses /\ ~r.schedule /\ ~r.locked
  <2>1. CASE r.override = "closed"
    BY <1>3, <2>1 DEF Evaluate, RoleLockedStatuses, Statuses
  <2>2. CASE r.override = "open"
    BY <1>3, <2>2 DEF Evaluate, RoleLockedStatuses, Statuses
  <2>3. CASE r.override = "auto"
    BY <1>3, <2>3 DEF Evaluate, RoleLockedStatuses, Statuses
  <2> QED BY <2>1, <2>2, <2>3 DEF Overrides
<1> QED BY <1>1, <1>2, <1>3

-----------------------------------------------------------------------------
\* The type invariant with what it needs of the anchor to be inductive for the
\* clock: the pinned anchor of a paused round must not move past its frozen
\* point, or resuming it would count from the future.
ClockInv == TypeOK /\ AnchorInPast(row)

LEMMA ClockInit == Init => ClockInv
<1> SUFFICES ASSUME Init PROVE ClockInv
  OBVIOUS
<1>1. date \in DateType
  BY ConclaveAssumption DEF Init
<1>2. PICK o \in Overrides, s \in EditStatuses \cup {Null}, n \in RoundCounts, m \in MoveOptions :
        row = NewRow(o, date.reg, s, n, m)
  BY DEF Init
<1>3. row \in RowType /\ AnchorInPast(row)
  <2> DEFINE r == [schedule |-> FALSE, locked |-> FALSE, override |-> o]
             e == Evaluate("none", r, date.reg)
  <2>1. e.status \in Statuses /\ e.open \in BOOLEAN
    BY <1>1, EvaluateResult DEF DateType
  <2>2. s # Null => s \in Statuses
    BY ConclaveAssumption
  <2>3. row = [status |-> IF s = Null THEN e.status ELSE s, schedule |-> FALSE, locked |-> FALSE,
               override |-> o, regOpen |-> e.open, rounds |-> n, round |-> 0, age |-> Null,
               mode |-> "manual", ext |-> 0, move |-> m, paused |-> FALSE, elapsed |-> Null,
               completedAt |-> FALSE]
    BY <1>2 DEF NewRow
  <2> HIDE DEF e
  <2>4. 0 \in 0..MaxRounds /\ 0 \in 0..MaxExtension /\ "manual" \in Modes
    BY RoundNumbers, Choices DEF Modes
  <2>5. row \in RowType
    BY <2>1, <2>2, <2>3, <2>4 DEF RowType
  <2>6. AnchorInPast(row)
    BY <2>3 DEF AnchorInPast
  <2> QED BY <2>5, <2>6
<1>4. Idle \in ReqType
  BY RoundNumbers, Choices DEF Idle, ReqType, Statuses
<1>5. req \in [Requests -> ReqType]
  BY <1>4 DEF Init
<1> QED BY <1>1, <1>3, <1>5 DEF ClockInv, TypeOK

\* An operation on the row alone keeps the invariant when its patch does.
LEMMA MutateKeepsClock ==
  ASSUME ClockInv, NEW r \in RowType, AnchorInPast(r), Mutate(r)
  PROVE  ClockInv'
BY DEF ClockInv, TypeOK, Mutate, AnchorInPast

LEMMA PlanningKeepsClock ==
  ASSUME ClockInv, Planning
  PROVE  ClockInv'
<1> USE DEF ClockInv, TypeOK
<1>1. ASSUME NEW s \in EditStatuses \cup {Null}, NEW o \in Overrides \cup {Null},
             NEW n \in RoundCounts \cup {Null}, NEW m \in MoveOptions \cup {Null},
             NEW d \in Dates, UpdateConclave(s, o, n, m, d)
      PROVE  ClockInv'
  <2> DEFINE status == IF s = Null THEN row.status ELSE s
             u == [row EXCEPT !.override = IF o = Null THEN @ ELSE o,
                              !.rounds   = IF n = Null THEN @ ELSE n,
                              !.move     = IF m = Null THEN @ ELSE m]
             e == Evaluate(status, u, d.reg)
  <2>1. d \in DateType
    BY ConclaveAssumption
  <2>2. u \in RowType /\ AnchorInPast(u)
    <3>1. /\ (IF o = Null THEN row.override ELSE o) \in Overrides
          /\ (IF n = Null THEN row.rounds ELSE n) \in RoundCounts
          /\ (IF m = Null THEN row.move ELSE m) \in MoveOptions
      BY DEF RowType
    <3>2. u \in RowType
      BY <3>1 DEF RowType
    <3>3. u.age = row.age /\ u.paused = row.paused /\ u.elapsed = row.elapsed
      BY DEF RowType
    <3> QED BY <3>2, <3>3 DEF AnchorInPast
  <2>3. e.status \in Statuses /\ e.open \in BOOLEAN
    <3> HIDE DEF u, status
    <3>1. u.schedule \in BOOLEAN /\ u.locked \in BOOLEAN /\ u.override \in Overrides
      BY <2>2 DEF RowType
    <3>2. d.reg \in {"before", "open", "after"}
      BY <2>1 DEF DateType
    <3> QED BY <3>1, <3>2, EvaluateResult
  <2>4. s # Null => s \in Statuses
    BY ConclaveAssumption
  <2>5. row' = [u EXCEPT !.status = IF s = Null THEN e.status ELSE s, !.regOpen = e.open]
        /\ date' = d /\ req' = req
    BY <1>1 DEF UpdateConclave
  <2> HIDE DEF u, e
  <2>6. row' \in RowType
    BY <2>2, <2>3, <2>4, <2>5 DEF RowType
  <2>7. AnchorInPast(row)'
    BY <2>2, <2>5 DEF AnchorInPast, RowType
  <2> QED BY <2>1, <2>5, <2>6, <2>7
<1>2. ASSUME NEW open \in BOOLEAN, SetRegistrationOpen(open)
      PROVE  ClockInv'
  <2> DEFINE o == IF open THEN "open" ELSE "closed"
             u == [row EXCEPT !.override = o]
             e == Evaluate(row.status, u, date.reg)
             r == [row EXCEPT !.override = o, !.status = e.status, !.regOpen = e.open]
  <2>1. o \in Overrides
    BY DEF Overrides
  <2>2. u.schedule \in BOOLEAN /\ u.locked \in BOOLEAN /\ u.override \in Overrides
        /\ date.reg \in {"before", "open", "after"}
    BY <2>1 DEF RowType, DateType
  <2>3. e.status \in Statuses /\ e.open \in BOOLEAN
    <3> HIDE DEF u
    <3> QED BY <2>2, EvaluateResult
  <2>4. Mutate(r)
    BY <1>2 DEF SetRegistrationOpen
  <2> HIDE DEF o, e
  <2>5. r \in RowType /\ AnchorInPast(r)
    BY <2>1, <2>3 DEF RowType, AnchorInPast
  <2> HIDE DEF r
  <2> QED BY <2>4, <2>5, MutateKeepsClock
<1>3. CASE CancelConclave
  <2> DEFINE r == [row EXCEPT !.status = "cancelled", !.regOpen = FALSE]
  <2>1. Mutate(r) /\ r \in RowType /\ AnchorInPast(r)
    BY <1>3 DEF CancelConclave, RowType, AnchorInPast, Statuses
  <2> HIDE DEF r
  <2> QED BY <2>1, MutateKeepsClock
<1>4. ASSUME NEW n \in RoundCounts, GenerateSchedule(n)
      PROVE  ClockInv'
  <2> DEFINE r == [row EXCEPT !.schedule = TRUE, !.rounds = n, !.status = "registrationClosed",
                              !.regOpen = FALSE, !.override = "closed"]
  <2>1. Mutate(r) /\ r \in RowType /\ AnchorInPast(r)
    BY <1>4 DEF GenerateSchedule, RowType, AnchorInPast, Statuses, Overrides
  <2> HIDE DEF r
  <2> QED BY <2>1, MutateKeepsClock
<1>5. CASE LockSchedule
  <2> DEFINE r == [row EXCEPT !.locked = TRUE, !.regOpen = FALSE, !.override = "closed",
                              !.status = IF @ = "completed" THEN @ ELSE "registrationClosed"]
  <2>1. Mutate(r) /\ r \in RowType /\ AnchorInPast(r)
    BY <1>5 DEF LockSchedule, RowType, AnchorInPast, Statuses, Overrides
  <2> HIDE DEF r
  <2> QED BY <2>1, MutateKeepsClock
<1> QED BY <1>1, <1>2, <1>3, <1>4, <1>5 DEF Planning

LEMMA RunningKeepsClock ==
  ASSUME ClockInv, Running
  PROVE  ClockInv'
<1> DEFINE m == Materialize(row)
<1>1. row \in RowType /\ AnchorInPast(row)
  BY DEF ClockInv, TypeOK
<1>2. m \in RowType /\ AnchorInPast(m)
  BY <1>1, MaterializeSound
<1> HIDE DEF m
<1>3. CASE PauseRound
  <2> DEFINE at == IF m.age = Null \/ m.age < 0 THEN 0 ELSE m.age
             r  == [m EXCEPT !.paused = TRUE, !.elapsed = at]
  <2>1. Mutate(r)
    BY <1>3 DEF PauseRound, m
  <2>2. at \in Nat /\ at \in Int \cup {Null} /\ (m.age # Null => at <= m.age /\ m.age >= 0)
    BY <1>2 DEF RowType, AnchorInPast
  <2> HIDE DEF at
  <2>3. r \in RowType
    BY <1>2, <2>2 DEF RowType
  <2>4. AnchorInPast(r)
    <3>1. r.age = m.age /\ r.elapsed = at
      BY <1>2 DEF RowType
    <3> HIDE DEF r
    <3> QED BY <1>2, <2>2, <3>1 DEF AnchorInPast
  <2> HIDE DEF r
  <2> QED BY <2>1, <2>3, <2>4, MutateKeepsClock
<1>4. CASE ResumeRound
  <2> DEFINE at == IF row.elapsed = Null THEN 0 ELSE row.elapsed
             r  == [row EXCEPT !.paused = FALSE, !.elapsed = Null, !.age = at]
  <2>1. Mutate(r)
    BY <1>4 DEF ResumeRound
  <2>2. at \in Nat /\ at \in Int \cup {Null} /\ Null \in Int \cup {Null}
    BY <1>1, <1>4 DEF ResumeRound, RowType, AnchorInPast
  <2> HIDE DEF at
  <2>3. r \in RowType
    BY <1>1, <2>2 DEF RowType
  <2>4. AnchorInPast(r)
    BY <1>1, <2>2 DEF RowType, AnchorInPast
  <2> HIDE DEF r
  <2> QED BY <2>1, <2>3, <2>4, MutateKeepsClock
<1>5. CASE CompleteConclave
  <2> DEFINE r == Completed(row)
  <2>1. Mutate(r)
    BY <1>5 DEF CompleteConclave
  <2>2. r \in RowType /\ AnchorInPast(r)
    BY <1>1 DEF RowType, AnchorInPast, Completed, Statuses
  <2> HIDE DEF r
  <2> QED BY <2>1, <2>2, MutateKeepsClock
<1>6. ASSUME NEW mode \in Modes, SetProgressionMode(mode)
      PROVE  ClockInv'
  <2> DEFINE waiting == /\ mode = "automatic"
                        /\ row.status = "running"
                        /\ ~row.paused
                        /\ Phase(row) = "waiting"
             at == IF waiting THEN Talk + row.ext ELSE m.age
             r  == [m EXCEPT !.mode = mode, !.age = at]
  <2>1. Mutate(r)
    BY <1>6 DEF SetProgressionMode, m
  <2>2. waiting => row.mode # "automatic" /\ ~row.paused
    BY <1>6 DEF SetProgressionMode
  <2>3. waiting => m = row
    <3>1. row.mode # "automatic" => ~(LiveRound(row) > row.round)
      BY <1>1, RowIsClockRow, LiveRoundBounds
    <3> QED BY <2>2, <3>1 DEF m, Materialize
  <2>4. Talk + row.ext \in Nat /\ Talk + row.ext # Null
    BY <1>1, Choices, ClockAssumption DEF RowType
  <2> HIDE DEF waiting
  <2>5. at \in Int \cup {Null} /\ (at = m.age \/ (at \in Nat /\ ~m.paused))
    BY <1>2, <2>2, <2>3, <2>4 DEF RowType
  <2> HIDE DEF at
  <2>6. r \in RowType
    BY <1>2, <2>5 DEF RowType
  <2>7. r.age = at /\ r.elapsed = m.elapsed /\ r.paused = m.paused
    BY <1>2 DEF RowType
  <2> HIDE DEF r
  <2>8. AnchorInPast(r)
    BY <1>2, <2>5, <2>7 DEF AnchorInPast
  <2> QED BY <2>1, <2>6, <2>8, MutateKeepsClock
<1>7. ASSUME NEW s \in ExtendOptions, ExtendRound(s)
      PROVE  ClockInv'
  <2> DEFINE r == [m EXCEPT !.ext = @ + s]
  <2>1. Mutate(r) /\ m.ext + s <= MaxExtension
    BY <1>7 DEF ExtendRound, m
  <2>2. m.ext + s \in 0..MaxExtension
    BY <1>2, <2>1, Choices DEF RowType
  <2>3. r \in RowType /\ AnchorInPast(r)
    BY <1>2, <2>2 DEF RowType, AnchorInPast
  <2> HIDE DEF r
  <2> QED BY <2>1, <2>3, MutateKeepsClock
<1>8. ASSUME NEW b \in MoveOptions, SetMoveSeconds(b)
      PROVE  ClockInv'
  <2> DEFINE r == [m EXCEPT !.move = b]
  <2>1. Mutate(r)
    BY <1>8 DEF SetMoveSeconds, m
  <2>2. r \in RowType /\ AnchorInPast(r)
    BY <1>2 DEF RowType, AnchorInPast
  <2> HIDE DEF r
  <2> QED BY <2>1, <2>2, MutateKeepsClock
<1> QED BY <1>3, <1>4, <1>5, <1>6, <1>7, <1>8 DEF Running

\* A request's steps: what it records is of the right type, and what it writes
\* to the row keeps the anchor in the past.
LEMMA RequestKeepsClock ==
  ASSUME ClockInv, NEW c \in Requests,
         \/ \E n \in 1..MaxRounds : AskStart(c, n)
         \/ AskClose(c)
         \/ ReadForFix(c)
         \/ Serve(c)
  PROVE  ClockInv'
<1> DEFINE m == Materialize(row)
<1>1. /\ row \in RowType /\ AnchorInPast(row) /\ date \in DateType
      /\ req \in [Requests -> ReqType]
  BY DEF ClockInv, TypeOK
<1>2. m \in RowType /\ AnchorInPast(m)
  BY <1>1, MaterializeSound
<1> HIDE DEF m
<1>3. Idle \in ReqType
  BY RoundNumbers, Choices DEF Idle, ReqType, Statuses
<1>4. ASSUME NEW q \in ReqType, req' = [req EXCEPT ![c] = q],
             row' \in RowType, AnchorInPast(row'), date' = date
      PROVE  ClockInv'
  BY <1>1, <1>4 DEF ClockInv, TypeOK, AnchorInPast
<1>5. ASSUME NEW n \in 1..MaxRounds, AskStart(c, n)
      PROVE  ClockInv'
  <2> DEFINE q == [Idle EXCEPT !.op = "start", !.n = n]
  <2>1. q \in ReqType
    <3>1. n \in 0..MaxRounds
      BY RoundNumbers
    <3> QED BY <1>3, <3>1 DEF ReqType
  <2> HIDE DEF q
  <2> QED BY <1>1, <1>4, <1>5, <2>1 DEF AskStart, q
<1>6. CASE AskClose(c)
  <2>1. PICK o \in {"complete", "close"} : req' = [req EXCEPT ![c] = [Idle EXCEPT !.op = o]]
    BY <1>6 DEF AskClose
  <2> DEFINE q == [Idle EXCEPT !.op = o]
  <2>2. q \in ReqType
    BY <1>3 DEF ReqType
  <2> HIDE DEF q
  <2> QED BY <1>1, <1>4, <1>6, <2>1, <2>2 DEF AskClose, q
<1>7. CASE ReadForFix(c)
  <2> DEFINE e == Evaluate("none", row, date.reg)
             q == [Idle EXCEPT !.op = "fix", !.status = e.status, !.open = e.open]
  <2>1. e.status \in Statuses /\ e.open \in BOOLEAN
    BY <1>1, EvaluateResult DEF RowType, DateType
  <2> HIDE DEF e
  <2>2. q \in ReqType
    BY <1>3, <2>1 DEF ReqType
  <2> HIDE DEF q
  <2>3. req' = [req EXCEPT ![c] = q] /\ row' = row /\ date' = date
    BY <1>7 DEF ReadForFix, q, e
  <2> QED BY <1>1, <1>4, <2>2, <2>3
<1>8. CASE Serve(c)
  <2>1. req' = [req EXCEPT ![c] = Idle] /\ date' = date
    BY <1>8 DEF Serve, StartRound, CloseRound, CloseLastRound, ApplyFix, Refuse
  <2>2. req[c] \in ReqType
    BY <1>1
  <2>3. CASE StartRound(c)
    <3> DEFINE n == req[c].n
               w == req[c].wait
    <3>1. n \in 0..MaxRounds /\ w \in Nat /\ 0 \in 0..MaxExtension
          /\ w \in Int \cup {Null} /\ Null \in Int \cup {Null}
      BY <2>2, Choices DEF ReqType
    <3>2. row' = [row EXCEPT !.status = "running", !.regOpen = FALSE, !.round = n,
                             !.age = w, !.paused = FALSE, !.elapsed = Null, !.ext = 0]
      BY <2>3 DEF StartRound
    <3> HIDE DEF n, w
    <3>3. row' \in RowType
      BY <1>1, <3>1, <3>2 DEF RowType, Statuses
    <3>4. AnchorInPast(row')
      BY <1>1, <3>1, <3>2 DEF RowType, AnchorInPast
    <3> QED BY <1>3, <1>4, <2>1, <3>3, <3>4
  <2>4. CASE CloseRound(c)
    <3> DEFINE at == Talk + m.ext
    <3>1. row' = [m EXCEPT !.paused = FALSE, !.elapsed = Null, !.age = at]
      BY <2>4 DEF CloseRound, m
    <3>2. at \in Nat /\ at \in Int \cup {Null} /\ Null \in Int \cup {Null}
      BY <1>2, Choices DEF RowType
    <3> HIDE DEF at
    <3>3. row' \in RowType
      BY <1>2, <3>1, <3>2 DEF RowType
    <3>4. AnchorInPast(row')
      BY <1>2, <3>1, <3>2 DEF RowType, AnchorInPast
    <3> QED BY <1>3, <1>4, <2>1, <3>3, <3>4
  <2>5. CASE CloseLastRound(c)
    <3>1. row' \in RowType /\ AnchorInPast(row')
      BY <1>1, <2>5 DEF CloseLastRound, Completed, RowType, AnchorInPast, Statuses
    <3> QED BY <1>3, <1>4, <2>1, <3>1
  <2>6. CASE ApplyFix(c)
    <3>1. req[c].status \in Statuses /\ req[c].open \in BOOLEAN
      BY <2>2 DEF ReqType
    <3>2. row' \in RowType /\ AnchorInPast(row')
      BY <1>1, <2>6, <3>1 DEF ApplyFix, RowType, AnchorInPast
    <3> QED BY <1>3, <1>4, <2>1, <3>2
  <2>7. CASE Refuse(c)
    BY <1>1, <1>3, <1>4, <2>1, <2>7 DEF Refuse
  <2> QED BY <1>8, <2>3, <2>4, <2>5, <2>6, <2>7 DEF Serve
<1> QED BY <1>5, <1>6, <1>7, <1>8

LEMMA BackgroundKeepsClock ==
  ASSUME ClockInv, Sweep \/ Tick \/ DatesPass
  PROVE  ClockInv'
<1>1. /\ row \in RowType /\ AnchorInPast(row) /\ date \in DateType
      /\ req \in [Requests -> ReqType]
  BY DEF ClockInv, TypeOK
<1>2. CASE Sweep
  <2> DEFINE r == [row EXCEPT !.status = "completed", !.regOpen = FALSE, !.round = row.rounds]
  <2>1. row.rounds \in 0..MaxRounds
    BY <1>1, RowIsClockRow
  <2>2. Mutate(r) /\ r \in RowType /\ AnchorInPast(r)
    BY <1>1, <1>2, <2>1 DEF Sweep, RowType, AnchorInPast, Statuses
  <2> HIDE DEF r
  <2> QED BY <2>2, MutateKeepsClock
<1>3. CASE Tick
  <2>1. row' \in RowType
    BY <1>1, <1>3 DEF Tick, RowType
  <2>2. AnchorInPast(row')
    BY <1>1, <1>3, ClockAssumption DEF Tick, RowType, AnchorInPast
  <2>3. ASSUME NEW c \in Requests PROVE req'[c] \in ReqType
    <3>1. req[c] \in ReqType /\ Idle \in ReqType
      BY <1>1, RoundNumbers, Choices DEF Idle, ReqType, Statuses
    <3>2. req[c].wait < MaxWait => req[c].wait + 1 \in 0..MaxWait
      BY <3>1, Choices DEF ReqType
    <3>3. req[c].wait < MaxWait => [req[c] EXCEPT !.wait = @ + 1] \in ReqType
      BY <3>1, <3>2 DEF ReqType
    <3>4. req'[c] = IF req[c].op # "start" THEN req[c]
                    ELSE IF req[c].wait < MaxWait THEN [req[c] EXCEPT !.wait = @ + 1]
                    ELSE Idle
      BY <1>3 DEF Tick
    <3> QED BY <3>1, <3>3, <3>4
  <2>4. req' \in [Requests -> ReqType]
    BY <1>3, <2>3 DEF Tick
  <2> QED BY <1>1, <1>3, <2>1, <2>2, <2>4 DEF Tick, ClockInv, TypeOK, AnchorInPast
<1>4. CASE DatesPass
  BY <1>1, <1>4, ConclaveAssumption DEF DatesPass, ClockInv, TypeOK, AnchorInPast
<1> QED BY <1>2, <1>3, <1>4

LEMMA ClockStep ==
  ASSUME ClockInv, [Next]_vars
  PROVE  ClockInv'
<1>1. CASE Planning
  BY <1>1, PlanningKeepsClock
<1>2. CASE Running
  BY <1>2, RunningKeepsClock
<1>3. ASSUME NEW c \in Requests,
             \/ \E n \in 1..MaxRounds : AskStart(c, n)
             \/ AskClose(c)
             \/ ReadForFix(c)
             \/ Serve(c)
      PROVE  ClockInv'
  BY <1>3, RequestKeepsClock
<1>4. CASE Sweep \/ Tick \/ DatesPass
  BY <1>4, BackgroundKeepsClock
<1>5. CASE UNCHANGED vars
  BY <1>5 DEF vars, ClockInv, TypeOK, AnchorInPast
<1> QED BY <1>1, <1>2, <1>3, <1>4, <1>5 DEF Next

\* Every column keeps its type, and the anchor stays in the past, through every
\* operation on the row, every request served late and every minute.
THEOREM TypeCorrect == Spec => [](TypeOK /\ AnchorInPast(row))
<1>1. Init => ClockInv
  BY ClockInit
<1>2. ClockInv /\ [Next]_vars => ClockInv'
  BY ClockStep
<1>3. ClockInv => TypeOK /\ AnchorInPast(row)
  BY DEF ClockInv
<1> QED BY <1>1, <1>2, <1>3, PTL DEF Spec

-----------------------------------------------------------------------------
\* Why a running conclave is seated.  That round 1 needs a locked schedule says
\* nothing of later starts, nor of a conclave that leaves `running' and comes
\* back, so the invariant remembers it in the stored round: a row on which any
\* round ever started has the schedule it started on.
SeatedRow(r) ==
  /\ r.round >= 1 => r.schedule /\ r.locked /\ r.age # Null
  /\ r.status = "running" => r.round \in 1..r.rounds

\* What the requests in flight recorded: a start is of a real round, and a
\* correction says one of the statuses before the conclave runs.
RecordedRequest(q) ==
  /\ q.op = "start" => q.n >= 1
  /\ q.op = "fix" => q.status \notin RoleLockedStatuses

SeatInv ==
  /\ SeatedRow(row)
  /\ \A c \in Requests : RecordedRequest(req[c])

LEMMA SeatInit ==
  ASSUME "running" \notin EditStatuses, Init
  PROVE  SeatInv
<1>1. PICK o \in Overrides, s \in EditStatuses \cup {Null}, n \in RoundCounts, m \in MoveOptions :
        row = NewRow(o, date.reg, s, n, m)
  BY DEF Init
<1> DEFINE r == [schedule |-> FALSE, locked |-> FALSE, override |-> o]
           e == Evaluate("none", r, date.reg)
<1>2. date.reg \in {"before", "open", "after"}
  BY ConclaveAssumption DEF Init, DateType
<1>3. e.status # "running"
  BY <1>2, EvaluateResult DEF RoleLockedStatuses
<1>4. row.round = 0 /\ row.status = IF s = Null THEN e.status ELSE s
  BY <1>1 DEF NewRow
<1>5. SeatedRow(row)
  BY <1>3, <1>4 DEF SeatedRow
<1>6. RecordedRequest(Idle)
  BY DEF RecordedRequest, Idle
<1> QED BY <1>5, <1>6 DEF SeatInv, Init

\* Pinning the live round does not unseat a conclave.
LEMMA MaterializeSeated ==
  ASSUME NEW r \in RowType, AnchorInPast(r), SeatedRow(r)
  PROVE  SeatedRow(Materialize(r))
<1> DEFINE m == Materialize(r)
<1>1. /\ m.age = Null <=> r.age = Null
      /\ m.round = r.round \/ (Anchored(r) /\ m.round \in (r.round + 1)..r.rounds)
      /\ m.status = r.status /\ m.schedule = r.schedule /\ m.locked = r.locked
      /\ m.rounds = r.rounds
  BY MaterializeSound
<1>2. r.round \in Nat /\ r.rounds \in Nat
  BY RowIsClockRow DEF ClockRow
<1> HIDE DEF m
<1>3. SeatedRow(m)
  BY <1>1, <1>2 DEF SeatedRow, Anchored
<1> QED BY <1>3 DEF m

LEMMA PlanningSeated ==
  ASSUME ClockInv, SeatInv, "running" \notin EditStatuses, Planning
  PROVE  SeatInv'
<1>1. row \in RowType /\ date \in DateType /\ SeatedRow(row)
      /\ \A c \in Requests : RecordedRequest(req[c])
  BY DEF ClockInv, TypeOK, SeatInv
<1>2. ASSUME req' = req, row'.round = row.round, row'.age = row.age,
             row.schedule => row'.schedule, row.locked => row'.locked,
             row'.status # "running"
      PROVE  SeatInv'
  BY <1>1, <1>2 DEF SeatInv, SeatedRow
<1>3. ASSUME NEW s \in EditStatuses \cup {Null}, NEW o \in Overrides \cup {Null},
             NEW n \in RoundCounts \cup {Null}, NEW m \in MoveOptions \cup {Null},
             NEW d \in Dates, UpdateConclave(s, o, n, m, d)
      PROVE  SeatInv'
  <2> DEFINE status == IF s = Null THEN row.status ELSE s
             u == [row EXCEPT !.override = IF o = Null THEN @ ELSE o,
                              !.rounds   = IF n = Null THEN @ ELSE n,
                              !.move     = IF m = Null THEN @ ELSE m]
             e == Evaluate(status, u, d.reg)
  <2>1. d.reg \in {"before", "open", "after"}
    BY ConclaveAssumption DEF DateType
  <2>2. status # "running" /\ row.status # "running"
    BY <1>3 DEF UpdateConclave
  <2>3. u \in RowType
    BY <1>1 DEF RowType
  <2>4. row' = [u EXCEPT !.status = IF s = Null THEN e.status ELSE s, !.regOpen = e.open]
        /\ req' = req
    BY <1>3 DEF UpdateConclave
  <2>5. u.round = row.round /\ u.age = row.age /\ u.schedule = row.schedule
        /\ u.locked = row.locked
    BY <1>1 DEF RowType
  <2> HIDE DEF u, status
  <2>6. u.schedule \in BOOLEAN /\ u.locked \in BOOLEAN /\ u.override \in Overrides
    BY <2>3 DEF RowType
  <2>7. e.status # "running"
    BY <2>1, <2>2, <2>6, EvaluateResult DEF RoleLockedStatuses
  <2> HIDE DEF e
  <2>8. row'.round = row.round /\ row'.age = row.age /\ row'.schedule = row.schedule
        /\ row'.locked = row.locked /\ row'.status = IF s = Null THEN e.status ELSE s
    BY <2>3, <2>4, <2>5 DEF RowType
  <2> QED BY <1>2, <2>4, <2>7, <2>8
<1>4. ASSUME NEW open \in BOOLEAN, SetRegistrationOpen(open)
      PROVE  SeatInv'
  <2> DEFINE o == IF open THEN "open" ELSE "closed"
             u == [row EXCEPT !.override = o]
             e == Evaluate(row.status, u, date.reg)
  <2>1. u.schedule \in BOOLEAN /\ u.locked \in BOOLEAN /\ u.override \in Overrides
        /\ date.reg \in {"before", "open", "after"}
    BY <1>1 DEF RowType, DateType, Overrides
  <2>2. row.status \notin RoleLockedStatuses
        /\ row' = [row EXCEPT !.override = o, !.status = e.status, !.regOpen = e.open]
        /\ req' = req
    BY <1>4 DEF SetRegistrationOpen, Mutate
  <2> HIDE DEF u, o
  <2>3. e.status # "running"
    BY <2>1, <2>2, EvaluateResult DEF RoleLockedStatuses
  <2> HIDE DEF e
  <2> QED BY <1>1, <1>2, <2>2, <2>3 DEF RowType
<1>5. CASE CancelConclave
  BY <1>1, <1>2, <1>5 DEF CancelConclave, Mutate, RowType
<1>6. ASSUME NEW n \in RoundCounts, GenerateSchedule(n)
      PROVE  SeatInv'
  BY <1>1, <1>2, <1>6 DEF GenerateSchedule, Mutate, RowType
<1>7. CASE LockSchedule
  BY <1>1, <1>2, <1>7 DEF LockSchedule, Mutate, RowType
<1> QED BY <1>3, <1>4, <1>5, <1>6, <1>7 DEF Planning

LEMMA RunningSeated ==
  ASSUME ClockInv, SeatInv, Running
  PROVE  SeatInv'
<1> DEFINE m == Materialize(row)
<1>1. row \in RowType /\ AnchorInPast(row) /\ SeatedRow(row)
      /\ \A c \in Requests : RecordedRequest(req[c])
  BY DEF ClockInv, TypeOK, SeatInv
<1>2. m \in RowType /\ AnchorInPast(m) /\ SeatedRow(m)
  BY <1>1, MaterializeSound, MaterializeSeated
<1> HIDE DEF m
<1>3. ASSUME NEW r \in RowType, SeatedRow(r), req' = req,
             row'.round = r.round, row'.rounds = r.rounds,
             row'.schedule = r.schedule, row'.locked = r.locked,
             row'.age = r.age \/ row'.age # Null,
             row'.status = "running" => r.status = "running"
      PROVE  SeatInv'
  BY <1>1, <1>3 DEF SeatInv, SeatedRow
<1>4. CASE PauseRound
  BY <1>2, <1>3, <1>4 DEF PauseRound, Mutate, RowType, m
<1>5. CASE ResumeRound
  <2>1. (IF row.elapsed = Null THEN 0 ELSE row.elapsed) # Null
    BY <1>1, ClockAssumption DEF RowType
  <2> QED BY <1>1, <1>3, <1>5, <2>1 DEF ResumeRound, Mutate, RowType
<1>6. CASE CompleteConclave
  BY <1>1, <1>3, <1>6 DEF CompleteConclave, Completed, Mutate, RowType
<1>7. ASSUME NEW mode \in Modes, SetProgressionMode(mode)
      PROVE  SeatInv'
  <2>1. Talk + row.ext # Null
    BY <1>1, Choices, ClockAssumption DEF RowType
  <2>2. PICK at \in {m.age, Talk + row.ext} : row' = [m EXCEPT !.mode = mode, !.age = at]
    BY <1>7, <1>2 DEF SetProgressionMode, Mutate, m, RowType
  <2>3. req' = req
    BY <1>7 DEF SetProgressionMode, Mutate
  <2> QED BY <1>2, <1>3, <2>1, <2>2, <2>3 DEF RowType
<1>8. ASSUME NEW s \in ExtendOptions, ExtendRound(s)
      PROVE  SeatInv'
  BY <1>2, <1>3, <1>8 DEF ExtendRound, Mutate, RowType, m
<1>9. ASSUME NEW b \in MoveOptions, SetMoveSeconds(b)
      PROVE  SeatInv'
  BY <1>2, <1>3, <1>9 DEF SetMoveSeconds, Mutate, RowType, m
<1> QED BY <1>4, <1>5, <1>6, <1>7, <1>8, <1>9 DEF Running

LEMMA RequestSeated ==
  ASSUME ClockInv, SeatInv, NEW c \in Requests,
         \/ \E n \in 1..MaxRounds : AskStart(c, n)
         \/ AskClose(c)
         \/ ReadForFix(c)
         \/ Serve(c)
  PROVE  SeatInv'
<1> DEFINE m == Materialize(row)
<1>1. /\ row \in RowType /\ AnchorInPast(row) /\ SeatedRow(row) /\ date \in DateType
      /\ req \in [Requests -> ReqType] /\ \A d \in Requests : RecordedRequest(req[d])
  BY DEF ClockInv, TypeOK, SeatInv
<1>2. m \in RowType /\ SeatedRow(m)
  BY <1>1, MaterializeSound, MaterializeSeated
<1> HIDE DEF m
<1>3. ASSUME NEW q, RecordedRequest(q), req' = [req EXCEPT ![c] = q], SeatedRow(row')
      PROVE  SeatInv'
  BY <1>1, <1>3 DEF SeatInv, SeatedRow
<1>4. RecordedRequest(Idle)
  BY DEF RecordedRequest, Idle
<1>5. ASSUME NEW n \in 1..MaxRounds, AskStart(c, n)
      PROVE  SeatInv'
  <2> DEFINE q == [Idle EXCEPT !.op = "start", !.n = n]
  <2>1. RecordedRequest(q)
    BY DEF RecordedRequest, Idle
  <2> HIDE DEF q
  <2> QED BY <1>1, <1>3, <1>5, <2>1 DEF AskStart, q
<1>6. CASE AskClose(c)
  <2>1. PICK o \in {"complete", "close"} : req' = [req EXCEPT ![c] = [Idle EXCEPT !.op = o]]
    BY <1>6 DEF AskClose
  <2> DEFINE q == [Idle EXCEPT !.op = o]
  <2>2. RecordedRequest(q)
    BY DEF RecordedRequest, Idle
  <2> HIDE DEF q
  <2> QED BY <1>1, <1>3, <1>6, <2>1, <2>2 DEF AskClose, q
<1>7. CASE ReadForFix(c)
  <2> DEFINE e == Evaluate("none", row, date.reg)
             q == [Idle EXCEPT !.op = "fix", !.status = e.status, !.open = e.open]
  <2>1. e.status \notin RoleLockedStatuses
    BY <1>1, EvaluateResult DEF RowType, DateType, RoleLockedStatuses
  <2> HIDE DEF e
  <2>2. RecordedRequest(q)
    BY <2>1 DEF RecordedRequest, Idle
  <2> HIDE DEF q
  <2> QED BY <1>1, <1>3, <1>7, <2>2 DEF ReadForFix, q, e
<1>8. CASE Serve(c)
  <2>1. req' = [req EXCEPT ![c] = Idle]
    BY <1>8 DEF Serve, StartRound, CloseRound, CloseLastRound, ApplyFix, Refuse
  <2>2. req[c] \in ReqType /\ RecordedRequest(req[c])
    BY <1>1
  <2>3. CASE StartRound(c)
    <3> DEFINE n == req[c].n
               w == req[c].wait
    <3>1. n \in 1..row.rounds /\ w # Null
      BY <1>1, <2>2, <2>3, Choices, ClockAssumption
      DEF ReqType, RecordedRequest, StartRound, MayStart
    <3>2. row.schedule /\ row.locked
      <4>1. CASE n = 1
        BY <2>3, <4>1 DEF StartRound, MayStart
      <4>2. CASE n # 1
        <5>1. LiveRound(row) >= 1
          BY <1>1, <2>3, <3>1, <4>2, RowIsClockRow, RoundNumbers DEF StartRound, MayStart
        <5>2. row.round >= 1
          BY <5>1 DEF LiveRound, Anchored
        <5> QED BY <1>1, <5>2 DEF SeatedRow
      <4> QED BY <4>1, <4>2
    <3>3. row' = [row EXCEPT !.status = "running", !.regOpen = FALSE, !.round = n,
                             !.age = w, !.paused = FALSE, !.elapsed = Null, !.ext = 0]
      BY <2>3 DEF StartRound
    <3> HIDE DEF n, w
    <3>4. SeatedRow(row')
      BY <1>1, <3>1, <3>2, <3>3 DEF RowType, SeatedRow
    <3> QED BY <1>3, <1>4, <2>1, <3>4
  <2>4. CASE CloseRound(c)
    <3>1. Talk + m.ext # Null
      BY <1>2, Choices, ClockAssumption DEF RowType
    <3>2. SeatedRow(row')
      BY <1>2, <2>4, <3>1 DEF CloseRound, m, RowType, SeatedRow
    <3> QED BY <1>3, <1>4, <2>1, <3>2
  <2>5. CASE CloseLastRound(c)
    <3>1. SeatedRow(row')
      BY <1>1, <2>5 DEF CloseLastRound, Completed, RowType, SeatedRow
    <3> QED BY <1>3, <1>4, <2>1, <3>1
  <2>6. CASE ApplyFix(c)
    <3>1. SeatedRow(row')
      BY <1>1, <2>2, <2>6 DEF ApplyFix, RowType, SeatedRow, RecordedRequest, RoleLockedStatuses
    <3> QED BY <1>3, <1>4, <2>1, <3>1
  <2>7. CASE Refuse(c)
    BY <1>1, <1>3, <1>4, <2>1, <2>7 DEF Refuse
  <2> QED BY <1>8, <2>3, <2>4, <2>5, <2>6, <2>7 DEF Serve
<1> QED BY <1>5, <1>6, <1>7, <1>8

LEMMA BackgroundSeated ==
  ASSUME ClockInv, SeatInv, Sweep \/ Tick \/ DatesPass
  PROVE  SeatInv'
<1>1. /\ row \in RowType /\ SeatedRow(row)
      /\ req \in [Requests -> ReqType] /\ \A d \in Requests : RecordedRequest(req[d])
  BY DEF ClockInv, TypeOK, SeatInv
<1>2. CASE Sweep
  BY <1>1, <1>2 DEF Sweep, Mutate, RowType, SeatInv, SeatedRow
<1>3. CASE Tick
  <2>1. row'.status = row.status /\ row'.schedule = row.schedule /\ row'.locked = row.locked
        /\ row'.round = row.round /\ row'.rounds = row.rounds
        /\ row'.age = IF row.age = Null \/ row.age >= MaxAge THEN row.age ELSE row.age + 1
    BY <1>1, <1>3 DEF Tick, RowType
  <2>2. row.age # Null => row'.age # Null
    BY <1>1, <2>1, ClockAssumption DEF RowType
  <2>3. SeatedRow(row')
    BY <1>1, <2>1, <2>2 DEF SeatedRow
  <2>4. ASSUME NEW c \in Requests PROVE RecordedRequest(req'[c])
    <3>1. req[c] \in ReqType /\ RecordedRequest(req[c]) /\ RecordedRequest(Idle)
      BY <1>1 DEF RecordedRequest, Idle
    <3>2. RecordedRequest([req[c] EXCEPT !.wait = @ + 1])
      BY <3>1 DEF ReqType, RecordedRequest
    <3>3. req'[c] = IF req[c].op # "start" THEN req[c]
                    ELSE IF req[c].wait < MaxWait THEN [req[c] EXCEPT !.wait = @ + 1]
                    ELSE Idle
      BY <1>3 DEF Tick
    <3> QED BY <3>1, <3>2, <3>3
  <2> QED BY <2>3, <2>4 DEF SeatInv, SeatedRow
<1>4. CASE DatesPass
  BY <1>1, <1>4 DEF DatesPass, SeatInv, SeatedRow
<1> QED BY <1>2, <1>3, <1>4

\* The strengthened invariant, kept by every step.
LEMMA SeatStep ==
  ASSUME "running" \notin EditStatuses, ClockInv, SeatInv, [Next]_vars
  PROVE  SeatInv'
<1>1. CASE Planning
  BY <1>1, PlanningSeated
<1>2. CASE Running
  BY <1>2, RunningSeated
<1>3. ASSUME NEW c \in Requests,
             \/ \E n \in 1..MaxRounds : AskStart(c, n)
             \/ AskClose(c)
             \/ ReadForFix(c)
             \/ Serve(c)
      PROVE  SeatInv'
  BY <1>3, RequestSeated
<1>4. CASE Sweep \/ Tick \/ DatesPass
  BY <1>4, BackgroundSeated
<1>5. CASE UNCHANGED vars
  BY <1>5 DEF vars, SeatInv, SeatedRow
<1> QED BY <1>1, <1>2, <1>3, <1>4, <1>5 DEF Next

LEMMA SeatImplies ==
  ASSUME ClockInv, SeatInv
  PROVE  SeatedWhileRunning /\ ClockSound
<1>1. row \in RowType /\ AnchorInPast(row) /\ SeatedRow(row)
  BY DEF ClockInv, TypeOK, SeatInv
<1>2. ClockRow(row)
  BY <1>1, RowIsClockRow
<1>3. SeatedWhileRunning
  BY <1>1, <1>2 DEF SeatedWhileRunning, Live, SeatedRow, ClockRow
<1>4. ASSUME Live, Anchored(row)
      PROVE  IntoRound(row) >= 0 /\ LiveRound(row) \in row.round..row.rounds
  <2>1. IntoRound(row) \in Nat
    BY <1>1, <1>2, <1>4, IntoRoundNat
  <2>2. row.round \in 1..row.rounds
    BY <1>3, <1>4 DEF SeatedWhileRunning
  <2>3. LiveRound(row) \in Nat /\ LiveRound(row) >= row.round
    BY <1>2, <1>4, LiveRoundBounds
  <2>4. LiveRound(row) <= row.round \/ LiveRound(row) \in (row.round + 1)..row.rounds
    BY <1>1, RowIsClockRow
  <2> QED BY <1>2, <2>1, <2>2, <2>3, <2>4 DEF ClockRow
<1> QED BY <1>3, <1>4 DEF ClockSound

\* A conclave runs only on a generated and locked schedule, on an anchored round
\* of it, for any number of rounds, requests and waiting times, as long as no
\* edit writes `running' itself.
THEOREM Seated ==
  ASSUME "running" \notin EditStatuses
  PROVE  Spec => []SeatedWhileRunning
<1>1. Init => ClockInv /\ SeatInv
  BY ClockInit, SeatInit
<1>2. ClockInv /\ SeatInv /\ [Next]_vars => (ClockInv /\ SeatInv)'
  BY ClockStep, SeatStep
<1>3. ClockInv /\ SeatInv => SeatedWhileRunning
  BY SeatImplies
<1> QED BY <1>1, <1>2, <1>3, PTL DEF Spec

\* The clock never counts from the future and never shows a round the schedule
\* does not have, however the row was paused, pinned or re-anchored.
THEOREM ClockIsSound ==
  ASSUME "running" \notin EditStatuses
  PROVE  Spec => []ClockSound
<1>1. Init => ClockInv /\ SeatInv
  BY ClockInit, SeatInit
<1>2. ClockInv /\ SeatInv /\ [Next]_vars => (ClockInv /\ SeatInv)'
  BY ClockStep, SeatStep
<1>3. ClockInv /\ SeatInv => ClockSound
  BY SeatImplies
<1> QED BY <1>1, <1>2, <1>3, PTL DEF Spec

-----------------------------------------------------------------------------
(* What a step does to the round being played                              *)

\* A running row, as the invariants leave it.
LEMMA RunningRow ==
  ASSUME ClockInv, SeatInv, Live
  PROVE  /\ row \in RowType /\ AnchorInPast(row) /\ ClockRow(row) /\ Anchored(row)
         /\ row.schedule /\ row.locked /\ row.round \in 1..row.rounds
         /\ row.round \in Nat /\ row.rounds \in 1..MaxRounds
         /\ LiveRound(row) \in row.round..row.rounds
         /\ IntoRound(row) \in Nat
         /\ LiveExtension(row) \in 0..MaxExtension
<1>1. row \in RowType /\ AnchorInPast(row)
  BY DEF ClockInv, TypeOK
<1>2. ClockRow(row) /\ row.rounds \in 1..MaxRounds
  BY <1>1, RowIsClockRow
<1>3. SeatedWhileRunning /\ ClockSound
  BY SeatImplies
<1>4. row.schedule /\ row.locked /\ row.round \in 1..row.rounds /\ row.age # Null
  BY <1>3 DEF SeatedWhileRunning
<1>5. Anchored(row) /\ row.round \in Nat
  BY <1>2, <1>4 DEF Anchored, ClockRow
<1>6. LiveRound(row) \in row.round..row.rounds
  BY <1>3, <1>5 DEF ClockSound
<1>7. IntoRound(row) \in Nat
  BY <1>1, <1>2, <1>5, IntoRoundNat
<1>8. LiveExtension(row) \in 0..MaxExtension
  BY <1>1, Choices DEF LiveExtension, RowType
<1> QED BY <1>1, <1>2, <1>4, <1>5, <1>6, <1>7, <1>8

\* Pinning a running row: the stored round is the live one, the anchor where it
\* began, and the clock still on it.
LEMMA PinnedRow ==
  ASSUME ClockInv, SeatInv, Live
  PROVE  LET m == Materialize(row)
         IN  /\ m \in RowType /\ AnchorInPast(m)
             /\ m.round = LiveRound(row) /\ m.ext = LiveExtension(row)
             /\ m.rounds = row.rounds /\ m.move = row.move /\ m.mode = row.mode
             /\ m.paused = row.paused /\ m.status = row.status
             /\ m.age # Null /\ m.age \in Nat
             /\ SinceAnchor(m) = IntoRound(row)
             /\ ~row.paused => m.age = IntoRound(row)
             /\ \/ m.mode = "manual"
                \/ m.round >= m.rounds
                \/ IntoRound(row) < Talk + m.ext + m.move
<1> DEFINE m == Materialize(row)
<1>1. /\ row \in RowType /\ AnchorInPast(row) /\ ClockRow(row) /\ Anchored(row)
      /\ row.round \in Nat /\ row.rounds \in 1..MaxRounds
      /\ LiveRound(row) \in row.round..row.rounds
      /\ IntoRound(row) \in Nat
  BY RunningRow
<1>2. /\ m \in RowType /\ AnchorInPast(m)
      /\ m.age = Null <=> row.age = Null
      /\ \A f \in {"status", "schedule", "locked", "rounds", "paused", "mode"} : m[f] = row[f]
  BY <1>1, MaterializeSound
<1>3. m.age # Null /\ m.age \in Nat
  <2>1. m.age # Null
    BY <1>1, <1>2 DEF Anchored
  <2> HIDE DEF m
  <2> QED BY <1>2, <2>1 DEF RowType, AnchorInPast
<1>4. /\ m.round = LiveRound(row) /\ m.ext = LiveExtension(row) /\ m.move = row.move
      /\ SinceAnchor(m) = IntoRound(row)
      /\ ~row.paused => m.age = IntoRound(row)
  <2>1. CASE LiveRound(row) > row.round
    <3> DEFINE off  == RoundOffset(row, LiveRound(row))
               into == IntoRound(row)
               lr == LiveRound(row)
               el == IF row.paused THEN into ELSE row.elapsed
    <3>1. m = [row EXCEPT !.round = lr, !.age = row.age - off, !.ext = 0, !.elapsed = el]
      BY <2>1 DEF Materialize
    <3>2. into = SinceAnchor(row) - off /\ into \in Nat
      BY <1>1, IntoRoundNat
    <3>3. into # Null
      BY <1>1, ClockAssumption
    <3> HIDE DEF off, into, lr, el, m
    <3>4. /\ m.round = lr /\ m.age = row.age - off /\ m.ext = 0 /\ m.elapsed = el
          /\ m.move = row.move /\ m.paused = row.paused
      BY <1>1, <3>1 DEF RowType
    <3>5. LiveExtension(row) = 0
      BY <1>1, <2>1 DEF LiveExtension
    <3>6. ~row.paused => m.age = into
      BY <3>2, <3>4 DEF SinceAnchor
    <3>7. SinceAnchor(m) = into
      <4>1. CASE row.paused
        BY <3>2, <3>3, <3>4, <4>1 DEF SinceAnchor, Frozen, el
      <4>2. CASE ~row.paused
        BY <3>4, <3>6, <4>2 DEF SinceAnchor
      <4> QED BY <4>1, <4>2
    <3> QED BY <3>4, <3>5, <3>6, <3>7 DEF lr, into
  <2>2. CASE ~(LiveRound(row) > row.round)
    <3>1. m = row /\ LiveRound(row) = row.round
      BY <1>1, <2>2 DEF Materialize
    <3>2. RoundOffset(row, LiveRound(row)) = 0 /\ LiveExtension(row) = row.ext
      BY <3>1 DEF RoundOffset, LiveExtension
    <3>3. IntoRound(row) = SinceAnchor(row)
      BY <1>1, <3>2, TimeTypes DEF IntoRound
    <3> HIDE DEF m
    <3> QED BY <3>1, <3>2, <3>3 DEF SinceAnchor
  <2> QED BY <2>1, <2>2
<1> HIDE DEF m
<1>5. \/ m.mode = "manual"
      \/ m.round >= m.rounds
      \/ IntoRound(row) < Talk + m.ext + m.move
  <2>1. SUFFICES ASSUME m.mode # "manual", ~(m.round >= m.rounds)
                 PROVE  IntoRound(row) < Talk + m.ext + m.move
    OBVIOUS
  <2>2. row.mode = "automatic" /\ LiveRound(row) < row.rounds
    BY <1>1, <1>2, <1>4, <2>1 DEF RowType, Modes
  <2> QED BY <1>1, <1>4, <2>2, NextNotReached
<1> QED BY <1>2, <1>3, <1>4, <1>5 DEF m

\* A row anchored where its stored round begins, within the time in which no
\* other round is reached, shows that round.
LEMMA ShowsStoredRound ==
  ASSUME NEW x \in RowType, AnchorInPast(x), x.round >= 1, x.age # Null,
         \/ x.mode = "manual"
         \/ x.round >= x.rounds
         \/ SinceAnchor(x) < Talk + x.ext + x.move
  PROVE  /\ LiveRound(x) = x.round
         /\ IntoRound(x) = SinceAnchor(x)
         /\ LiveExtension(x) = x.ext
<1>1. ClockRow(x) /\ Anchored(x)
  BY RowIsClockRow DEF Anchored
<1> QED BY <1>1, AnchoredRoundIsLive

\* What a step that takes d minutes may do to the round being played.
RoundKept(x, d) ==
  /\ LiveRound(x) >= LiveRound(row)
  /\ ~(row.paused /\ x.mode # row.mode) => LiveRound(x) <= LiveRound(row) + 1
  /\ Phase(row) \in TalkPhases /\ Phase(x) \in TalkPhases /\ LiveRound(x) = LiveRound(row)
       => IntoRound(x) = IntoRound(row) + d

\* A row that shows the same round as before, or whose round is not talked in.
LEMMA SameRoundKept ==
  ASSUME ClockInv, SeatInv, Live, NEW x, LiveRound(x) = LiveRound(row),
         IntoRound(x) = IntoRound(row) \/ Phase(x) \notin TalkPhases
  PROVE  RoundKept(x, 0)
<1>1. LiveRound(row) \in Nat /\ IntoRound(row) \in Nat
  BY RunningRow
<1> QED BY <1>1 DEF RoundKept

\* The phase of a round that waits: the admin has to start the next one.
LEMMA WaitingPhase ==
  ASSUME NEW r, Anchored(r), IntoRound(r) \in Int, LiveExtension(r) \in Nat,
         LiveRound(r) \in Int, r.rounds \in Int, r.move \in Nat, r.mode # "automatic"
  PROVE  /\ Phase(r) = "waiting" => IntoRound(r) >= Talk + LiveExtension(r)
         /\ Phase(r) # "waiting" => \/ LiveRound(r) >= r.rounds
                                    \/ IntoRound(r) < Talk + LiveExtension(r) + r.move
<1>1. Bio \in Nat /\ Talk \in Nat /\ Bio < Talk
  BY ClockAssumption DEF Talk
<1>2. CASE IntoRound(r) < Bio
  BY <1>1, <1>2 DEF Phase
<1>3. CASE IntoRound(r) \in Bio..(Talk - 1)
  BY <1>1, <1>3 DEF Phase
<1>4. CASE IntoRound(r) \in Talk..(Talk + LiveExtension(r) - 1)
  BY <1>1, <1>4 DEF Phase
<1>5. CASE IntoRound(r) >= Talk + LiveExtension(r)
  BY <1>1, <1>5 DEF Phase
<1> QED BY <1>1, <1>2, <1>3, <1>4, <1>5

\* A round is talked in until its talk and its extension are over.
LEMMA TalkingPhase ==
  ASSUME NEW r, Anchored(r), IntoRound(r) \in Int, LiveExtension(r) \in Nat,
         LiveRound(r) \in Int, r.rounds \in Int
  PROVE  Phase(r) \in TalkPhases <=> IntoRound(r) < Talk + LiveExtension(r)
<1>1. Bio \in Nat /\ Talk \in Nat /\ Bio < Talk
  BY ClockAssumption DEF Talk
<1>2. CASE IntoRound(r) < Bio
  BY <1>1, <1>2 DEF Phase, TalkPhases
<1>3. CASE IntoRound(r) \in Bio..(Talk - 1)
  BY <1>1, <1>3 DEF Phase, TalkPhases
<1>4. CASE IntoRound(r) \in Talk..(Talk + LiveExtension(r) - 1)
  BY <1>1, <1>4 DEF Phase, TalkPhases
<1>5. CASE IntoRound(r) >= Talk + LiveExtension(r)
  BY <1>1, <1>5 DEF Phase, TalkPhases
<1> QED BY <1>1, <1>2, <1>3, <1>4, <1>5

LEMMA RunningKeepsRound ==
  ASSUME ClockInv, SeatInv, Live, Running, row'.status = "running"
  PROVE  RoundKept(row', 0)
<1> DEFINE m == Materialize(row)
           L == LiveRound(row)
           I == IntoRound(row)
<1>1. /\ row \in RowType /\ AnchorInPast(row) /\ ClockRow(row) /\ Anchored(row)
      /\ row.round \in 1..row.rounds /\ row.round \in Nat /\ row.rounds \in 1..MaxRounds
      /\ L \in row.round..row.rounds
      /\ I \in Nat
      /\ LiveExtension(row) \in 0..MaxExtension
  BY RunningRow
<1>2. /\ m \in RowType /\ AnchorInPast(m)
      /\ m.round = L /\ m.ext = LiveExtension(row)
      /\ m.rounds = row.rounds /\ m.move = row.move /\ m.mode = row.mode
      /\ m.paused = row.paused /\ m.status = row.status
      /\ m.age # Null /\ m.age \in Nat
      /\ SinceAnchor(m) = I
      /\ ~row.paused => m.age = I
      /\ \/ m.mode = "manual"
         \/ m.round >= m.rounds
         \/ I < Talk + m.ext + m.move
  BY PinnedRow
<1>3. row' \in RowType /\ AnchorInPast(row')
  <2>1. ClockInv'
    BY RunningKeepsClock
  <2> QED BY <2>1 DEF ClockInv, TypeOK, AnchorInPast
<1>4. L >= 1 /\ L \in Nat /\ Talk \in Nat /\ row.move \in Nat /\ row.ext \in Nat
  BY <1>1, Choices DEF ClockRow
<1> HIDE DEF m, L, I
\* A row pinned at the live round that shows as much time into it.
<1>5. ASSUME NEW x \in RowType, AnchorInPast(x), x.round = L, x.age # Null, SinceAnchor(x) = I,
             \/ x.mode = "manual"
             \/ x.round >= x.rounds
             \/ I < Talk + x.ext + x.move
      PROVE  RoundKept(x, 0)
  <2>1. LiveRound(x) = x.round /\ IntoRound(x) = SinceAnchor(x)
    BY <1>4, <1>5, ShowsStoredRound
  <2> QED BY <1>5, <2>1, SameRoundKept DEF L, I
<1>6. CASE PauseRound
  <2>1. row' = [m EXCEPT !.paused  = TRUE,
                         !.elapsed = IF m.age = Null \/ m.age < 0 THEN 0 ELSE m.age]
        /\ ~row.paused
    BY <1>6 DEF PauseRound, Mutate, m
  <2>2. (IF m.age = Null \/ m.age < 0 THEN 0 ELSE m.age) = I /\ I # Null
    BY <1>1, <1>2, <2>1, ClockAssumption DEF I
  <2>3. row' = [m EXCEPT !.paused = TRUE, !.elapsed = I]
    BY <2>1, <2>2
  <2>4. /\ row'.round = L /\ row'.age # Null /\ row'.mode = m.mode /\ row'.rounds = m.rounds
        /\ row'.ext = m.ext /\ row'.move = m.move /\ row'.paused = TRUE /\ row'.elapsed = I
    BY <1>2, <2>3 DEF RowType
  <2>5. SinceAnchor(row') = I
    BY <1>1, <2>2, <2>4 DEF SinceAnchor, Frozen, I
  <2> QED BY <1>2, <1>3, <1>5, <2>4, <2>5
<1>7. CASE ResumeRound
  <2> DEFINE at == IF row.elapsed = Null THEN 0 ELSE row.elapsed
  <2>1. row' = [row EXCEPT !.paused = FALSE, !.elapsed = Null, !.age = at] /\ row.paused
    BY <1>7 DEF ResumeRound, Mutate
  <2>2. at = Frozen(row) /\ at \in Int
    BY <1>1, <2>1 DEF Frozen, AnchorInPast, RowType
  <2> HIDE DEF at
  <2>3. /\ row'.round = row.round /\ row'.rounds = row.rounds /\ row'.ext = row.ext
        /\ row'.move = row.move /\ row'.mode = row.mode /\ row'.paused = FALSE /\ row'.age = at
    BY <1>1, <2>1 DEF RowType
  <2>4. SinceAnchor(row') = SinceAnchor(row)
    BY <2>1, <2>2, <2>3 DEF SinceAnchor
  <2>5. ClockRow(row') /\ Anchored(row')
    BY <1>1, <1>3, <2>2, <2>3, RowIsClockRow, ClockAssumption DEF Anchored
  <2>6. LiveRound(row') = LiveRound(row) /\ IntoRound(row') = IntoRound(row)
    BY <1>1, <2>3, <2>4, <2>5, SameClock
  <2> QED BY <2>6, SameRoundKept
<1>8. CASE CompleteConclave
  <2>1. row'.status = "completed"
    BY <1>1, <1>8 DEF CompleteConclave, Mutate, Completed, RowType
  <2> QED BY <2>1
<1>9. ASSUME NEW mode \in Modes, SetProgressionMode(mode)
      PROVE  RoundKept(row', 0)
  <2> DEFINE waiting == /\ mode = "automatic"
                        /\ row.status = "running"
                        /\ ~row.paused
                        /\ Phase(row) = "waiting"
             at == IF waiting THEN Talk + row.ext ELSE m.age
  <2>1. row' = [m EXCEPT !.mode = mode, !.age = at] /\ mode # row.mode
    BY <1>2, <1>9 DEF SetProgressionMode, Mutate, m, RowType
  <2>2. row.mode # "automatic" => m = row /\ L = row.round /\ LiveExtension(row) = row.ext
    BY <1>1 DEF m, Materialize, LiveRound, LiveExtension, L
  <2> HIDE DEF at, waiting
  <2>3. /\ row'.round = L /\ row'.rounds = row.rounds /\ row'.ext = LiveExtension(row)
        /\ row'.move = row.move /\ row'.mode = mode /\ row'.paused = row.paused
        /\ row'.elapsed = m.elapsed /\ row'.age = at
    BY <1>2, <2>1 DEF RowType
  <2>4. CASE waiting
    <3>1. row.mode # "automatic" /\ ~row.paused /\ Phase(row) = "waiting"
          /\ at = Talk + row.ext
      BY <2>1, <2>4 DEF waiting, at
    <3>2. Talk + row.ext \in Nat /\ at # Null
      BY <1>4, <3>1, ClockAssumption
    <3>3. SinceAnchor(row') = Talk + row.ext
      BY <2>3, <3>1 DEF SinceAnchor
    <3>4. row'.move >= 1
      <4>1. row'.move \in MoveOptions
        BY <1>3 DEF RowType
      <4>2. row'.move \in Nat \ {0}
        BY <4>1, ConclaveAssumption
      <4> QED BY <4>2
    <3>5. SinceAnchor(row') < Talk + row'.ext + row'.move
      BY <1>4, <2>2, <2>3, <3>1, <3>3, <3>4
    <3>6. LiveRound(row') = row'.round
      BY <1>3, <1>4, <2>3, <3>2, <3>5, ShowsStoredRound
    <3>7. Phase(row) \notin TalkPhases
      BY <3>1 DEF TalkPhases
    <3> QED BY <1>4, <2>3, <3>6, <3>7 DEF RoundKept, L
  <2>5. CASE ~waiting
    <3>1. at = m.age
      BY <2>5 DEF at
    <3>2. SinceAnchor(row') = I /\ row'.age # Null
      BY <1>2, <2>3, <3>1 DEF SinceAnchor, Frozen
    <3>3. CASE mode = "manual"
      BY <1>3, <1>5, <2>3, <3>2, <3>3
    <3>4. CASE mode = "automatic" /\ row.paused
      <4>1. ClockRow(row') /\ Anchored(row')
        BY <1>3, <1>4, <2>3, <3>2, RowIsClockRow DEF Anchored
      <4>2. LiveRound(row') >= L /\ LiveRound(row') \in Nat
        BY <2>3, <4>1, LiveRoundBounds
      <4>3. ASSUME LiveRound(row') = L PROVE IntoRound(row') = I
        <5>1. RoundOffset(row', L) = 0
          BY <2>3 DEF RoundOffset
        <5> QED BY <1>1, <3>2, <4>3, <5>1 DEF IntoRound, I
      <4> QED BY <1>1, <2>1, <2>3, <3>4, <4>2, <4>3 DEF RoundKept, L, I
    <3>5. CASE mode = "automatic" /\ ~row.paused
      <4>1. row.mode # "automatic" /\ Phase(row) # "waiting"
        <5>1. row.status = "running"
          BY DEF Live
        <5>2. row.mode # "automatic"
          BY <2>1, <3>5
        <5> QED BY <2>5, <3>5, <5>1, <5>2 DEF waiting
      <4>2. L >= row.rounds \/ I < Talk + LiveExtension(row) + row.move
        BY <1>1, <1>4, <4>1, WaitingPhase DEF L, I
      <4> QED BY <1>3, <1>5, <2>3, <3>2, <4>2
    <3> QED BY <3>3, <3>4, <3>5 DEF Modes
  <2> QED BY <2>4, <2>5
<1>10. ASSUME NEW s \in ExtendOptions, ExtendRound(s)
       PROVE  RoundKept(row', 0)
  <2>1. row' = [m EXCEPT !.ext = m.ext + s]
    BY <1>10 DEF ExtendRound, Mutate, m
  <2>2. /\ row'.round = L /\ row'.age = m.age /\ row'.mode = m.mode /\ row'.rounds = m.rounds
        /\ row'.ext = m.ext + s /\ row'.move = m.move /\ row'.paused = m.paused
        /\ row'.elapsed = m.elapsed
    BY <1>2, <2>1 DEF RowType
  <2>3. SinceAnchor(row') = I
    BY <1>2, <2>2 DEF SinceAnchor, Frozen
  <2>4. s \in Nat /\ m.ext \in Nat /\ m.move \in Nat
    BY <1>1, <1>2, <1>4, Choices
  <2>5. I < Talk + m.ext + m.move => I < Talk + row'.ext + row'.move
    BY <1>1, <1>4, <2>2, <2>4
  <2> QED BY <1>2, <1>3, <1>5, <2>2, <2>3, <2>5
<1>11. ASSUME NEW b \in MoveOptions, SetMoveSeconds(b)
       PROVE  RoundKept(row', 0)
  <2>1. row' = [m EXCEPT !.move = b]
    BY <1>11 DEF SetMoveSeconds, Mutate, m
  <2>2. /\ row'.round = L /\ row'.age = m.age /\ row'.mode = m.mode /\ row'.rounds = m.rounds
        /\ row'.ext = m.ext /\ row'.move = b /\ row'.paused = m.paused
        /\ row'.elapsed = m.elapsed
    BY <1>2, <2>1 DEF RowType
  <2>3. SinceAnchor(row') = I
    BY <1>2, <2>2 DEF SinceAnchor, Frozen
  <2>4. CASE m.mode = "manual" \/ m.round >= m.rounds
    BY <1>2, <1>3, <1>5, <2>2, <2>3, <2>4
  <2>5. CASE I < Talk + m.ext + m.move
    <3>1. ClockRow(row') /\ Anchored(row')
      BY <1>2, <1>3, <1>4, <2>2, RowIsClockRow DEF Anchored
    <3>2. /\ RoundOffset(row', L + 1) = RoundOffset(row', L) + Talk + m.ext + b
          /\ RoundOffset(row', L + 2) = RoundOffset(row', L + 1) + Talk + 0 + b
          /\ RoundOffset(row', L) = 0
      <4>1. L + 1 \in Nat /\ row'.round <= L /\ row'.round <= L + 1 /\ (L + 1) + 1 = L + 2
            /\ L + 1 # row'.round
        BY <1>4, <2>2
      <4>2. RoundOffset(row', L + 1) = RoundOffset(row', L) + Talk + m.ext + b
        BY <1>4, <2>2, <3>1, <4>1, OffsetStep
      <4>3. RoundOffset(row', (L + 1) + 1) = RoundOffset(row', L + 1) + Talk + 0 + b
        BY <2>2, <3>1, <4>1, OffsetStep
      <4> QED BY <2>2, <4>1, <4>2, <4>3 DEF RoundOffset
    <3>3. row.move - b <= Talk + b /\ b \in Nat /\ m.ext \in Nat
      BY <1>1, <1>2, TimesAssumption, Choices DEF RowType
    <3>4. RoundOffset(row', L + 2) > SinceAnchor(row')
      BY <1>1, <1>2, <1>4, <2>3, <2>5, <3>2, <3>3
    <3>5. LiveRound(row') < L + 2
      BY <1>4, <2>2, <3>1, <3>4, NotReachedYet
    <3>6. LiveRound(row') >= L /\ LiveRound(row') \in Nat
      BY <2>2, <3>1, LiveRoundBounds
    <3>7. ASSUME LiveRound(row') = L PROVE IntoRound(row') = I
      BY <1>1, <2>3, <3>2, <3>7 DEF IntoRound, I
    <3>8. LiveRound(row') <= L + 1
      BY <1>4, <3>5, <3>6
    <3> QED BY <1>1, <3>6, <3>7, <3>8 DEF RoundKept, L, I
  <2> QED BY <1>2, <2>4, <2>5
<1> QED BY <1>6, <1>7, <1>8, <1>9, <1>10, <1>11 DEF Running

\* No operation of the planning phase gets past a running row: the edits refuse
\* it and its schedule is locked already.
LEMMA PlanningNotRunning ==
  ASSUME ClockInv, SeatInv, Live, Planning
  PROVE  FALSE
<1>1. row.locked /\ row.status = "running"
  BY RunningRow DEF Live
<1> QED BY <1>1
    DEF Planning, UpdateConclave, SetRegistrationOpen, CancelConclave, GenerateSchedule,
        LockSchedule, RoleLockedStatuses

LEMMA RequestKeepsRound ==
  ASSUME ClockInv, SeatInv, Live, NEW c \in Requests, row'.status = "running",
         \/ \E n \in 1..MaxRounds : AskStart(c, n)
         \/ AskClose(c)
         \/ ReadForFix(c)
         \/ Serve(c)
  PROVE  RoundKept(row', 0)
<1> DEFINE m == Materialize(row)
           L == LiveRound(row)
<1>1. /\ row \in RowType /\ AnchorInPast(row) /\ row.round \in Nat /\ row.rounds \in 1..MaxRounds
      /\ row.round \in 1..row.rounds /\ L \in row.round..row.rounds
  BY RunningRow
<1>2. /\ m \in RowType /\ AnchorInPast(m) /\ m.round = L
  BY PinnedRow
<1>3. row' \in RowType /\ AnchorInPast(row') /\ req[c] \in ReqType /\ RecordedRequest(req[c])
  <2>1. ClockInv'
    BY RequestKeepsClock
  <2> QED BY <2>1 DEF ClockInv, TypeOK, AnchorInPast, SeatInv
<1>4. L >= 1 /\ L \in Nat /\ Talk \in Nat
  BY <1>1, Choices
<1>5. row'.move \in Nat \ {0} /\ row'.ext \in Nat
  <2>1. row'.move \in MoveOptions /\ row'.ext \in 0..MaxExtension
    BY <1>3 DEF RowType
  <2>2. row'.move \in Nat \ {0}
    BY <2>1, ConclaveAssumption
  <2>3. row'.ext \in Nat
    BY <2>1, Choices
  <2> QED BY <2>2, <2>3
<1> HIDE DEF m
<1>6. CASE row' = row
  BY <1>6, SameRoundKept
<1>7. CASE StartRound(c)
  <2> DEFINE n == req[c].n
             w == req[c].wait
  <2>1. row' = [row EXCEPT !.status = "running", !.regOpen = FALSE, !.round = n,
                           !.age = w, !.paused = FALSE, !.elapsed = Null, !.ext = 0]
        /\ MayStart(row, n)
    BY <1>7 DEF StartRound
  <2>2. n \in Nat /\ w \in 0..MaxWait
    BY <1>3, RoundNumbers DEF ReqType
  <2>3. n = L + 1
    BY <1>4, <2>1, <2>2 DEF MayStart, Live
  <2> HIDE DEF n, w, L
  <2>4. /\ row'.round = n /\ row'.age = w /\ row'.paused = FALSE /\ row'.ext = 0
    BY <1>1, <2>1 DEF RowType
  <2>5. SinceAnchor(row') = w /\ w # Null
    BY <2>2, <2>4, Choices, ClockAssumption DEF SinceAnchor
  <2>6. SinceAnchor(row') < Talk + row'.ext + row'.move
    BY <1>4, <1>5, <2>2, <2>5, TimesAssumption, Choices
  <2>7. LiveRound(row') = n
    BY <1>3, <1>4, <2>3, <2>4, <2>5, <2>6, ShowsStoredRound
  <2> QED BY <1>4, <2>3, <2>7 DEF RoundKept, L
<1>8. CASE CloseRound(c)
  <2> DEFINE at == Talk + m.ext
  <2>1. row' = [m EXCEPT !.paused = FALSE, !.elapsed = Null, !.age = at]
    BY <1>8 DEF CloseRound, m
  <2>2. at \in Nat /\ at # Null
    <3>1. m.ext \in 0..MaxExtension
      BY <1>2 DEF RowType
    <3> QED BY <1>4, <3>1, Choices, ClockAssumption
  <2>3. row'.round = L /\ row'.age = at /\ row'.paused = FALSE /\ row'.ext = m.ext
    <3> HIDE DEF at
    <3> QED BY <1>2, <2>1 DEF RowType
  <2>4. SinceAnchor(row') = at /\ SinceAnchor(row') < Talk + row'.ext + row'.move
    BY <1>4, <1>5, <2>2, <2>3 DEF SinceAnchor
  <2>5. LiveRound(row') = L /\ IntoRound(row') = at /\ LiveExtension(row') = m.ext
    BY <1>3, <1>4, <2>2, <2>3, <2>4, ShowsStoredRound
  <2>6. Phase(row') \notin TalkPhases
    <3>1. Anchored(row') /\ row'.rounds \in Nat
      BY <1>3, <1>4, <2>2, <2>3, RowIsClockRow DEF Anchored, ClockRow
    <3>2. row'.ext \in Nat /\ at \in Int /\ ~(at < Talk + m.ext)
      BY <1>4, <1>5, <2>2, <2>3
    <3> HIDE DEF at
    <3> QED BY <1>4, <2>3, <2>5, <3>1, <3>2, TalkingPhase
  <2> QED BY <2>5, <2>6, SameRoundKept
<1>9. ASSUME CloseLastRound(c) \/ ApplyFix(c) PROVE FALSE
  <2>1. CASE CloseLastRound(c)
    <3>1. row'.status = "completed"
      BY <1>1, <2>1 DEF CloseLastRound, Completed, RowType
    <3> QED BY <1>1, <3>1
  <2>2. CASE ApplyFix(c)
    <3>1. row'.status \notin RoleLockedStatuses
      BY <1>1, <1>3, <2>2 DEF ApplyFix, RowType, RecordedRequest
    <3> QED BY <1>1, <3>1 DEF RoleLockedStatuses
  <2> QED BY <1>9, <2>1, <2>2
<1> QED BY <1>6, <1>7, <1>8, <1>9 DEF AskStart, AskClose, ReadForFix, Serve, Refuse

\* By the time a conclave counts as abandoned, every round of it with the move
\* break after it, its extension and the grace fit in the age of its anchor.
LEMMA RoundsFit ==
  ASSUME ClockInv, SeatInv, Live, NEW j \in row.round..row.rounds
  PROVE  RoundOffset(row, j + 1) + Grace <= Abandoned
<1>1. /\ row \in RowType /\ ClockRow(row)
      /\ row.round \in 1..row.rounds /\ row.round \in Nat /\ row.rounds \in 1..MaxRounds
  BY RunningRow
<1>2. row.ext \in 0..MaxExtension /\ row.move \in MoveOptions
  BY <1>1 DEF RowType
<1> DEFINE T == Talk + row.move
           a == j - row.round + 1
<1>3. T \in Nat /\ a \in Nat /\ MaxRounds \in Nat /\ a <= MaxRounds /\ j \in Nat /\ row.round <= j
  BY <1>1, <1>2, Choices, RoundNumbers
<1>4. RoundOffset(row, j + 1) = a * T + row.ext
  BY <1>1, <1>3, OffsetClosed
<1>5. a * T <= MaxRounds * T /\ a * T \in Nat /\ MaxRounds * T \in Nat
  <2> HIDE DEF a, T
  <2> QED BY <1>3, TimesMonotone
<1>6. Abandoned >= MaxRounds * T + MaxExtension + Grace
  BY <1>2, TimesAssumption
<1> DEFINE p == a * T
           q == MaxRounds * T
<1>7. RoundOffset(row, j + 1) = p + row.ext /\ p <= q /\ p \in Nat /\ q \in Nat
      /\ Abandoned >= q + MaxExtension + Grace
  BY <1>4, <1>5, <1>6
<1> HIDE DEF p, q
<1> QED BY <1>2, <1>7, ConclaveAssumption

\* So the live round of such a conclave is over, and in automatic mode it is the
\* last one.
LEMMA AbandonedIsOver ==
  ASSUME ClockInv, SeatInv, Live, ~row.paused, row.age > Abandoned
  PROVE  /\ IntoRound(row) > Talk + LiveExtension(row) + Grace
         /\ row.mode = "automatic" => LiveRound(row) = row.rounds
<1> DEFINE L == LiveRound(row)
<1>1. /\ row \in RowType /\ ClockRow(row) /\ Anchored(row) /\ AnchorInPast(row)
      /\ row.round \in 1..row.rounds /\ row.round \in Nat /\ row.rounds \in 1..MaxRounds
      /\ L \in row.round..row.rounds /\ IntoRound(row) \in Nat
      /\ LiveExtension(row) \in 0..MaxExtension
  BY RunningRow
<1>2. SinceAnchor(row) = row.age /\ row.age \in Int
  BY <1>1, TimeTypes DEF SinceAnchor
<1>3. RoundOffset(row, L + 1) + Grace <= Abandoned
  BY <1>1, RoundsFit
<1>4. /\ RoundOffset(row, L) \in Nat /\ RoundOffset(row, L + 1) \in Nat
      /\ RoundOffset(row, L + 1) = RoundOffset(row, L) + Talk + LiveExtension(row) + row.move
  BY <1>1, OffsetStep DEF LiveExtension
<1>5. /\ Talk \in Nat /\ row.move \in Nat /\ Grace \in Nat /\ Abandoned \in Nat
      /\ LiveExtension(row) \in Nat
  BY <1>1, Choices, ConclaveAssumption DEF ClockRow
<1>6. IntoRound(row) = row.age - RoundOffset(row, L)
  BY <1>2 DEF IntoRound
<1> HIDE DEF L
<1>7. IntoRound(row) > Talk + LiveExtension(row) + Grace
  BY <1>2, <1>3, <1>4, <1>5, <1>6
<1>8. ASSUME row.mode = "automatic" PROVE L = row.rounds
  <2>1. ASSUME L < row.rounds PROVE FALSE
    <3>1. RoundOffset(row, L + 1) > SinceAnchor(row)
      BY <1>1, <1>8, <2>1, NextNotReached DEF L
    <3> QED BY <1>2, <1>3, <1>4, <1>5, <3>1
  <2> QED BY <1>1, <2>1
<1> QED BY <1>7, <1>8 DEF L

\* A minute: one that the clock counts, one of a pause, or one that is not
\* counted because the anchor's age is at its bound, where no round is talked in.
LEMMA TickKeepsRound ==
  ASSUME ClockInv, SeatInv, Live, Tick
  PROVE  RoundKept(row', IF ~row.paused THEN 1 ELSE 0)
<1>1. /\ row \in RowType /\ AnchorInPast(row) /\ ClockRow(row) /\ Anchored(row)
      /\ row.round \in Nat /\ row.rounds \in 1..MaxRounds
      /\ LiveRound(row) \in row.round..row.rounds
      /\ IntoRound(row) \in Nat
      /\ LiveExtension(row) \in 0..MaxExtension
  BY RunningRow
<1>2. row' \in RowType
  <2>1. ClockInv'
    BY BackgroundKeepsClock
  <2> QED BY <2>1 DEF ClockInv, TypeOK
<1>3. row.age \in Nat /\ row.age # Null /\ MaxAge \in Nat
  BY <1>1, TimeTypes, ConclaveAssumption, ClockAssumption DEF Anchored
<1> DEFINE at == IF row.age >= MaxAge THEN row.age ELSE row.age + 1
<1>4. row' = [row EXCEPT !.age = at]
  BY <1>3 DEF Tick
<1>5. at \in Nat /\ at # Null
  BY <1>3, ClockAssumption
<1> HIDE DEF at
<1>6. /\ row'.round = row.round /\ row'.rounds = row.rounds /\ row'.ext = row.ext
      /\ row'.move = row.move /\ row'.mode = row.mode /\ row'.paused = row.paused
      /\ row'.elapsed = row.elapsed /\ row'.age = at
  BY <1>1, <1>4 DEF RowType
<1>7. ClockRow(row') /\ Anchored(row')
  BY <1>1, <1>2, <1>5, <1>6, RowIsClockRow DEF Anchored
<1>8. CASE row.paused
  <2>1. SinceAnchor(row') = SinceAnchor(row)
    BY <1>6, <1>8 DEF SinceAnchor, Frozen
  <2>2. LiveRound(row') = LiveRound(row) /\ IntoRound(row') = IntoRound(row)
    BY <1>1, <1>6, <1>7, <2>1, SameClock
  <2>3. RoundKept(row', 0)
    BY <2>2, SameRoundKept
  <2> QED BY <1>8, <2>3
<1>9. CASE ~row.paused /\ row.age < MaxAge
  <2>1. SinceAnchor(row') = SinceAnchor(row) + 1
    BY <1>3, <1>6, <1>9 DEF SinceAnchor, at
  <2>2. /\ LiveRound(row') >= LiveRound(row)
        /\ LiveRound(row') <= LiveRound(row) + 1
        /\ LiveRound(row') = LiveRound(row) => IntoRound(row') = IntoRound(row) + 1
    BY <1>1, <1>6, <1>7, <2>1, MinutePasses
  <2>3. RoundKept(row', 1)
    BY <2>2 DEF RoundKept
  <2> QED BY <1>9, <2>3
<1>10. CASE ~row.paused /\ row.age >= MaxAge
  <2>1. LiveRound(row') = LiveRound(row)
    <3>1. SinceAnchor(row') = SinceAnchor(row)
      BY <1>3, <1>6, <1>10 DEF SinceAnchor, at
    <3> QED BY <1>1, <1>6, <1>7, <3>1, SameClock
  <2>2. IntoRound(row) > Talk + LiveExtension(row) + Grace
    <3>1. row.age > Abandoned
      BY <1>3, <1>10, TimesAssumption, ConclaveAssumption
    <3> QED BY <1>10, <3>1, AbandonedIsOver
  <2>3. Phase(row) \notin TalkPhases
    <3>1. /\ LiveExtension(row) \in Nat /\ IntoRound(row) \in Int /\ LiveRound(row) \in Int
          /\ row.rounds \in Int /\ Grace \in Nat /\ Talk \in Nat
      BY <1>1, Choices, ConclaveAssumption
    <3>2. ~(IntoRound(row) < Talk + LiveExtension(row))
      BY <2>2, <3>1
    <3> QED BY <1>1, <3>1, <3>2, TalkingPhase
  <2> QED BY <1>1, <1>10, <2>1, <2>3 DEF RoundKept
<1> QED BY <1>3, <1>8, <1>9, <1>10

\* What any step from a running row to a running row does to the round.
LEMMA RoundStep ==
  ASSUME ClockInv, SeatInv, Live, Live', [Next]_vars
  PROVE  RoundKept(row', IF Tick /\ ~row.paused THEN 1 ELSE 0)
<1>1. row'.status = "running"
  BY DEF Live
<1>2. CASE Tick
  BY <1>2, TickKeepsRound
<1>3. CASE ~Tick
  <2>1. SUFFICES RoundKept(row', 0)
    BY <1>3
  <2>2. CASE Planning
    BY <2>2, PlanningNotRunning
  <2>3. CASE Running
    BY <1>1, <2>3, RunningKeepsRound
  <2>4. ASSUME NEW c \in Requests,
               \/ \E n \in 1..MaxRounds : AskStart(c, n)
               \/ AskClose(c)
               \/ ReadForFix(c)
               \/ Serve(c)
        PROVE  RoundKept(row', 0)
    BY <1>1, <2>4, RequestKeepsRound
  <2>5. CASE Sweep
    <3>1. row'.status = "completed"
      BY <2>5, RunningRow DEF Sweep, Mutate, RowType
    <3> QED BY <1>1, <3>1
  <2>6. CASE DatesPass \/ UNCHANGED vars
    <3>1. row' = row
      BY <2>6 DEF DatesPass, vars
    <3> QED BY <3>1, SameRoundKept
  <2> QED BY <1>3, <2>2, <2>3, <2>4, <2>5, <2>6 DEF Next
<1> QED BY <1>2, <1>3

\* The live round of a running conclave never goes back, whatever the admins do
\* and however late a request that was read or timed earlier gets the lock.
THEOREM RoundsMoveForward ==
  ASSUME "running" \notin EditStatuses
  PROVE  Spec => ForwardOnly
<1>1. Init => ClockInv /\ SeatInv
  BY ClockInit, SeatInit
<1>2. ClockInv /\ SeatInv /\ [Next]_vars => (ClockInv /\ SeatInv)'
  BY ClockStep, SeatStep
<1>3. ClockInv /\ SeatInv /\ [Next]_vars
        => [Live /\ Live' => LiveRound(row)' >= LiveRound(row)]_vars
  BY RoundStep DEF RoundKept
<1> QED BY <1>1, <1>2, <1>3, PTL DEF Spec, ForwardOnly

\* No step skips a round, unless the mode is changed during a pause.
THEOREM NoRoundSkipped ==
  ASSUME "running" \notin EditStatuses
  PROVE  Spec => NoSkip
<1>1. Init => ClockInv /\ SeatInv
  BY ClockInit, SeatInit
<1>2. ClockInv /\ SeatInv /\ [Next]_vars => (ClockInv /\ SeatInv)'
  BY ClockStep, SeatStep
<1>3. ClockInv /\ SeatInv /\ [Next]_vars
        => [Live /\ Live' /\ ~(row.paused /\ row'.mode # row.mode)
              => LiveRound(row)' <= LiveRound(row) + 1]_vars
  BY RoundStep DEF RoundKept
<1> QED BY <1>1, <1>2, <1>3, PTL DEF Spec, NoSkip

\* No operation gives a round that is being talked in a minute or takes one from
\* it: its time goes on with the wall clock, outside pauses.
THEOREM TableTimeKept ==
  ASSUME "running" \notin EditStatuses
  PROVE  Spec => TalkTimeKept
<1>1. Init => ClockInv /\ SeatInv
  BY ClockInit, SeatInit
<1>2. ClockInv /\ SeatInv /\ [Next]_vars => (ClockInv /\ SeatInv)'
  BY ClockStep, SeatStep
<1>3. ClockInv /\ SeatInv /\ [Next]_vars
        => [Talking /\ Talking' /\ LiveRound(row)' = LiveRound(row)
              => IntoRound(row)' = IntoRound(row)
                                     + (IF Tick /\ ~row.paused THEN 1 ELSE 0)]_vars
  <2> SUFFICES ASSUME ClockInv, SeatInv, [Next]_vars, Talking, Talking',
                      LiveRound(row)' = LiveRound(row)
               PROVE  IntoRound(row)' = IntoRound(row)
                                          + (IF Tick /\ ~row.paused THEN 1 ELSE 0)
    OBVIOUS
  <2>1. Live /\ Live' /\ Phase(row) \in TalkPhases /\ Phase(row') \in TalkPhases
    BY DEF Talking
  <2>2. RoundKept(row', IF Tick /\ ~row.paused THEN 1 ELSE 0)
    BY <2>1, RoundStep
  <2> QED BY <2>1, <2>2 DEF RoundKept
<1> QED BY <1>1, <1>2, <1>3, PTL DEF Spec, TalkTimeKept

\* The operations on the live rounds leave the status alone, but for completing.
LEMMA RunningStatus ==
  ASSUME ClockInv, Running, ~CompleteConclave
  PROVE  row'.status = row.status
<1> DEFINE m == Materialize(row)
<1>1. row \in RowType /\ m \in RowType /\ m.status = row.status
  BY MaterializeSound DEF ClockInv, TypeOK
<1> HIDE DEF m
<1>2. CASE PauseRound
  BY <1>1, <1>2 DEF PauseRound, Mutate, RowType, m
<1>3. CASE ResumeRound
  BY <1>1, <1>3 DEF ResumeRound, Mutate, RowType
<1>4. ASSUME NEW mode \in Modes, SetProgressionMode(mode)
      PROVE  row'.status = row.status
  <2> DEFINE at == IF /\ mode = "automatic"
                      /\ row.status = "running"
                      /\ ~row.paused
                      /\ Phase(row) = "waiting"
                     THEN Talk + row.ext ELSE m.age
  <2>1. row' = [m EXCEPT !.mode = mode, !.age = at]
    BY <1>1, <1>4 DEF SetProgressionMode, Mutate, m, RowType
  <2> HIDE DEF at
  <2> QED BY <1>1, <2>1 DEF RowType
<1>5. ASSUME NEW s \in ExtendOptions, ExtendRound(s)
      PROVE  row'.status = row.status
  BY <1>1, <1>5 DEF ExtendRound, Mutate, RowType, m
<1>6. ASSUME NEW b \in MoveOptions, SetMoveSeconds(b)
      PROVE  row'.status = row.status
  BY <1>1, <1>6 DEF SetMoveSeconds, Mutate, RowType, m
<1> QED BY <1>2, <1>3, <1>4, <1>5, <1>6 DEF Running

\* What completes a running conclave: an admin, or the sweep, which does not set
\* completedAt.
LEMMA CompletedBy ==
  ASSUME ClockInv, SeatInv, Live, [Next]_vars, row'.status = "completed"
  PROVE  Sweep \/ (row' = Completed(row) /\ row'.completedAt)
<1>1. row \in RowType /\ row.status = "running"
  BY RunningRow DEF Live
<1>2. Materialize(row).status = "running" /\ Materialize(row) \in RowType
  BY <1>1, PinnedRow
<1>3. CASE Planning
  BY <1>3, PlanningNotRunning
<1>4. CASE Running
  <2>1. CASE CompleteConclave
    BY <1>1, <2>1 DEF CompleteConclave, Mutate, Completed, RowType
  <2>2. CASE ~CompleteConclave
    BY <1>1, <1>4, <2>2, RunningStatus
  <2> QED BY <2>1, <2>2
<1>5. ASSUME NEW c \in Requests,
             \/ \E n \in 1..MaxRounds : AskStart(c, n)
             \/ AskClose(c)
             \/ ReadForFix(c)
             \/ Serve(c)
      PROVE  row' = Completed(row) /\ row'.completedAt
  <2> DEFINE m == Materialize(row)
  <2>1. RecordedRequest(req[c])
    BY DEF SeatInv
  <2>2. m.status = "running" /\ m \in RowType
    BY <1>2
  <2> HIDE DEF m
  <2>3. CASE row' = row
    BY <1>1, <2>3
  <2>4. CASE StartRound(c)
    BY <1>1, <2>4 DEF StartRound, RowType
  <2>5. CASE CloseRound(c)
    BY <2>2, <2>5 DEF CloseRound, RowType, m
  <2>6. CASE CloseLastRound(c)
    BY <1>1, <2>6 DEF CloseLastRound, Completed, RowType
  <2>7. CASE ApplyFix(c)
    BY <1>1, <2>1, <2>7 DEF ApplyFix, RowType, RecordedRequest, RoleLockedStatuses
  <2> QED BY <1>5, <2>3, <2>4, <2>5, <2>6, <2>7 DEF AskStart, AskClose, ReadForFix, Serve, Refuse
<1>6. CASE Tick
  BY <1>1, <1>6 DEF Tick, RowType
<1>7. CASE DatesPass \/ UNCHANGED vars
  BY <1>1, <1>7 DEF DatesPass, vars
<1> QED BY <1>3, <1>4, <1>5, <1>6, <1>7 DEF Next

\* In automatic mode the sweep completes a conclave only after its last round,
\* with the extension and the grace: the 24-hour rule, which looks at the age of
\* the stored anchor alone, is never the one that ends it early.
THEOREM SweepIsLate ==
  ASSUME "running" \notin EditStatuses
  PROVE  Spec => NeverCutShort
<1>1. Init => ClockInv /\ SeatInv
  BY ClockInit, SeatInit
<1>2. ClockInv /\ SeatInv /\ [Next]_vars => (ClockInv /\ SeatInv)'
  BY ClockStep, SeatStep
<1>3. ClockInv /\ SeatInv /\ [Next]_vars
        => [Live /\ row'.status = "completed" /\ ~row'.completedAt /\ row.mode = "automatic"
              => /\ LiveRound(row) = row.rounds
                 /\ IntoRound(row) > Talk + LiveExtension(row) + Grace]_vars
  <2> SUFFICES ASSUME ClockInv, SeatInv, [Next]_vars, Live, row'.status = "completed",
                      ~row'.completedAt, row.mode = "automatic"
               PROVE  /\ LiveRound(row) = row.rounds
                      /\ IntoRound(row) > Talk + LiveExtension(row) + Grace
    OBVIOUS
  <2>1. Sweep
    BY CompletedBy
  <2>2. /\ Anchored(row) /\ IntoRound(row) \in Nat /\ LiveExtension(row) \in 0..MaxExtension
        /\ LiveRound(row) \in row.round..row.rounds /\ row.rounds \in 1..MaxRounds
        /\ row.round \in Nat
    BY RunningRow
  <2>3. ~row.paused /\ row.age # Null
    BY <2>1, <2>2 DEF Sweep, IsFinished, Anchored
  <2>4. CASE row.age > Abandoned
    BY <2>3, <2>4, AbandonedIsOver
  <2>5. CASE Phase(row) = "done" /\ IntoRound(row) > Talk + LiveExtension(row) + Grace
    <3>1. LiveRound(row) >= row.rounds
      <4>1. /\ Talk \in Nat /\ Grace \in Nat /\ LiveExtension(row) \in Nat
            /\ Bio \in Nat /\ Bio <= Talk
        BY <2>2, Choices, ConclaveAssumption, ClockAssumption DEF Talk
      <4>2. /\ ~(IntoRound(row) < Bio) /\ IntoRound(row) \notin Bio..(Talk - 1)
            /\ IntoRound(row) \notin Talk..(Talk + LiveExtension(row) - 1)
            /\ IntoRound(row) >= Talk + LiveExtension(row)
        BY <2>2, <2>5, <4>1
      <4> QED BY <2>2, <2>5, <4>2 DEF Phase
    <3> QED BY <2>2, <2>5, <3>1
  <2> QED BY <2>1, <2>3, <2>4, <2>5 DEF Sweep, IsFinished
<1> QED BY <1>1, <1>2, <1>3, PTL DEF Spec, NeverCutShort

-----------------------------------------------------------------------------
(* The life of a conclave as its members see it                            *)

\* What the statuses say of the stored round, and registration of the schedule:
\* no round was ever stored before the conclave runs, one is afterwards, and a
\* generated schedule has closed registration.
LifeRow(r) ==
  /\ r.status \notin {"running", "completed"} => r.round = 0
  /\ r.status = "completed" => r.round >= 1
  /\ r.schedule => ~r.regOpen

\* With it, no correction is ever needed, so none is in flight: a `completed'
\* that no round led to is one that an edit wrote.
LifeInv ==
  /\ LifeRow(row)
  /\ \A c \in Requests : req[c].op # "fix"

\* Registration does not evaluate to open once there is a schedule.
LEMMA EvaluateClosed ==
  ASSUME NEW s, NEW r, NEW w, r.schedule
  PROVE  ~Evaluate(s, r, w).open
<1>1. CASE s \in RoleLockedStatuses
  BY <1>1 DEF Evaluate, RoleLockedStatuses
<1>2. CASE s \notin RoleLockedStatuses
  BY <1>2 DEF Evaluate
<1> QED BY <1>1, <1>2

LEMMA LifeInit ==
  ASSUME {"running", "completed"} \cap EditStatuses = {}, Init
  PROVE  LifeInv
<1>1. PICK o \in Overrides, s \in EditStatuses \cup {Null}, n \in RoundCounts, m \in MoveOptions :
        row = NewRow(o, date.reg, s, n, m)
  BY DEF Init
<1> DEFINE r == [schedule |-> FALSE, locked |-> FALSE, override |-> o]
           e == Evaluate("none", r, date.reg)
<1>2. date.reg \in {"before", "open", "after"}
  BY ConclaveAssumption DEF Init, DateType
<1>3. e.status \notin RoleLockedStatuses
  BY <1>2, EvaluateResult DEF RoleLockedStatuses
<1> HIDE DEF e
<1>4. row.round = 0 /\ row.status = (IF s = Null THEN e.status ELSE s) /\ row.schedule = FALSE
  BY <1>1 DEF NewRow, e
<1>5. row.status \notin {"running", "completed"}
  BY <1>3, <1>4 DEF RoleLockedStatuses
<1>6. LifeRow(row)
  BY <1>4, <1>5 DEF LifeRow
<1>7. \A c \in Requests : req[c].op # "fix"
  BY DEF Init, Idle
<1> QED BY <1>6, <1>7 DEF LifeInv

LEMMA MaterializeLife ==
  ASSUME NEW r \in RowType, AnchorInPast(r), LifeRow(r)
  PROVE  LifeRow(Materialize(r))
<1> DEFINE m == Materialize(r)
<1>1. /\ m.round = r.round \/ (Anchored(r) /\ m.round \in (r.round + 1)..r.rounds)
      /\ m.status = r.status /\ m.schedule = r.schedule /\ m.regOpen = r.regOpen
  BY MaterializeSound
<1>2. r.round \in Nat /\ r.rounds \in Nat
  BY RowIsClockRow DEF ClockRow
<1> HIDE DEF m
<1>3. LifeRow(m)
  BY <1>1, <1>2 DEF LifeRow, Anchored
<1> QED BY <1>3 DEF m

LEMMA PlanningLife ==
  ASSUME {"running", "completed"} \cap EditStatuses = {}, ClockInv, SeatInv, LifeInv, Planning
  PROVE  LifeInv'
<1>1. row \in RowType /\ date \in DateType /\ LifeRow(row)
      /\ \A c \in Requests : req[c].op # "fix"
  BY DEF ClockInv, TypeOK, LifeInv
<1>2. ASSUME req' = req, LifeRow(row') PROVE LifeInv'
  BY <1>1, <1>2 DEF LifeInv, LifeRow
<1>3. ASSUME NEW s \in EditStatuses \cup {Null}, NEW o \in Overrides \cup {Null},
             NEW n \in RoundCounts \cup {Null}, NEW m \in MoveOptions \cup {Null},
             NEW d \in Dates, UpdateConclave(s, o, n, m, d)
      PROVE  LifeInv'
  <2> DEFINE status == IF s = Null THEN row.status ELSE s
             u == [row EXCEPT !.override = IF o = Null THEN @ ELSE o,
                              !.rounds   = IF n = Null THEN @ ELSE n,
                              !.move     = IF m = Null THEN @ ELSE m]
             e == Evaluate(status, u, d.reg)
  <2>1. d.reg \in {"before", "open", "after"}
    BY ConclaveAssumption DEF DateType
  <2>2. status \notin {"running", "completed"} /\ row.status \notin {"running", "completed"}
    BY <1>3 DEF UpdateConclave
  <2>3. u \in RowType
    BY <1>1 DEF RowType
  <2>4. row' = [u EXCEPT !.status = IF s = Null THEN e.status ELSE s, !.regOpen = e.open]
        /\ req' = req
    BY <1>3 DEF UpdateConclave
  <2>5. u.round = row.round /\ u.schedule = row.schedule
    BY <1>1 DEF RowType
  <2>6. row.round = 0
    BY <1>1, <2>2 DEF LifeRow
  <2> HIDE DEF u, status
  <2>7. u.schedule \in BOOLEAN /\ u.locked \in BOOLEAN /\ u.override \in Overrides
    BY <2>3 DEF RowType
  <2>8. e.status \notin {"running", "completed"}
    <3>1. CASE status \in RoleLockedStatuses
      BY <2>1, <2>2, <2>7, <3>1, EvaluateResult
    <3>2. CASE status \notin RoleLockedStatuses
      BY <2>1, <2>7, <3>2, EvaluateResult DEF RoleLockedStatuses
    <3> QED BY <3>1, <3>2
  <2>9. u.schedule => ~e.open
    BY EvaluateClosed
  <2> HIDE DEF e
  <2>10. row'.round = 0 /\ row'.status = (IF s = Null THEN e.status ELSE s)
         /\ row'.schedule = u.schedule /\ row'.regOpen = e.open
    BY <2>3, <2>4, <2>5, <2>6 DEF RowType
  <2>11. row'.status \notin {"running", "completed"}
    BY <2>8, <2>10
  <2> QED BY <1>2, <2>4, <2>9, <2>10, <2>11 DEF LifeRow
<1>4. ASSUME NEW open \in BOOLEAN, SetRegistrationOpen(open)
      PROVE  LifeInv'
  <2> DEFINE o == IF open THEN "open" ELSE "closed"
             u == [row EXCEPT !.override = o]
             e == Evaluate(row.status, u, date.reg)
  <2>1. u.schedule \in BOOLEAN /\ u.locked \in BOOLEAN /\ u.override \in Overrides
        /\ date.reg \in {"before", "open", "after"} /\ u.schedule = row.schedule
    BY <1>1 DEF RowType, DateType, Overrides
  <2>2. row.status \notin RoleLockedStatuses
        /\ row' = [row EXCEPT !.override = o, !.status = e.status, !.regOpen = e.open]
        /\ req' = req
    BY <1>4 DEF SetRegistrationOpen, Mutate
  <2> HIDE DEF u, o
  <2>3. e.status \notin {"running", "completed"}
    BY <2>1, <2>2, EvaluateResult DEF RoleLockedStatuses
  <2>4. u.schedule => ~e.open
    BY EvaluateClosed
  <2>5. row.round = 0
    BY <1>1, <2>2 DEF LifeRow, RoleLockedStatuses
  <2> HIDE DEF e
  <2>6. row'.round = 0 /\ row'.status = e.status
        /\ row'.schedule = row.schedule /\ row'.regOpen = e.open
    BY <1>1, <2>2, <2>5 DEF RowType
  <2> QED BY <1>2, <2>1, <2>2, <2>3, <2>4, <2>6 DEF LifeRow
<1>5. CASE CancelConclave
  <2>1. LifeRow(row') /\ req' = req
    BY <1>1, <1>5 DEF CancelConclave, Mutate, RowType, LifeRow, RoleLockedStatuses
  <2> QED BY <1>2, <2>1
<1>6. ASSUME NEW n \in RoundCounts, GenerateSchedule(n)
      PROVE  LifeInv'
  <2>1. LifeRow(row') /\ req' = req
    BY <1>1, <1>6 DEF GenerateSchedule, Mutate, RowType, LifeRow, RoleLockedStatuses
  <2> QED BY <1>2, <2>1
<1>7. CASE LockSchedule
  <2>1. row.status # "running"
    BY <1>7, RunningRow DEF LockSchedule, Live
  <2>2. LifeRow(row') /\ req' = req
    BY <1>1, <1>7, <2>1 DEF LockSchedule, Mutate, RowType, LifeRow
  <2> QED BY <1>2, <2>2
<1> QED BY <1>3, <1>4, <1>5, <1>6, <1>7 DEF Planning

LEMMA RunningLife ==
  ASSUME ClockInv, SeatInv, LifeInv, Running
  PROVE  LifeInv'
<1> DEFINE m == Materialize(row)
<1>1. row \in RowType /\ AnchorInPast(row) /\ LifeRow(row) /\ SeatedRow(row)
      /\ \A c \in Requests : req[c].op # "fix"
  BY DEF ClockInv, TypeOK, LifeInv, SeatInv
<1>2. m \in RowType /\ LifeRow(m)
  BY <1>1, MaterializeSound, MaterializeLife
<1> HIDE DEF m
<1>3. ASSUME NEW r, LifeRow(r), req' = req, row'.status = r.status, row'.round = r.round,
             row'.schedule = r.schedule, row'.regOpen = r.regOpen
      PROVE  LifeInv'
  BY <1>1, <1>3 DEF LifeInv, LifeRow
<1>4. CASE PauseRound
  BY <1>2, <1>3, <1>4 DEF PauseRound, Mutate, RowType, m
<1>5. CASE ResumeRound
  BY <1>1, <1>3, <1>5 DEF ResumeRound, Mutate, RowType
<1>6. CASE CompleteConclave
  <2>1. row.round >= 1
    BY <1>1, <1>6 DEF SeatedRow, CompleteConclave, RowType
  <2>2. LifeRow(row') /\ req' = req
    BY <1>1, <1>6, <2>1 DEF CompleteConclave, Completed, Mutate, RowType, LifeRow
  <2> QED BY <1>1, <2>2 DEF LifeInv, LifeRow
<1>7. ASSUME NEW mode \in Modes, SetProgressionMode(mode)
      PROVE  LifeInv'
  <2> DEFINE at == IF /\ mode = "automatic"
                      /\ row.status = "running"
                      /\ ~row.paused
                      /\ Phase(row) = "waiting"
                     THEN Talk + row.ext ELSE m.age
  <2>1. row' = [m EXCEPT !.mode = mode, !.age = at] /\ req' = req
    BY <1>2, <1>7 DEF SetProgressionMode, Mutate, m, RowType
  <2> HIDE DEF at
  <2> QED BY <1>2, <1>3, <2>1 DEF RowType
<1>8. ASSUME NEW s \in ExtendOptions, ExtendRound(s)
      PROVE  LifeInv'
  BY <1>2, <1>3, <1>8 DEF ExtendRound, Mutate, RowType, m
<1>9. ASSUME NEW b \in MoveOptions, SetMoveSeconds(b)
      PROVE  LifeInv'
  BY <1>2, <1>3, <1>9 DEF SetMoveSeconds, Mutate, RowType, m
<1> QED BY <1>4, <1>5, <1>6, <1>7, <1>8, <1>9 DEF Running

LEMMA RequestLife ==
  ASSUME ClockInv, SeatInv, LifeInv, NEW c \in Requests,
         \/ \E n \in 1..MaxRounds : AskStart(c, n)
         \/ AskClose(c)
         \/ ReadForFix(c)
         \/ Serve(c)
  PROVE  LifeInv'
<1> DEFINE m == Materialize(row)
<1>1. row \in RowType /\ AnchorInPast(row) /\ LifeRow(row) /\ SeatedRow(row)
      /\ req \in [Requests -> ReqType]
      /\ \A d \in Requests : req[d].op # "fix"
  BY DEF ClockInv, TypeOK, LifeInv, SeatInv
<1>2. m \in RowType /\ LifeRow(m)
  BY <1>1, MaterializeSound, MaterializeLife
<1> HIDE DEF m
<1>3. ASSUME NEW q, q.op # "fix", req' = [req EXCEPT ![c] = q], LifeRow(row')
      PROVE  LifeInv'
  BY <1>1, <1>3 DEF LifeInv, LifeRow
<1>4. Idle.op # "fix"
  BY DEF Idle
<1>5. ASSUME NEW n \in 1..MaxRounds, AskStart(c, n)
      PROVE  LifeInv'
  <2> DEFINE q == [Idle EXCEPT !.op = "start", !.n = n]
  <2>1. q.op # "fix"
    BY DEF Idle
  <2> HIDE DEF q
  <2> QED BY <1>1, <1>3, <1>5, <2>1 DEF AskStart, q
<1>6. CASE AskClose(c)
  <2>1. PICK o \in {"complete", "close"} : req' = [req EXCEPT ![c] = [Idle EXCEPT !.op = o]]
    BY <1>6 DEF AskClose
  <2> DEFINE q == [Idle EXCEPT !.op = o]
  <2>2. q.op # "fix"
    BY DEF Idle
  <2> HIDE DEF q
  <2> QED BY <1>1, <1>3, <1>6, <2>1, <2>2 DEF AskClose, q
<1>7. ASSUME ReadForFix(c) PROVE FALSE
  <2>1. row.status = "completed" /\ row.round = 0
    BY <1>7 DEF ReadForFix, NeedsFix
  <2> QED BY <1>1, <2>1 DEF LifeRow
<1>8. CASE Serve(c)
  <2>1. req' = [req EXCEPT ![c] = Idle]
    BY <1>8 DEF Serve, StartRound, CloseRound, CloseLastRound, ApplyFix, Refuse
  <2>2. SUFFICES LifeRow(row')
    BY <1>3, <1>4, <2>1
  <2>3. CASE StartRound(c)
    BY <1>1, <2>3 DEF StartRound, RowType, LifeRow
  <2>4. CASE CloseRound(c)
    BY <1>2, <2>4 DEF CloseRound, RowType, LifeRow, m
  <2>5. CASE CloseLastRound(c)
    <3>1. row.round >= 1
      BY <1>1, <2>5 DEF SeatedRow, CloseLastRound, RowType
    <3> QED BY <1>1, <2>5, <3>1 DEF CloseLastRound, Completed, RowType, LifeRow
  <2>6. CASE ApplyFix(c)
    BY <1>1, <2>6 DEF ApplyFix
  <2>7. CASE Refuse(c)
    BY <1>1, <2>7 DEF Refuse
  <2> QED BY <1>8, <2>3, <2>4, <2>5, <2>6, <2>7 DEF Serve
<1> QED BY <1>5, <1>6, <1>7, <1>8

LEMMA LifeStep ==
  ASSUME {"running", "completed"} \cap EditStatuses = {}, ClockInv, SeatInv, LifeInv, [Next]_vars
  PROVE  LifeInv'
<1>1. row \in RowType /\ LifeRow(row) /\ SeatedRow(row) /\ req \in [Requests -> ReqType]
      /\ \A d \in Requests : req[d].op # "fix"
  BY DEF ClockInv, TypeOK, LifeInv, SeatInv
<1>2. CASE Planning
  BY <1>2, PlanningLife
<1>3. CASE Running
  BY <1>3, RunningLife
<1>4. ASSUME NEW c \in Requests,
             \/ \E n \in 1..MaxRounds : AskStart(c, n)
             \/ AskClose(c)
             \/ ReadForFix(c)
             \/ Serve(c)
      PROVE  LifeInv'
  BY <1>4, RequestLife
<1>5. CASE Sweep
  <2>1. row.rounds >= 1
    BY <1>1, RowIsClockRow, RoundNumbers
  <2>2. LifeRow(row') /\ req' = req
    BY <1>1, <1>5, <2>1 DEF Sweep, Mutate, RowType, LifeRow
  <2> QED BY <1>1, <2>2 DEF LifeInv, LifeRow
<1>6. CASE Tick
  <2>1. LifeRow(row')
    BY <1>1, <1>6 DEF Tick, RowType, LifeRow
  <2>2. ASSUME NEW c \in Requests PROVE req'[c].op # "fix"
    <3>1. req[c].op # "start" => req'[c] = req[c]
      BY <1>6 DEF Tick
    <3>2. CASE req[c].op = "start"
      <4>1. req[c] \in ReqType
        BY <1>1
      <4>2. req'[c] = Idle \/ req'[c] = [req[c] EXCEPT !.wait = @ + 1]
        BY <1>6, <3>2 DEF Tick
      <4> QED BY <3>2, <4>1, <4>2 DEF Idle, ReqType
    <3> QED BY <1>1, <3>1, <3>2
  <2> QED BY <2>1, <2>2 DEF LifeInv, LifeRow
<1>7. CASE DatesPass \/ UNCHANGED vars
  BY <1>1, <1>7 DEF DatesPass, vars, LifeInv, LifeRow
<1> QED BY <1>2, <1>3, <1>4, <1>5, <1>6, <1>7 DEF Next

\* Nothing in the planning phase touches the round, or a completed conclave.
LEMMA PlanningKeepsRound ==
  ASSUME ClockInv, Planning
  PROVE  /\ row'.round = row.round
         /\ row.status = "completed" => row'.status = "completed"
<1>1. row \in RowType
  BY DEF ClockInv, TypeOK
<1>2. ASSUME NEW s \in EditStatuses \cup {Null}, NEW o \in Overrides \cup {Null},
             NEW n \in RoundCounts \cup {Null}, NEW m \in MoveOptions \cup {Null},
             NEW d \in Dates, UpdateConclave(s, o, n, m, d)
      PROVE  row'.round = row.round /\ row.status # "completed"
  <2> DEFINE u == [row EXCEPT !.override = IF o = Null THEN @ ELSE o,
                              !.rounds   = IF n = Null THEN @ ELSE n,
                              !.move     = IF m = Null THEN @ ELSE m]
             e == Evaluate(IF s = Null THEN row.status ELSE s, u, d.reg)
  <2>1. row' = [u EXCEPT !.status = IF s = Null THEN e.status ELSE s, !.regOpen = e.open]
        /\ row.status # "completed"
    BY <1>2 DEF UpdateConclave
  <2> HIDE DEF e
  <2>2. row'.round = u.round
    BY <1>1, <2>1 DEF RowType
  <2> QED BY <1>1, <2>1, <2>2 DEF RowType
<1>3. ASSUME NEW open \in BOOLEAN, SetRegistrationOpen(open)
      PROVE  row'.round = row.round /\ row.status # "completed"
  BY <1>1, <1>3 DEF SetRegistrationOpen, Mutate, RowType, RoleLockedStatuses
<1>4. CASE CancelConclave
  BY <1>1, <1>4 DEF CancelConclave, Mutate, RowType, RoleLockedStatuses
<1>5. ASSUME NEW n \in RoundCounts, GenerateSchedule(n)
      PROVE  row'.round = row.round /\ row.status # "completed"
  BY <1>1, <1>5 DEF GenerateSchedule, Mutate, RowType, RoleLockedStatuses
<1>6. CASE LockSchedule
  BY <1>1, <1>6 DEF LockSchedule, Mutate, RowType
<1> QED BY <1>2, <1>3, <1>4, <1>5, <1>6 DEF Planning

\* How the status moves: from planned to running by the start of a round, from
\* running to completed, and nowhere else but among the planned ones.
LEMMA StatusStep ==
  ASSUME {"running", "completed"} \cap EditStatuses = {}, ClockInv, SeatInv, LifeInv, [Next]_vars
  PROVE  \/ row'.status = row.status
         \/ row.status = "running" /\ row'.status = "completed"
         \/ row.status \notin {"running", "completed"}
              /\ row'.status \notin {"running", "completed"}
         \/ row.status \notin {"running", "completed"} /\ row'.status = "running"
              /\ \E c \in Requests : StartRound(c)
<1>1. row \in RowType /\ \A d \in Requests : req[d].op # "fix"
  BY DEF ClockInv, TypeOK, LifeInv
<1>2. CASE Planning
  <2>1. row.status # "running"
    BY <1>2, PlanningNotRunning DEF Live
  <2>2. row'.round = row.round /\ (row.status = "completed" => row'.status = "completed")
    BY <1>2, PlanningKeepsRound
  <2>3. SeatInv' /\ LifeInv' /\ (row.round = 0 \/ row.status = "completed")
    BY <1>2, <2>1, PlanningSeated, PlanningLife DEF LifeInv, LifeRow
  <2>4. row.status # "completed" => row'.status \notin {"running", "completed"}
    BY <2>2, <2>3 DEF SeatInv, SeatedRow, LifeInv, LifeRow
  <2> QED BY <2>1, <2>2, <2>4
<1>3. CASE Running
  <2>1. CASE CompleteConclave
    BY <1>1, <2>1 DEF CompleteConclave, Completed, Mutate, RowType
  <2>2. CASE ~CompleteConclave
    BY <1>3, <2>2, RunningStatus
  <2> QED BY <2>1, <2>2
<1>4. ASSUME NEW c \in Requests,
             \/ \E n \in 1..MaxRounds : AskStart(c, n)
             \/ AskClose(c)
             \/ ReadForFix(c)
             \/ CloseRound(c)
             \/ CloseLastRound(c)
             \/ ApplyFix(c)
             \/ Refuse(c)
      PROVE  \/ row'.status = row.status
             \/ row.status = "running" /\ row'.status = "completed"
  <2> DEFINE m == Materialize(row)
  <2>1. m \in RowType /\ m.status = row.status
    BY <1>1, MaterializeSound DEF ClockInv
  <2> HIDE DEF m
  <2>2. CASE CloseRound(c)
    BY <2>1, <2>2 DEF CloseRound, RowType, m
  <2>3. CASE CloseLastRound(c)
    BY <1>1, <2>3 DEF CloseLastRound, Completed, RowType
  <2>4. CASE row' = row
    BY <2>4
  <2> QED BY <1>1, <1>4, <2>2, <2>3, <2>4 DEF AskStart, AskClose, ReadForFix, ApplyFix, Refuse
<1>5. ASSUME NEW c \in Requests, StartRound(c)
      PROVE  row'.status = "running" /\ row.status \notin TerminalStatuses
  BY <1>1, <1>5 DEF StartRound, MayStart, RowType
<1>6. CASE Sweep
  BY <1>1, <1>6 DEF Sweep, Mutate, RowType
<1>7. CASE Tick
  BY <1>1, <1>7 DEF Tick, RowType
<1>8. CASE DatesPass \/ UNCHANGED vars
  BY <1>8 DEF DatesPass, vars
<1>9. ASSUME NEW c \in Requests, StartRound(c), row.status # "running"
      PROVE  row.status \notin {"running", "completed"} /\ row'.status = "running"
               /\ \E d \in Requests : StartRound(d)
  BY <1>5, <1>9 DEF TerminalStatuses
<1> QED BY <1>2, <1>3, <1>4, <1>5, <1>6, <1>7, <1>8, <1>9 DEF Next, Serve

\* The first round a conclave is in is round 1.
LEMMA BeginsWithOne ==
  ASSUME ClockInv, SeatInv, LifeInv, NEW c \in Requests, StartRound(c), ClockInv', SeatInv',
         row.status \notin {"running", "completed"}
  PROVE  LiveRound(row') = 1
<1> DEFINE n == req[c].n
           w == req[c].wait
<1>1. row \in RowType /\ row' \in RowType /\ AnchorInPast(row') /\ row.round = 0
      /\ req[c] \in ReqType /\ RecordedRequest(req[c])
  BY DEF ClockInv, TypeOK, AnchorInPast, LifeInv, LifeRow, SeatInv
<1>2. LiveRound(row) = 0
  BY <1>1 DEF LiveRound, Anchored
<1>3. row' = [row EXCEPT !.status = "running", !.regOpen = FALSE, !.round = n,
                         !.age = w, !.paused = FALSE, !.elapsed = Null, !.ext = 0]
      /\ MayStart(row, n) /\ n \in 0..MaxRounds /\ w \in 0..MaxWait /\ n >= 1
  BY <1>1 DEF StartRound, ReqType, RecordedRequest
<1>4. n = 1
  BY <1>2, <1>3, RoundNumbers DEF MayStart
<1> HIDE DEF n, w
<1>5. row'.round = 1 /\ row'.age = w /\ row'.paused = FALSE /\ row'.ext = 0
  BY <1>1, <1>3, <1>4 DEF RowType
<1>6. SinceAnchor(row') = w /\ w # Null
  BY <1>3, <1>5, Choices, ClockAssumption DEF SinceAnchor
<1>7. row'.move \in Nat
  BY <1>1, Choices DEF RowType
<1>8. SinceAnchor(row') < Talk + row'.ext + row'.move
  BY <1>3, <1>5, <1>6, <1>7, TimesAssumption, Choices
<1> QED BY <1>1, <1>5, <1>6, <1>8, ShowsStoredRound

\* Every step of the conclave is one of its life as its members see it, or none.
LEMMA LifeRefined ==
  ASSUME {"running", "completed"} \cap EditStatuses = {},
         ClockInv, SeatInv, LifeInv, ClockInv', SeatInv', [Next]_vars
  PROVE  [Life!Next]_(Life!vars)
<1>1. row \in RowType /\ row' \in RowType
  BY DEF ClockInv, TypeOK
<1>2. LiveRound(row) \in 0..MaxRounds /\ LiveRound(row') \in 0..MaxRounds /\ MaxRounds \in Nat
  BY <1>1, RowIsClockRow, RoundNumbers
<1>3. CASE Live /\ Live'
  <2>1. LiveRound(row') >= LiveRound(row)
    BY <1>3, RoundStep DEF RoundKept
  <2>2. CASE LiveRound(row') = LiveRound(row)
    BY <1>3, <2>2 DEF Life!vars, Live
  <2>3. CASE LiveRound(row') # LiveRound(row)
    <3>1. LiveRound(row') \in (LiveRound(row) + 1)..MaxRounds
      BY <1>2, <2>1, <2>3
    <3>2. Life!Advance
      BY <1>3, <3>1 DEF Life!Advance, Live
    <3> QED BY <3>2 DEF Life!Next
  <2> QED BY <2>2, <2>3
<1>4. CASE Live /\ ~Live'
  <2>1. row.status = "running" /\ row'.status = "completed"
    BY <1>4, StatusStep DEF Live
  <2>2. Life!Finish
    BY <2>1 DEF Life!Finish, Live
  <2> QED BY <2>2 DEF Life!Next
<1>5. CASE ~Live /\ Live'
  <2>1. row.status \notin {"running", "completed"} /\ row'.status = "running"
    BY <1>5, StatusStep DEF Live
  <2>2. PICK c \in Requests : StartRound(c)
    BY <1>5, StatusStep DEF Live
  <2>3. LiveRound(row') = 1
    BY <2>1, <2>2, BeginsWithOne
  <2>4. Life!Begin
    BY <2>1, <2>3 DEF Life!Begin, Live
  <2> QED BY <2>4 DEF Life!Next
<1>6. CASE ~Live /\ ~Live'
  <2>1. row'.status = "completed" <=> row.status = "completed"
    BY <1>6, StatusStep DEF Live
  <2> QED BY <1>6, <2>1 DEF Life!vars, Live
<1> QED BY <1>3, <1>4, <1>5, <1>6

\* Nothing the row goes through, from its creation to its completion, is
\* anything else than the life a conclave promises its members: begun once and
\* with round 1, its rounds moving forward, over once and for good.
THEOREM LifeImplemented ==
  ASSUME {"running", "completed"} \cap EditStatuses = {}
  PROVE  Spec => ImplementsLife
<1>1. Init => ClockInv /\ SeatInv /\ LifeInv
  BY ClockInit, SeatInit, LifeInit
<1>2. ClockInv /\ SeatInv /\ LifeInv /\ [Next]_vars => (ClockInv /\ SeatInv /\ LifeInv)'
  BY ClockStep, SeatStep, LifeStep
<1>3. Init => Life!Init
  <2> SUFFICES ASSUME Init PROVE Life!Init
    OBVIOUS
  <2>1. LifeInv /\ ClockInv
    BY LifeInit, ClockInit
  <2>2. row.status \notin {"running", "completed"}
    <3>1. PICK o \in Overrides, s \in EditStatuses \cup {Null}, n \in RoundCounts,
               m \in MoveOptions : row = NewRow(o, date.reg, s, n, m)
      BY DEF Init
    <3>2. row.round = 0 /\ row.age = Null
      BY <3>1 DEF NewRow
    <3>3. row.status # "completed"
      BY <2>1, <3>2 DEF LifeInv, LifeRow
    <3>4. row.status # "running"
      BY SeatInit, <3>2, <2>1 DEF SeatInv, SeatedRow
    <3> QED BY <3>3, <3>4
  <2> QED BY <2>2 DEF Life!Init, Live
<1>4. ClockInv /\ SeatInv /\ LifeInv /\ [Next]_vars /\ (ClockInv /\ SeatInv /\ LifeInv)'
        => [Life!Next]_(Life!vars)
  BY LifeRefined
<1> QED BY <1>1, <1>2, <1>3, <1>4, PTL DEF Spec, ImplementsLife, Life!Spec

-----------------------------------------------------------------------------
(* What is over, and what is closed                                        *)

\* Neither time nor a step of one request is a correction of another.
LEMMA CorrectionsKept ==
  ASSUME TypeOK, [Next]_vars, NEW c \in Requests, req'[c].op = "fix", ~ReadForFix(c)
  PROVE  req'[c] = req[c]
<1>1. req \in [Requests -> ReqType]
  BY DEF TypeOK
<1>2. CASE Tick
  <2>1. ASSUME req[c].op = "start" PROVE FALSE
    <3>1. req'[c] = Idle \/ req'[c] = [req[c] EXCEPT !.wait = @ + 1]
      BY <1>2, <2>1 DEF Tick
    <3> QED BY <1>1, <2>1, <3>1 DEF Idle, ReqType
  <2> QED BY <1>2, <2>1 DEF Tick
<1>3. CASE UNCHANGED req
  BY <1>3
<1>4. ASSUME NEW d \in Requests, NEW q, req' = [req EXCEPT ![d] = q], q.op # "fix" \/ d # c
      PROVE  req'[c] = req[c]
  BY <1>1, <1>4
<1>5. Idle.op # "fix"
  BY DEF Idle
<1>6. ASSUME NEW d \in Requests,
             \/ \E n \in 1..MaxRounds : AskStart(d, n)
             \/ AskClose(d)
             \/ ReadForFix(d)
             \/ Serve(d)
      PROVE  req'[c] = req[c]
  <2>1. CASE Serve(d)
    BY <1>4, <1>5, <2>1 DEF Serve, StartRound, CloseRound, CloseLastRound, ApplyFix, Refuse
  <2>2. ASSUME NEW n \in 1..MaxRounds, AskStart(d, n)
        PROVE  req'[c] = req[c]
    <3> DEFINE q == [Idle EXCEPT !.op = "start", !.n = n]
    <3>1. q.op # "fix" /\ req' = [req EXCEPT ![d] = q]
      BY <2>2 DEF Idle, AskStart
    <3> HIDE DEF q
    <3> QED BY <1>4, <3>1
  <2>3. CASE AskClose(d)
    <3>1. PICK o \in {"complete", "close"} : req' = [req EXCEPT ![d] = [Idle EXCEPT !.op = o]]
      BY <2>3 DEF AskClose
    <3> DEFINE q == [Idle EXCEPT !.op = o]
    <3>2. q.op # "fix"
      BY DEF Idle
    <3> HIDE DEF q
    <3> QED BY <1>4, <3>1, <3>2 DEF q
  <2>4. CASE ReadForFix(d)
    <3>1. d # c
      BY <2>4
    <3> QED BY <1>4, <2>4, <3>1 DEF ReadForFix
  <2> QED BY <1>6, <2>1, <2>2, <2>3, <2>4
<1>7. ASSUME Planning \/ Running \/ Sweep \/ DatesPass \/ UNCHANGED vars
      PROVE  UNCHANGED req
  <2>1. CASE Planning
    <3>1. ASSUME NEW s \in EditStatuses \cup {Null}, NEW o \in Overrides \cup {Null},
                 NEW n \in RoundCounts \cup {Null}, NEW k \in MoveOptions \cup {Null},
                 NEW e \in Dates, UpdateConclave(s, o, n, k, e)
          PROVE  UNCHANGED req
      BY <3>1 DEF UpdateConclave
    <3>2. ASSUME NEW open \in BOOLEAN, SetRegistrationOpen(open)
          PROVE  UNCHANGED req
      BY <3>2 DEF SetRegistrationOpen, Mutate
    <3>3. ASSUME CancelConclave \/ LockSchedule \/ \E n \in RoundCounts : GenerateSchedule(n)
          PROVE  UNCHANGED req
      BY <3>3 DEF CancelConclave, LockSchedule, GenerateSchedule, Mutate
    <3> QED BY <2>1, <3>1, <3>2, <3>3 DEF Planning
  <2>2. CASE Running
    BY <2>2 DEF Running, PauseRound, ResumeRound, CompleteConclave, SetProgressionMode, ExtendRound,
                SetMoveSeconds, Mutate
  <2> QED BY <1>7, <2>1, <2>2 DEF Sweep, DatesPass, Mutate, vars
<1> QED BY <1>2, <1>3, <1>6, <1>7 DEF Next

\* What a read of the list takes up says, of a conclave with a schedule, that its
\* registration is closed.
LEMMA CorrectionsClose ==
  ASSUME TypeOK, NEW c \in Requests, ReadForFix(c), row.schedule
  PROVE  ~req'[c].open
<1> DEFINE e == Evaluate("none", row, date.reg)
           q == [Idle EXCEPT !.op = "fix", !.status = e.status, !.open = e.open]
<1>1. req' = [req EXCEPT ![c] = q] /\ req \in [Requests -> ReqType]
  BY DEF ReadForFix, TypeOK
<1>2. ~e.open
  BY EvaluateClosed
<1> HIDE DEF e
<1>3. q.open = e.open
  BY DEF Idle
<1> HIDE DEF q
<1> QED BY <1>1, <1>2, <1>3

\* What each step does to registration, where no correction is to come that opens it.
LEMMA RegistrationStep ==
  ASSUME ClockInv, [Next]_vars, OpensNoMore, row'.schedule
  PROVE  ~row'.regOpen
<1> DEFINE m == Materialize(row)
<1>1. /\ row \in RowType /\ (row.schedule => ~row.regOpen)
      /\ m \in RowType /\ m.schedule = row.schedule /\ m.regOpen = row.regOpen
      /\ \A c \in Requests : req[c].op = "fix" => ~req[c].open
  <2>1. req \in [Requests -> ReqType]
    BY DEF ClockInv, TypeOK
  <2> QED BY <2>1, MaterializeSound DEF ClockInv, TypeOK, OpensNoMore, CorrectionToCome, ReqType
<1> HIDE DEF m
<1>2. ASSUME NEW r, row'.schedule = r.schedule, row'.regOpen = r.regOpen,
             r.schedule => ~r.regOpen
      PROVE  ~row'.regOpen
  BY <1>2
<1>3. CASE Planning
  <2>1. ASSUME NEW s \in EditStatuses \cup {Null}, NEW o \in Overrides \cup {Null},
               NEW n \in RoundCounts \cup {Null}, NEW k \in MoveOptions \cup {Null},
               NEW d \in Dates, UpdateConclave(s, o, n, k, d)
        PROVE  ~row'.regOpen
    <3> DEFINE status == IF s = Null THEN row.status ELSE s
               u == [row EXCEPT !.override = IF o = Null THEN @ ELSE o,
                                !.rounds   = IF n = Null THEN @ ELSE n,
                                !.move     = IF k = Null THEN @ ELSE k]
               e == Evaluate(status, u, d.reg)
    <3>1. row' = [u EXCEPT !.status = IF s = Null THEN e.status ELSE s, !.regOpen = e.open]
      BY <2>1 DEF UpdateConclave
    <3>2. u.schedule = row.schedule /\ u \in RowType
      BY <1>1, <2>1 DEF RowType
    <3> HIDE DEF u, status
    <3>3. u.schedule => ~e.open
      BY EvaluateClosed
    <3> HIDE DEF e
    <3>4. row'.schedule = u.schedule /\ row'.regOpen = e.open
      BY <3>1, <3>2 DEF RowType
    <3> QED BY <3>3, <3>4
  <2>2. ASSUME NEW open \in BOOLEAN, SetRegistrationOpen(open)
        PROVE  ~row'.regOpen
    <3> DEFINE o == IF open THEN "open" ELSE "closed"
               u == [row EXCEPT !.override = o]
               e == Evaluate(row.status, u, date.reg)
    <3>1. u.schedule = row.schedule
          /\ row' = [row EXCEPT !.override = o, !.status = e.status, !.regOpen = e.open]
      BY <1>1, <2>2 DEF SetRegistrationOpen, Mutate, RowType
    <3> HIDE DEF u, o
    <3>2. u.schedule => ~e.open
      BY EvaluateClosed
    <3> HIDE DEF e
    <3>3. row'.schedule = row.schedule /\ row'.regOpen = e.open
      BY <1>1, <3>1 DEF RowType
    <3> QED BY <3>1, <3>2, <3>3
  <2>3. ASSUME CancelConclave \/ LockSchedule \/ \E n \in RoundCounts : GenerateSchedule(n)
        PROVE  ~row'.regOpen
    BY <1>1, <2>3 DEF CancelConclave, LockSchedule, GenerateSchedule, Mutate, RowType
  <2> QED BY <1>3, <2>1, <2>2, <2>3 DEF Planning
<1>4. CASE Running
  <2>1. CASE PauseRound
    BY <1>1, <1>2, <2>1 DEF PauseRound, Mutate, RowType, m
  <2>2. CASE ResumeRound \/ CompleteConclave
    BY <1>1, <1>2, <2>2 DEF ResumeRound, CompleteConclave, Completed, Mutate, RowType
  <2>3. ASSUME NEW mode \in Modes, SetProgressionMode(mode)
        PROVE  ~row'.regOpen
    <3> DEFINE at == IF /\ mode = "automatic"
                        /\ row.status = "running"
                        /\ ~row.paused
                        /\ Phase(row) = "waiting"
                       THEN Talk + row.ext ELSE m.age
    <3>1. row' = [m EXCEPT !.mode = mode, !.age = at]
      BY <1>1, <2>3 DEF SetProgressionMode, Mutate, m, RowType
    <3> HIDE DEF at
    <3> QED BY <1>1, <1>2, <3>1 DEF RowType
  <2>4. ASSUME NEW s \in ExtendOptions, ExtendRound(s)
        PROVE  ~row'.regOpen
    BY <1>1, <1>2, <2>4 DEF ExtendRound, Mutate, RowType, m
  <2>5. ASSUME NEW k \in MoveOptions, SetMoveSeconds(k)
        PROVE  ~row'.regOpen
    BY <1>1, <1>2, <2>5 DEF SetMoveSeconds, Mutate, RowType, m
  <2> QED BY <1>4, <2>1, <2>2, <2>3, <2>4, <2>5 DEF Running
<1>5. ASSUME NEW c \in Requests,
             \/ \E n \in 1..MaxRounds : AskStart(c, n)
             \/ AskClose(c)
             \/ ReadForFix(c)
             \/ Serve(c)
      PROVE  ~row'.regOpen
  <2>1. CASE CloseRound(c)
    BY <1>1, <1>2, <2>1 DEF CloseRound, RowType, m
  <2>2. CASE StartRound(c) \/ CloseLastRound(c)
    BY <1>1, <2>2 DEF StartRound, CloseLastRound, Completed, RowType
  <2>3. CASE ApplyFix(c)
    <3> DEFINE q == req[c]
    <3>1. ~q.open /\ row' = [row EXCEPT !.status = q.status, !.regOpen = q.open]
      BY <1>1, <2>3 DEF ApplyFix
    <3> HIDE DEF q
    <3>2. row'.regOpen = q.open
      BY <1>1, <3>1 DEF RowType
    <3> QED BY <3>1, <3>2
  <2>4. CASE row' = row
    BY <1>1, <2>4
  <2> QED BY <1>5, <2>1, <2>2, <2>3, <2>4 DEF Serve, AskStart, AskClose, ReadForFix, Refuse
<1>6. CASE Sweep \/ Tick
  BY <1>1, <1>6 DEF Sweep, Tick, Mutate, RowType
<1>7. CASE DatesPass \/ UNCHANGED vars
  BY <1>1, <1>7 DEF DatesPass, vars
<1> QED BY <1>3, <1>4, <1>5, <1>6, <1>7 DEF Next

\* Registration stays closed once there are tables and no correction is to come that
\* was read before there were any; for any edits, those that write `running' or
\* `completed' included, and any number of requests.
THEOREM RegistrationStaysClosed == Spec => ClosedForGood
<1>1. ASSUME ClockInv, [Next]_vars, OpensNoMore, row'.schedule
      PROVE  OpensNoMore'
  <2>1. ~row'.regOpen
    BY <1>1, RegistrationStep
  <2>2. ASSUME NEW c \in Requests, req'[c].op = "fix"
        PROVE  req'[c].open # TRUE
    <3>1. CASE ReadForFix(c)
      <4>1. row.schedule
        BY <1>1, <3>1 DEF ReadForFix
      <4> QED BY <1>1, <3>1, <4>1, CorrectionsClose DEF ClockInv
    <3>2. CASE ~ReadForFix(c)
      BY <1>1, <2>2, <3>2, CorrectionsKept DEF ClockInv, OpensNoMore, CorrectionToCome
    <3> QED BY <3>1, <3>2
  <2> QED BY <2>1, <2>2 DEF OpensNoMore, CorrectionToCome
<1>2. ClockInv /\ [Next]_vars => [OpensNoMore /\ row'.schedule => OpensNoMore']_vars
  BY <1>1
<1> QED BY <1>2, ClockInit, ClockStep, PTL DEF Spec, ClosedForGood

\* What is completed and settled stays so, for any edits and any number of requests.
THEOREM CompletedIsFinal == Spec => CompletedStays
<1>1. ASSUME ClockInv, [Next]_vars, Settled
      PROVE  Settled'
  <2>1. row \in RowType /\ req \in [Requests -> ReqType]
    BY <1>1 DEF ClockInv, TypeOK
  <2>2. row.status = "completed" /\ (row.completedAt \/ row.round > 0)
    BY <1>1 DEF Settled
  <2>3. \A c \in Requests : req[c].op # "fix"
    BY <1>1, <2>1 DEF Settled, CorrectionToCome, ReqType
  <2>4. \A c \in Requests : ~ReadForFix(c)
    BY <2>2, <2>1 DEF ReadForFix, NeedsFix, RowType
  <2>5. \A c \in Requests : req'[c].op # "fix"
    BY <1>1, <2>3, <2>4, CorrectionsKept DEF ClockInv
  <2>6. row'.status = "completed" /\ row'.completedAt = row.completedAt /\ row'.round = row.round
    <3>1. ASSUME NEW c \in Requests,
                 \/ \E n \in 1..MaxRounds : AskStart(c, n)
                 \/ AskClose(c)
                 \/ ReadForFix(c)
                 \/ Serve(c)
          PROVE  row' = row
      <4>1. ~StartRound(c) /\ ~CloseRound(c) /\ ~CloseLastRound(c) /\ ~ApplyFix(c)
        BY <2>2, <2>3 DEF StartRound, MayStart, CloseRound, CloseLastRound, ApplyFix, TerminalStatuses
      <4> QED BY <3>1, <4>1 DEF Serve, AskStart, AskClose, ReadForFix, Refuse
    <3>2. ~Running /\ ~Sweep
      BY <2>2 DEF Running, PauseRound, ResumeRound, CompleteConclave, SetProgressionMode,
                  ExtendRound, SetMoveSeconds, Sweep, TerminalStatuses
    <3>3. CASE Planning
      <4>1. LockSchedule
        <5>1. ASSUME NEW s \in EditStatuses \cup {Null}, NEW o \in Overrides \cup {Null},
                     NEW n \in RoundCounts \cup {Null}, NEW k \in MoveOptions \cup {Null},
                     NEW d \in Dates, UpdateConclave(s, o, n, k, d)
              PROVE  FALSE
          BY <2>2, <5>1 DEF UpdateConclave
        <5> QED
          BY <2>2, <3>3, <5>1 DEF Planning, SetRegistrationOpen, CancelConclave, GenerateSchedule,
                                  RoleLockedStatuses
      <4> QED BY <2>1, <2>2, <4>1 DEF LockSchedule, Mutate, RowType
    <3>4. CASE Tick
      BY <2>1, <2>2, <3>4 DEF Tick, RowType
    <3>5. CASE DatesPass \/ UNCHANGED vars
      BY <2>2, <3>5 DEF DatesPass, vars
    <3> QED BY <1>1, <2>2, <3>1, <3>2, <3>3, <3>4, <3>5 DEF Next
  <2> QED BY <2>2, <2>5, <2>6 DEF Settled, CorrectionToCome
<1>2. ClockInv /\ [Next]_vars => [Settled => Settled']_vars
  BY <1>1
<1> QED BY <1>2, ClockInit, ClockStep, PTL DEF Spec, CompletedStays

-----------------------------------------------------------------------------
(* Referrals: the conclave under them                                      *)

\* A conclave under way: started, maybe completed, and with no correction in
\* flight, since none is ever read for one.
Played ==
  /\ ClockInv
  /\ SeatInv
  /\ row.status \in {"running", "completed"}
  /\ row.round >= 1
  /\ \A c \in Requests : req[c].op # "fix"

LEMMA PlayedRow ==
  ASSUME Played
  PROVE  /\ row \in RowType /\ AnchorInPast(row) /\ ClockRow(row) /\ Anchored(row)
         /\ row.round \in Nat /\ row.round >= 1 /\ row.rounds \in 1..MaxRounds
         /\ row.age # Null /\ row.age \in Nat
         /\ LiveRound(row) \in Nat /\ LiveRound(row) >= row.round
         /\ LiveRound(row) <= MaxRounds
         /\ LiveRound(row) > row.round => LiveRound(row) <= row.rounds
<1>1. row \in RowType /\ AnchorInPast(row) /\ SeatedRow(row) /\ row.round >= 1
  BY DEF Played, ClockInv, TypeOK, SeatInv
<1>2. ClockRow(row) /\ row.rounds \in 1..MaxRounds /\ LiveRound(row) \in 0..MaxRounds
  BY <1>1, RowIsClockRow
<1>3. row.age # Null /\ Anchored(row)
  BY <1>1 DEF SeatedRow, Anchored
<1>4. row.age \in Nat
  BY <1>1, <1>3 DEF RowType, AnchorInPast
<1>5. LiveRound(row) \in Nat /\ LiveRound(row) >= row.round /\ row.round \in Nat
  BY <1>2, <1>3, LiveRoundBounds DEF ClockRow
<1>6. LiveRound(row) > row.round => LiveRound(row) <= row.rounds
  BY <1>1, <1>2, <1>5, RowIsClockRow
<1> QED BY <1>1, <1>2, <1>3, <1>4, <1>5, <1>6, RoundNumbers

\* What the conclave does while referrals are made and uploaded.
RequestMoves(c) == \/ \E n \in 1..MaxRounds : AskStart(c, n)
                   \/ AskClose(c)
                   \/ Serve(c)

Moves == \/ Running
         \/ Sweep
         \/ Tick
         \/ \E c \in Requests : RequestMoves(c)
         \/ UNCHANGED vars

LEMMA RefNextMoves ==
  ASSUME [RefNext]_allVars
  PROVE  Moves
BY DEF RefNext, ConclaveMoves, Minute, MakeReferral, UpdateOutcome, Receive, Create, Restate, Tell,
       Answer, Lose, allVars, vars, Moves, RequestMoves

LEMMA MovesKeepRow ==
  ASSUME Played, Moves
  PROVE  /\ ClockInv' /\ SeatInv'
         /\ [Next]_vars
<1>1. ClockInv /\ SeatInv
  BY DEF Played
<1>2. CASE Running
  BY <1>1, <1>2, RunningKeepsClock, RunningSeated DEF Next
<1>3. CASE Sweep \/ Tick
  BY <1>1, <1>3, BackgroundKeepsClock, BackgroundSeated DEF Next
<1>4. ASSUME NEW c \in Requests, RequestMoves(c)
      PROVE  ClockInv' /\ SeatInv' /\ Next
  BY <1>1, <1>4, RequestKeepsClock, RequestSeated DEF Next, RequestMoves
<1>5. CASE UNCHANGED vars
  BY <1>1, <1>5 DEF vars, ClockInv, TypeOK, AnchorInPast, SeatInv, SeatedRow
<1> QED BY <1>2, <1>3, <1>4, <1>5 DEF Moves

\* The stored round never goes back.
LEMMA StoredRoundGrows ==
  ASSUME Played, Moves
  PROVE  row'.round >= row.round
<1> DEFINE m == Materialize(row)
<1>1. /\ row \in RowType /\ AnchorInPast(row) /\ row.round \in Nat /\ row.rounds \in 1..MaxRounds
      /\ LiveRound(row) \in Nat /\ LiveRound(row) >= row.round
  BY PlayedRow
<1>2. m \in RowType /\ m.round \in Nat /\ m.round >= row.round
  <2>1. m \in RowType /\ (m.round = row.round \/ m.round \in (row.round + 1)..row.rounds)
    BY <1>1, MaterializeSound
  <2> HIDE DEF m
  <2> QED BY <1>1, <2>1
<1> HIDE DEF m
<1>3. CASE Running
  <2>1. CASE PauseRound
    BY <1>2, <2>1 DEF PauseRound, Mutate, RowType, m
  <2>2. CASE ResumeRound
    BY <1>1, <2>2 DEF ResumeRound, Mutate, RowType
  <2>3. CASE CompleteConclave
    BY <1>1, <2>3 DEF CompleteConclave, Completed, Mutate, RowType
  <2>4. ASSUME NEW mode \in Modes, SetProgressionMode(mode)
        PROVE  row'.round >= row.round
    <3> DEFINE at == IF /\ mode = "automatic"
                        /\ row.status = "running"
                        /\ ~row.paused
                        /\ Phase(row) = "waiting"
                       THEN Talk + row.ext ELSE m.age
    <3>1. row' = [m EXCEPT !.mode = mode, !.age = at]
      BY <1>2, <2>4 DEF SetProgressionMode, Mutate, m, RowType
    <3> HIDE DEF at
    <3>2. row'.round = m.round
      BY <1>2, <3>1 DEF RowType
    <3> QED BY <1>2, <3>2
  <2>5. ASSUME NEW s \in ExtendOptions, ExtendRound(s)
        PROVE  row'.round >= row.round
    <3>1. row'.round = m.round
      BY <1>2, <2>5 DEF ExtendRound, Mutate, RowType, m
    <3> QED BY <1>2, <3>1
  <2>6. ASSUME NEW b \in MoveOptions, SetMoveSeconds(b)
        PROVE  row'.round >= row.round
    <3>1. row'.round = m.round
      BY <1>2, <2>6 DEF SetMoveSeconds, Mutate, RowType, m
    <3> QED BY <1>2, <3>1
  <2> QED BY <1>3, <2>1, <2>2, <2>3, <2>4, <2>5, <2>6 DEF Running
<1>4. CASE Sweep
  <2>1. row.status = "running" /\ row'.round = row.rounds
    BY <1>1, <1>4 DEF Sweep, Mutate, RowType
  <2>2. row.round \in 1..row.rounds
    BY <2>1 DEF Played, SeatInv, SeatedRow
  <2> QED BY <1>1, <2>1, <2>2
<1>5. CASE Tick
  BY <1>1, <1>5 DEF Tick, RowType
<1>6. ASSUME NEW c \in Requests, RequestMoves(c)
      PROVE  row'.round >= row.round
  <2>1. CASE StartRound(c)
    <3>1. row.status = "running"
      BY <2>1 DEF StartRound, MayStart, Played, TerminalStatuses
    <3>2. row'.round = req[c].n /\ req[c].n > LiveRound(row)
      BY <1>1, <2>1, <3>1 DEF StartRound, MayStart, RowType
    <3>3. req[c].n \in Nat
      BY RoundNumbers DEF Played, ClockInv, TypeOK, ReqType
    <3> QED BY <1>1, <3>2, <3>3
  <2>2. CASE CloseRound(c)
    <3>1. row'.round = m.round
      BY <1>2, <2>2 DEF CloseRound, RowType, m
    <3> QED BY <1>2, <3>1
  <2>3. CASE CloseLastRound(c)
    BY <1>1, <2>3 DEF CloseLastRound, Completed, RowType
  <2>4. CASE ApplyFix(c)
    BY <2>4 DEF ApplyFix, Played
  <2>5. CASE row' = row
    BY <1>1, <2>5
  <2> QED BY <1>6, <2>1, <2>2, <2>3, <2>4, <2>5 DEF RequestMoves, Serve, AskStart, AskClose, Refuse
<1>7. CASE UNCHANGED vars
  BY <1>1, <1>7 DEF vars
<1> QED BY <1>3, <1>4, <1>5, <1>6, <1>7 DEF Moves

\* ... and the conclave goes on, or is completed, for good.
LEMMA GoesOn ==
  ASSUME Played, Moves
  PROVE  /\ row'.status \in {"running", "completed"}
         /\ row.status = "completed" => row'.status = "completed" /\ (row' = row \/ Tick)
         /\ \A c \in Requests : req'[c].op # "fix"
<1> DEFINE m == Materialize(row)
<1>1. /\ row \in RowType /\ AnchorInPast(row) /\ req \in [Requests -> ReqType]
      /\ row.status \in {"running", "completed"} /\ \A c \in Requests : req[c].op # "fix"
  BY PlayedRow DEF Played, ClockInv, TypeOK
<1>2. m \in RowType /\ m.status = row.status
  BY <1>1, MaterializeSound
<1> HIDE DEF m
<1>3. CASE Running
  <2>1. row.status = "running"
    BY <1>1, <1>3 DEF Running, PauseRound, ResumeRound, CompleteConclave, SetProgressionMode,
                      ExtendRound, SetMoveSeconds, TerminalStatuses
  <2>2. row'.status = row.status \/ row'.status = "completed"
    <3>1. CASE CompleteConclave
      BY <1>1, <3>1 DEF CompleteConclave, Completed, Mutate, RowType
    <3>2. CASE ~CompleteConclave
      BY <1>3, <3>2, RunningStatus DEF Played
    <3> QED BY <3>1, <3>2
  <2>3. req' = req
    BY <1>3 DEF Running, PauseRound, ResumeRound, CompleteConclave, SetProgressionMode,
                ExtendRound, SetMoveSeconds, Mutate
  <2> QED BY <1>1, <2>1, <2>2, <2>3
<1>4. CASE Sweep
  BY <1>1, <1>4 DEF Sweep, Mutate, RowType
<1>5. CASE Tick
  <2>1. row'.status = row.status
    BY <1>1, <1>5 DEF Tick, RowType
  <2>2. ASSUME NEW c \in Requests PROVE req'[c].op # "fix"
    <3>1. req[c].op # "start" => req'[c] = req[c]
      BY <1>5 DEF Tick
    <3>2. CASE req[c].op = "start"
      <4>1. req[c] \in ReqType
        BY <1>1
      <4>2. req'[c] = Idle \/ req'[c] = [req[c] EXCEPT !.wait = @ + 1]
        BY <1>5, <3>2 DEF Tick
      <4> QED BY <3>2, <4>1, <4>2 DEF Idle, ReqType
    <3> QED BY <1>1, <3>1, <3>2
  <2> QED BY <1>1, <1>5, <2>1, <2>2
<1>6. ASSUME NEW c \in Requests, RequestMoves(c)
      PROVE  /\ row'.status \in {"running", "completed"}
             /\ row.status = "completed" => row' = row
             /\ \A d \in Requests : req'[d].op # "fix"
  <2>1. PICK q : req' = [req EXCEPT ![c] = q] /\ q.op # "fix"
    <3>1. Idle.op # "fix"
      BY DEF Idle
    <3>2. ASSUME NEW n, AskStart(c, n)
          PROVE  \E q : req' = [req EXCEPT ![c] = q] /\ q.op # "fix"
      <4>1. [Idle EXCEPT !.op = "start", !.n = n].op # "fix"
        BY DEF Idle
      <4> QED BY <3>2, <4>1 DEF AskStart
    <3>3. CASE AskClose(c)
      <4>1. PICK o \in {"complete", "close"} : req' = [req EXCEPT ![c] = [Idle EXCEPT !.op = o]]
        BY <3>3 DEF AskClose
      <4>2. [Idle EXCEPT !.op = o].op # "fix"
        BY DEF Idle
      <4> QED BY <4>1, <4>2
    <3>4. CASE Serve(c)
      <4>1. req' = [req EXCEPT ![c] = Idle]
        BY <3>4 DEF Serve, StartRound, CloseRound, CloseLastRound, ApplyFix, Refuse
      <4> QED BY <3>1, <4>1
    <3> QED BY <1>6, <3>2, <3>3, <3>4 DEF RequestMoves
  <2>2. \A d \in Requests : req'[d].op # "fix"
    BY <1>1, <2>1
  <2>3. CASE row' = row
    BY <1>1, <2>2, <2>3
  <2>4. CASE StartRound(c)
    BY <1>1, <2>2, <2>4 DEF StartRound, MayStart, RowType, TerminalStatuses
  <2>5. CASE CloseRound(c)
    BY <1>2, <2>2, <2>5 DEF CloseRound, RowType, m
  <2>6. CASE CloseLastRound(c)
    BY <1>1, <2>2, <2>6 DEF CloseLastRound, Completed, RowType
  <2>7. CASE ApplyFix(c)
    BY <1>1, <2>7 DEF ApplyFix
  <2> QED BY <1>6, <2>3, <2>4, <2>5, <2>6, <2>7 DEF RequestMoves, Serve, AskStart, AskClose, Refuse
<1>7. CASE UNCHANGED vars
  BY <1>1, <1>7 DEF vars
<1> QED BY <1>3, <1>4, <1>5, <1>6, <1>7 DEF Moves

LEMMA PlayedStep ==
  ASSUME Played, Moves
  PROVE  Played'
<1>1. ClockInv' /\ SeatInv'
  BY MovesKeepRow
<1>2. row'.status \in {"running", "completed"} /\ \A c \in Requests : req'[c].op # "fix"
  BY GoesOn
<1>3. row'.round >= row.round /\ row'.round \in Nat /\ row.round \in Nat /\ row.round >= 1
  BY <1>1, StoredRoundGrows, PlayedRow, RowIsClockRow DEF ClockInv, TypeOK, ClockRow
<1> QED BY <1>1, <1>2, <1>3 DEF Played

\* Nor does the live round, also when the conclave is completed and after.
LEMMA LiveRoundGrows ==
  ASSUME Played, Moves
  PROVE  LiveRound(row') >= LiveRound(row)
<1>1. /\ row \in RowType /\ AnchorInPast(row) /\ ClockRow(row) /\ Anchored(row)
      /\ row.round \in Nat /\ row.round >= 1 /\ row.age # Null /\ row.age \in Nat
      /\ row.rounds \in 1..MaxRounds
      /\ LiveRound(row) \in Nat /\ LiveRound(row) >= row.round
      /\ LiveRound(row) > row.round => LiveRound(row) <= row.rounds
  BY PlayedRow
<1>2. row' \in RowType /\ AnchorInPast(row') /\ ClockRow(row') /\ [Next]_vars
      /\ row'.round >= 1 /\ ClockInv /\ SeatInv /\ SeatedRow(row')
  <2>1. ClockInv' /\ SeatInv' /\ Played' /\ ClockInv /\ SeatInv
    BY MovesKeepRow, PlayedStep DEF Played
  <2>2. row' \in RowType /\ AnchorInPast(row') /\ row'.round >= 1 /\ SeatedRow(row')
    BY <2>1 DEF ClockInv, TypeOK, AnchorInPast, SeatInv, SeatedRow, Played
  <2> QED BY <2>1, <2>2, MovesKeepRow, RowIsClockRow
<1>3. Anchored(row')
  BY <1>2 DEF SeatedRow, Anchored
<1>4. ASSUME row'.round = row.round, row'.rounds = row.rounds, row'.ext = row.ext,
             row'.move = row.move, row'.mode = row.mode,
             SinceAnchor(row') >= SinceAnchor(row)
      PROVE  LiveRound(row') >= LiveRound(row)
  BY <1>1, <1>2, <1>3, <1>4, LaterClock
<1>5. CASE row' = row
  BY <1>1, <1>5
<1>6. CASE Live /\ Live'
  BY <1>2, <1>6, RoundStep DEF RoundKept
<1>7. CASE row' = Completed(row)
  <2>1. /\ row'.round = row.round /\ row'.rounds = row.rounds /\ row'.ext = row.ext
        /\ row'.move = row.move /\ row'.mode = row.mode /\ row'.age = row.age
        /\ row'.paused = FALSE
    BY <1>1, <1>7 DEF Completed, RowType
  <2>2. SinceAnchor(row) <= row.age /\ SinceAnchor(row') = row.age
    BY <1>1, <2>1, TimeTypes DEF SinceAnchor
  <2> QED BY <1>1, <1>4, <2>1, <2>2
<1>8. CASE Sweep
  <2>1. row'.round = row.rounds /\ row.status = "running"
    BY <1>1, <1>8 DEF Sweep, Mutate, RowType
  <2>2. LiveRound(row') >= row.rounds /\ LiveRound(row') \in Nat
    BY <1>2, <1>3, <2>1, LiveRoundBounds
  <2>3. row.round <= row.rounds
    BY <2>1, <1>1 DEF Played, SeatInv, SeatedRow
  <2> QED BY <1>1, <2>2, <2>3
<1>9. CASE Tick /\ ~row.paused
  <2>1. /\ row'.round = row.round /\ row'.rounds = row.rounds /\ row'.ext = row.ext
        /\ row'.move = row.move /\ row'.mode = row.mode /\ row'.paused = row.paused
        /\ row'.age = IF row.age = Null \/ row.age >= MaxAge THEN row.age ELSE row.age + 1
    BY <1>1, <1>9 DEF Tick, RowType
  <2>2. SinceAnchor(row') >= SinceAnchor(row)
    BY <1>1, <1>9, <2>1, ConclaveAssumption DEF SinceAnchor
  <2> QED BY <1>4, <2>1, <2>2
<1>10. CASE Tick /\ row.paused
  <2>1. /\ row'.round = row.round /\ row'.rounds = row.rounds /\ row'.ext = row.ext
        /\ row'.move = row.move /\ row'.mode = row.mode /\ row'.paused = row.paused
        /\ row'.elapsed = row.elapsed
    BY <1>1, <1>10 DEF Tick, RowType
  <2>2. SinceAnchor(row') = SinceAnchor(row) /\ SinceAnchor(row) \in Int
    BY <1>1, <1>10, <2>1, TimeTypes DEF SinceAnchor, Frozen
  <2> QED BY <1>4, <2>1, <2>2
<1>11. CASE Live /\ ~Live' /\ ~Sweep
  <2>1. row.status = "running" /\ row'.status = "completed"
    BY <1>11, GoesOn DEF Live
  <2>2. row' = Completed(row)
    BY <1>2, <1>11, <2>1, CompletedBy
  <2> QED BY <1>7, <2>2
<1> QED BY <1>5, <1>6, <1>8, <1>9, <1>10, <1>11, GoesOn DEF Live, Played

-----------------------------------------------------------------------------
(* The judgement                                                           *)

\* The clock as it stood when a referral was made was on no later round.
LEMMA ClockThen ==
  ASSUME Played, NEW age \in Int
  PROVE  LET x == AsOf(row, age)
         IN  /\ ClockRow(x) /\ Anchored(x)
             /\ x.round = row.round /\ x.rounds = row.rounds /\ x.ext = row.ext
             /\ x.move = row.move /\ x.mode = row.mode /\ x.paused = row.paused
             /\ row.paused => SinceAnchor(x) = SinceAnchor(row)
             /\ ~row.paused => SinceAnchor(x) = row.age - (IF age < 0 THEN 0 ELSE age)
             /\ LiveRound(x) \in Nat
             /\ LiveRound(x) >= row.round
             /\ LiveRound(x) <= LiveRound(row)
<1> DEFINE x == AsOf(row, age)
           d == IF age < 0 THEN 0 ELSE age
<1>1. /\ row \in RowType /\ AnchorInPast(row) /\ ClockRow(row) /\ Anchored(row)
      /\ row.round \in Nat /\ row.round >= 1 /\ row.age \in Nat
  BY PlayedRow
<1>2. d \in Nat /\ row.age - d \in Int /\ row.age - d # Null
  BY <1>1, ClockAssumption
<1>3. x = [row EXCEPT !.age = row.age - d]
  BY DEF AsOf
<1> HIDE DEF x, d
<1>4. /\ x.round = row.round /\ x.rounds = row.rounds /\ x.ext = row.ext
      /\ x.move = row.move /\ x.mode = row.mode /\ x.paused = row.paused
      /\ x.elapsed = row.elapsed /\ x.age = row.age - d
  BY <1>1, <1>3 DEF RowType
<1>5. ClockRow(x) /\ Anchored(x)
  BY <1>1, <1>2, <1>4 DEF ClockRow, Anchored
<1>6. /\ row.paused => SinceAnchor(x) = SinceAnchor(row)
      /\ ~row.paused => SinceAnchor(x) = row.age - d
  BY <1>4 DEF SinceAnchor, Frozen
<1>7. SinceAnchor(row) >= SinceAnchor(x)
  <2>1. CASE row.paused
    BY <1>1, <1>6, <2>1, TimeTypes
  <2>2. CASE ~row.paused
    <3>1. SinceAnchor(row) = row.age
      BY <2>2 DEF SinceAnchor
    <3> QED BY <1>1, <1>2, <1>6, <2>2, <3>1
  <2> QED BY <2>1, <2>2
<1>8. LiveRound(x) <= LiveRound(row)
  <2>1. LiveRound(row) >= LiveRound(x)
    BY <1>1, <1>4, <1>5, <1>7, LaterClock
  <2> QED BY <1>1, <1>5, <2>1, LiveRoundBounds
<1>9. LiveRound(x) \in Nat /\ LiveRound(x) >= row.round
  BY <1>4, <1>5, LiveRoundBounds
<1> QED BY <1>4, <1>5, <1>6, <1>8, <1>9 DEF x, d

\* What is known of a referral made in the slot of its round, as long as its
\* phone keeps it and the start of the round was not moved: that round has come,
\* and while the row's clock still tells when it began, so was the referral made
\* after that, up to the tolerance.
SlotOK(f) ==
  f.inSlot =>
    /\ f.round <= LiveRound(row)
    /\ ~f.synced /\ f.steady /\ f.round >= row.round =>
         /\ IntoWhenMade(row, f) \in (Bio - Slack)..(Talk + Slack)
         /\ SinceStart(row, f.round) >= Bio

\* The judgement never takes a referral for a round that has not come, and never
\* refuses one made in the slot of its round.
LEMMA Judgement ==
  ASSUME Played, NEW f \in Given
  PROVE  /\ ~Refused(row, f) => f.round <= LiveRound(row)
         /\ SlotOK(f) /\ f.inSlot /\ f.steady /\ ~f.synced => ~Refused(row, f)
<1> DEFINE x == AsOf(row, f.age)
           n == f.round
<1>1. f.age \in Int /\ n \in 1..MaxRounds /\ n \in Nat /\ n >= 1
  BY RoundNumbers DEF Given
<1>2. /\ row \in RowType /\ AnchorInPast(row) /\ ClockRow(row) /\ Anchored(row)
      /\ row.round \in Nat /\ row.round >= 1 /\ row.age \in Nat /\ row.age # Null
      /\ row.rounds \in 1..MaxRounds
      /\ LiveRound(row) \in Nat /\ LiveRound(row) >= row.round
      /\ LiveRound(row) > row.round => LiveRound(row) <= row.rounds
  BY PlayedRow
<1>3. /\ ClockRow(x) /\ Anchored(x)
      /\ x.round = row.round /\ x.rounds = row.rounds /\ x.ext = row.ext
      /\ x.move = row.move /\ x.mode = row.mode /\ x.paused = row.paused
      /\ row.paused => SinceAnchor(x) = SinceAnchor(row)
      /\ ~row.paused => SinceAnchor(x) = row.age - (IF f.age < 0 THEN 0 ELSE f.age)
      /\ LiveRound(x) \in Nat
      /\ LiveRound(x) >= row.round
      /\ LiveRound(x) <= LiveRound(row)
  BY <1>1, ClockThen
<1>4. RoundWhenMade(row, f) = LiveRound(x) /\ LiveRound(x) # 0
  BY <1>2, <1>3 DEF RoundWhenMade
<1>5. ASSUME ~Refused(row, f) PROVE n <= LiveRound(row)
  <2>1. ~(n > LiveRound(x))
    BY <1>4, <1>5 DEF Refused
  <2> QED BY <1>1, <1>2, <1>3, <2>1
<1>6. ASSUME SlotOK(f), f.inSlot, f.steady, ~f.synced
      PROVE  ~Refused(row, f)
  <2>1. n <= LiveRound(row)
    BY <1>6 DEF SlotOK
  <2>2. CASE n < row.round
    <3>1. n # LiveRound(x) /\ ~(n > LiveRound(x))
      BY <1>1, <1>2, <1>3, <2>2
    <3> QED BY <1>4, <3>1 DEF Refused
  <2>3. CASE n >= row.round
    <3>1. /\ IntoWhenMade(row, f) \in (Bio - Slack)..(Talk + Slack)
          /\ SinceStart(row, n) >= Bio
      BY <1>6, <2>3 DEF SlotOK
    <3>2. n <= LiveRound(x)
      <4>1. CASE n = row.round
        BY <1>3, <4>1
      <4>2. CASE row.paused \/ row.mode # "automatic"
        <5>1. LiveRound(x) = LiveRound(row)
          <6>1. CASE row.paused
            BY <1>2, <1>3, <6>1, SameClock
          <6>2. CASE row.mode # "automatic"
            BY <1>2, <1>3, <6>2 DEF LiveRound
          <6> QED BY <4>2, <6>1, <6>2
        <5> QED BY <2>1, <5>1
      <4>3. CASE n > row.round /\ ~row.paused /\ row.mode = "automatic"
        <5>1. n \in (row.round + 1)..row.rounds
          BY <1>1, <1>2, <2>1, <4>3
        <5>2. RoundOffset(row, n) \in Nat /\ RoundOffset(x, n) = RoundOffset(row, n)
          <6>1. RoundOffset(row, n) \in Nat
            BY <1>1, <1>2, <4>3, OffsetMonotone
          <6> QED BY <1>3, <6>1 DEF RoundOffset
        <5>3. row.age - f.age - RoundOffset(row, n) >= Bio - Slack
              /\ row.age - RoundOffset(row, n) >= Bio /\ Bio \in Nat /\ Slack \in Nat
              /\ Slack <= Bio
          BY <1>1, <1>2, <3>1, <5>2, ClockAssumption, ReferralsAssumption
          DEF IntoWhenMade, SinceStart
        <5>4. RoundOffset(x, n) <= SinceAnchor(x)
          BY <1>1, <1>2, <1>3, <4>3, <5>2, <5>3
        <5>5. n \in ReachedByClock(x)
          BY <1>3, <5>1, <5>4 DEF ReachedByClock
        <5> QED BY <1>3, <4>3, <5>5, LiveRoundIsLast
      <4> QED BY <1>1, <1>2, <2>3, <4>1, <4>2, <4>3
    <3>3. ~(n > LiveRound(x))
      BY <1>1, <1>3, <3>2
    <3> QED BY <1>4, <3>1, <3>3 DEF Refused
  <2> QED BY <1>1, <1>2, <2>2, <2>3
<1> QED BY <1>5, <1>6

-----------------------------------------------------------------------------
(* The referrals                                                           *)

\* An upload that has been judged: what its verdict says of the referral stays
\* so while the conclave goes on and other uploads are served.
UploadOK(c) ==
  up[c] # Null =>
    /\ made[up[c].id] # Null
    /\ up[c].step = "new" => made[up[c].id].round <= LiveRound(row)
    /\ up[c].step \in {"found", "created"} => book[up[c].id] # Null
    /\ up[c].step = "saved" =>
         book[up[c].id] # Null \/ ~(made[up[c].id].inSlot /\ made[up[c].id].steady)

Creates(c, i) == up[c] # Null /\ up[c].id = i /\ up[c].step = "created"

\* A recipient is told by the one upload that created the row, once.
TellOK(i) ==
  /\ pings[i] \in {0, 1}
  /\ book[i] = Null => pings[i] = 0
  /\ \A c \in Uploads : Creates(c, i) =>
       pings[i] = 0 /\ \A d \in Uploads : Creates(d, i) => d = c

\* A referral and its row.
ReferralOK(i) ==
  /\ made[i] # Null =>
       /\ SlotOK(made[i])
       /\ made[i].synced /\ made[i].inSlot /\ made[i].steady => book[i] # Null
  /\ book[i] # Null => made[i] # Null /\ made[i].round <= LiveRound(row)

RefInv == /\ Played
          /\ RefTypeOK
          /\ \A c \in Uploads : UploadOK(c)
          /\ \A i \in Ids : TellOK(i)
          /\ \A i \in Ids : ReferralOK(i)

LEMMA RefInitial == RefInit => RefInv
<1> SUFFICES ASSUME RefInit PROVE RefInv
  OBVIOUS
<1>1. PICK n \in RoundCounts, m \in MoveOptions, mode \in Modes : row = Started(n, m, mode)
  BY DEF RefInit
<1>2. n \in 1..MaxRounds /\ n >= 1 /\ 1 \in 0..MaxRounds /\ n \in Nat
  BY RoundNumbers
<1>3. MaxExtension \in Nat /\ MaxWait \in Nat /\ 0 \in 0..MaxExtension /\ 0 \in 0..MaxWait
      /\ 0 \in 0..MaxRounds
  BY Choices, RoundNumbers
<1>4. row \in RowType
  BY <1>1, <1>2, <1>3 DEF Started, RowType, Statuses, Overrides
<1>5. /\ row.status = "running" /\ row.round = 1 /\ row.age = 0 /\ row.schedule /\ row.locked
      /\ row.rounds = n /\ row.elapsed = Null
  BY <1>1 DEF Started
<1>6. 0 # Null
  BY ClockAssumption
<1>7. Idle \in ReqType
  BY <1>3 DEF Idle, ReqType, Statuses
<1>8. req \in [Requests -> ReqType] /\ \A c \in Requests : req[c] = Idle
  BY <1>7 DEF RefInit
<1>9. date \in DateType
  BY ConclaveAssumption DEF RefInit
<1>10. AnchorInPast(row)
  BY <1>5 DEF AnchorInPast
<1>11. ClockInv
  BY <1>4, <1>8, <1>9, <1>10 DEF ClockInv, TypeOK
<1>12. SeatedRow(row)
  BY <1>2, <1>5, <1>6 DEF SeatedRow
<1>13. \A c \in Requests : RecordedRequest(req[c]) /\ req[c].op = "none"
  BY <1>8 DEF RecordedRequest, Idle
<1>14. Played
  BY <1>5, <1>11, <1>12, <1>13 DEF Played, SeatInv
<1>15. RefTypeOK
  BY DEF RefInit, RefTypeOK
<1> QED BY <1>14, <1>15 DEF RefInv, RefInit, UploadOK, TellOK, ReferralOK, Creates

LEMMA ReferralPhase ==
  ASSUME NEW r, Anchored(r), IntoRound(r) \in Int, LiveExtension(r) \in Nat,
         LiveRound(r) \in Int, r.rounds \in Int, Phase(r) = "referral"
  PROVE  IntoRound(r) \in Bio..(Talk - 1)
<1>1. Bio \in Nat /\ Talk \in Nat /\ Bio < Talk
  BY ClockAssumption DEF Talk
<1>2. CASE IntoRound(r) < Bio
  BY <1>1, <1>2 DEF Phase
<1>3. CASE IntoRound(r) \in Talk..(Talk + LiveExtension(r) - 1)
  BY <1>1, <1>3 DEF Phase
<1>4. CASE IntoRound(r) >= Talk + LiveExtension(r)
  BY <1>1, <1>4 DEF Phase
<1> QED BY <1>1, <1>2, <1>3, <1>4

\* A new referral that the server's clock has in the slot of its round.
LEMMA MadeInSlot ==
  ASSUME Played, NEW i \in Ids, NEW n \in 1..MaxRounds, NEW d \in Drifts,
         RefTypeOK, MakeReferral(i, n, d)
  PROVE  /\ made'[i] \in Given /\ made'[i] # Null
         /\ ~made'[i].synced
         /\ SlotOK(made'[i])
         /\ \A j \in Ids : j # i => made'[j] = made[j]
<1> DEFINE s == /\ Live /\ ~row.paused
                /\ n = LiveRound(row)
                /\ Phase(row) = "referral"
           f == [round |-> n, age |-> d, steady |-> TRUE, synced |-> FALSE, inSlot |-> s]
<1>1. /\ row \in RowType /\ AnchorInPast(row) /\ ClockRow(row) /\ Anchored(row)
      /\ row.round \in Nat /\ row.age \in Nat /\ LiveRound(row) \in Nat
      /\ LiveRound(row) >= row.round
  BY PlayedRow
<1>2. d \in Int /\ d >= -Slack /\ d <= Slack /\ Slack \in Nat /\ s \in BOOLEAN
  BY ReferralsAssumption
<1>3. made' = [made EXCEPT ![i] = f] /\ made \in [Ids -> Given \cup {Null}]
  BY DEF MakeReferral, RefTypeOK
<1>4. s => SinceStart(row, n) = IntoRound(row) /\ IntoRound(row) \in Bio..(Talk - 1)
           /\ IntoRound(row) \in Nat /\ RoundOffset(row, n) \in Nat
  <2>1. SUFFICES ASSUME s
                 PROVE  /\ SinceStart(row, n) = IntoRound(row)
                        /\ IntoRound(row) \in Bio..(Talk - 1)
                        /\ IntoRound(row) \in Nat /\ RoundOffset(row, n) \in Nat
    OBVIOUS
  <2>2. IntoRound(row) \in Bio..(Talk - 1)
    <3>1. IntoRound(row) \in Int /\ LiveExtension(row) \in Nat /\ row.rounds \in Int
      BY <1>1, IntoRoundNat DEF LiveExtension, ClockRow
    <3> QED BY <1>1, <2>1, <3>1, ReferralPhase
  <2>3. IntoRound(row) \in Nat /\ RoundOffset(row, n) \in Nat
        /\ IntoRound(row) = row.age - RoundOffset(row, n)
    BY <1>1, <2>1, IntoRoundNat DEF SinceAnchor
  <2> QED BY <2>2, <2>3 DEF SinceStart
<1> HIDE DEF s
<1>5. f \in Given /\ f.round = n /\ f.age = d /\ f.inSlot = s /\ f.steady /\ ~f.synced
  BY <1>2 DEF Given
<1> HIDE DEF f
<1>6. s => SlotOK(f)
  <2>1. SUFFICES ASSUME s PROVE SlotOK(f)
    OBVIOUS
  <2>2. n = LiveRound(row)
    BY <2>1 DEF s
  <2>3. IntoWhenMade(row, f) = SinceStart(row, n) - d
    BY <1>1, <1>2, <1>4, <1>5, <2>1 DEF IntoWhenMade, SinceStart
  <2>4. Bio \in Nat /\ Talk \in Nat
    BY Choices, ClockAssumption
  <2>5. IntoWhenMade(row, f) \in (Bio - Slack)..(Talk + Slack) /\ SinceStart(row, n) >= Bio
    BY <1>2, <1>4, <2>1, <2>3, <2>4
  <2> QED BY <1>1, <1>5, <2>2, <2>5 DEF SlotOK
<1>7. SlotOK(f)
  BY <1>5, <1>6 DEF SlotOK
<1>8. f # Null
  BY <1>5, RefNullAssumption
<1>9. made'[i] = f /\ \A j \in Ids : j # i => made'[j] = made[j]
  BY <1>3
<1> QED BY <1>5, <1>7, <1>8, <1>9

LEMMA GivenKept ==
  ASSUME RefInv, NEW i \in Ids, made' = [made EXCEPT ![i].synced = TRUE, ![i].age = 0],
         made[i] # Null
  PROVE  /\ made'[i] \in Given /\ made'[i] # Null
         /\ made'[i].round = made[i].round /\ made'[i].inSlot = made[i].inSlot
         /\ made'[i].steady = made[i].steady /\ made'[i].synced
         /\ \A j \in Ids : j # i => made'[j] = made[j]
         /\ made' \in [Ids -> Given \cup {Null}]
<1>1. made \in [Ids -> Given \cup {Null}] /\ made[i] \in Given
  BY DEF RefInv, RefTypeOK
<1>2. made'[i] = [made[i] EXCEPT !.synced = TRUE, !.age = 0]
      /\ \A j \in Ids : j # i => made'[j] = made[j]
  BY <1>1
<1>3. made'[i] \in Given
  <2>1. ASSUME NEW g \in Given, NEW h, h = [g EXCEPT !.synced = TRUE, !.age = 0]
        PROVE  h \in Given
    <3>1. /\ g = [round |-> g.round, age |-> g.age, inSlot |-> g.inSlot,
                  steady |-> g.steady, synced |-> g.synced]
          /\ g.round \in 1..MaxRounds /\ g.inSlot \in BOOLEAN /\ g.steady \in BOOLEAN
      BY DEF Given
    <3>2. h = [round |-> g.round, age |-> 0, inSlot |-> g.inSlot,
               steady |-> g.steady, synced |-> TRUE]
      BY <2>1, <3>1
    <3> QED BY <3>1, <3>2 DEF Given
  <2>2. made'[i] = [made[i] EXCEPT !.synced = TRUE, !.age = 0]
    BY <1>2
  <2> QED BY <1>1, <2>1, <2>2
<1>4. /\ made'[i].round = made[i].round /\ made'[i].inSlot = made[i].inSlot
      /\ made'[i].steady = made[i].steady /\ made'[i].synced
  BY <1>1, <1>2 DEF Given
<1> QED BY <1>1, <1>2, <1>3, <1>4, RefNullAssumption

\* While the conclave's row stands, what is known of a referral depends on the
\* referral alone.
LEMMA RowStands ==
  ASSUME Played, UNCHANGED <<row, date, req>>
  PROVE  /\ Played'
         /\ LiveRound(row') = LiveRound(row)
         /\ \A f : SlotOK(f)' <=> SlotOK(f)
<1>1. Played'
  BY DEF Played, ClockInv, TypeOK, AnchorInPast, SeatInv, SeatedRow
<1>2. LiveRound(row') = LiveRound(row)
  OBVIOUS
<1>3. \A f : SlotOK(f)' <=> SlotOK(f)
  BY <1>2 DEF SlotOK, IntoWhenMade, SinceStart
<1> QED BY <1>1, <1>2, <1>3

LEMMA MakeKeeps ==
  ASSUME RefInv, NEW i \in Ids, NEW n \in 1..MaxRounds, NEW d \in Drifts, MakeReferral(i, n, d)
  PROVE  RefInv'
<1>1. /\ Played /\ RefTypeOK
      /\ made[i] = Null /\ UNCHANGED <<row, date, req, book, up, pings>>
  BY DEF RefInv, MakeReferral
<1>2. /\ made'[i] \in Given /\ made'[i] # Null
      /\ ~made'[i].synced
      /\ SlotOK(made'[i])
      /\ \A j \in Ids : j # i => made'[j] = made[j]
  BY <1>1, MadeInSlot
<1>3. /\ Played'
      /\ LiveRound(row') = LiveRound(row)
      /\ \A f : SlotOK(f)' <=> SlotOK(f)
  BY <1>1, RowStands
<1>4. RefTypeOK'
  BY <1>1, <1>2 DEF RefTypeOK, MakeReferral
<1>5. book[i] = Null
  BY <1>1 DEF RefInv, ReferralOK
<1>6. ASSUME NEW c \in Uploads PROVE UploadOK(c)'
  <2>1. UploadOK(c)
    BY DEF RefInv
  <2>2. up[c] # Null => up[c].id # i
    BY <1>1, <2>1 DEF UploadOK
  <2>3. up[c] # Null => up[c].id \in Ids
    BY <1>1 DEF RefTypeOK, Upload
  <2>4. up[c] # Null => made'[up[c].id] = made[up[c].id]
    BY <1>2, <2>2, <2>3
  <2> QED BY <1>1, <1>3, <2>1, <2>4 DEF UploadOK
<1>7. ASSUME NEW j \in Ids PROVE TellOK(j)'
  <2>1. TellOK(j)
    BY DEF RefInv
  <2> QED BY <1>1, <2>1 DEF TellOK, Creates
<1>8. ASSUME NEW j \in Ids PROVE ReferralOK(j)'
  <2>1. ReferralOK(j)
    BY DEF RefInv
  <2>2. CASE j = i
    BY <1>1, <1>2, <1>3, <1>5, <2>2 DEF ReferralOK
  <2>3. CASE j # i
    BY <1>1, <1>2, <1>3, <2>1, <2>3 DEF ReferralOK
  <2> QED BY <2>2, <2>3
<1> QED BY <1>3, <1>4, <1>6, <1>7, <1>8 DEF RefInv

\* An upload's step that leaves the referrals alone.
LEMMA UploadStep ==
  ASSUME RefInv, NEW c \in Uploads, NEW u \in Upload \cup {Null},
         up' = [up EXCEPT ![c] = u], UNCHANGED <<row, date, req, made>>,
         \A d \in Uploads : UploadOK(d)',
         RefTypeOK',
         \A i \in Ids : TellOK(i)',
         \A i \in Ids : /\ book[i] # Null => book'[i] # Null
                        /\ book'[i] # Null /\ book[i] = Null =>
                             made[i] # Null /\ made[i].round <= LiveRound(row)
  PROVE  RefInv'
<1>1. /\ Played'
      /\ LiveRound(row') = LiveRound(row)
      /\ \A f : SlotOK(f)' <=> SlotOK(f)
  BY RowStands DEF RefInv
<1>2. ASSUME NEW i \in Ids PROVE ReferralOK(i)'
  <2>1. ReferralOK(i)
    BY DEF RefInv
  <2> QED BY <1>1, <2>1 DEF ReferralOK
<1> QED BY <1>1, <1>2 DEF RefInv

LEMMA ReceiveKeeps ==
  ASSUME RefInv, NEW c \in Uploads, NEW i \in Ids, Receive(c, i)
  PROVE  RefInv'
<1> DEFINE s == IF book[i] # Null THEN "found"
                ELSE IF Refused(row, made[i]) THEN "saved"
                ELSE "new"
           u == [id |-> i, step |-> s]
<1>1. /\ Played /\ RefTypeOK /\ up[c] = Null /\ made[i] # Null /\ ~made[i].synced
      /\ up' = [up EXCEPT ![c] = u]
      /\ UNCHANGED <<row, date, req, made, book, pings>>
  BY DEF RefInv, Receive
<1>2. made[i] \in Given
  BY <1>1 DEF RefTypeOK
<1>3. /\ s \in {"found", "saved", "new"}
      /\ s = "found" => book[i] # Null
      /\ s = "saved" => Refused(row, made[i])
      /\ s = "new" => ~Refused(row, made[i])
  OBVIOUS
<1> HIDE DEF s
<1>4. u \in Upload /\ u.id = i /\ u.step = s
  BY <1>3 DEF Upload
<1> HIDE DEF u
<1>5. u # Null
  BY <1>4, RefNullAssumption
<1>6. RefTypeOK'
  BY <1>1, <1>4 DEF RefTypeOK
<1>7. up'[c] = u /\ \A d \in Uploads : d # c => up'[d] = up[d]
  BY <1>1 DEF RefTypeOK
<1>8. LiveRound(row') = LiveRound(row)
  BY <1>1
<1>9. ASSUME NEW d \in Uploads PROVE UploadOK(d)'
  <2>1. CASE d = c
    <3>1. SlotOK(made[i])
      BY <1>1 DEF RefInv, ReferralOK
    <3>2. s = "saved" => ~(made[i].inSlot /\ made[i].steady)
      BY <1>1, <1>2, <1>3, <3>1, Judgement
    <3>3. s = "new" => made[i].round <= LiveRound(row)
      BY <1>1, <1>2, <1>3, Judgement
    <3> QED BY <1>1, <1>3, <1>4, <1>7, <1>8, <2>1, <3>2, <3>3 DEF UploadOK
  <2>2. CASE d # c
    <3>1. UploadOK(d)
      BY DEF RefInv
    <3> QED BY <1>1, <1>7, <1>8, <2>2, <3>1 DEF UploadOK
  <2> QED BY <2>1, <2>2
<1>10. ASSUME NEW j \in Ids PROVE TellOK(j)'
  <2>1. TellOK(j)
    BY DEF RefInv
  <2>2. \A d \in Uploads : Creates(d, j)' <=> Creates(d, j)
    BY <1>1, <1>3, <1>4, <1>7 DEF Creates
  <2> QED BY <1>1, <2>1, <2>2 DEF TellOK
<1> QED BY <1>1, <1>4, <1>6, <1>9, <1>10, UploadStep

LEMMA CreateKeeps ==
  ASSUME RefInv, NEW c \in Uploads, NEW s \in SentStates, Create(c, s)
  PROVE  RefInv'
<1> DEFINE i == up[c].id
           b == [state |-> s, outcome |-> "open"]
           u == [up[c] EXCEPT !.step = "created"]
<1>1. /\ RefTypeOK /\ up[c] # Null /\ up[c].step = "new" /\ book[i] = Null
      /\ book' = [book EXCEPT ![i] = b]
      /\ UNCHANGED <<row, date, req, made, pings>>
  BY DEF RefInv, Create
<1>2. up[c] \in Upload /\ i \in Ids
  BY <1>1 DEF RefTypeOK, Upload
<1>3. up' = [up EXCEPT ![c] = u]
  BY <1>1 DEF Create, RefTypeOK
<1>4. b \in Stored /\ b # Null
  <2>1. b \in Stored
    BY ReferralsAssumption DEF Stored, States, Outcomes
  <2> QED BY <2>1, RefNullAssumption
<1>5. u \in Upload /\ u.id = i /\ u.step = "created" /\ u # Null
  <2>1. u \in Upload /\ u.id = i /\ u.step = "created"
    BY <1>2 DEF Upload
  <2> QED BY <2>1, RefNullAssumption
<1> HIDE DEF b, u
<1>6. RefTypeOK'
  BY <1>1, <1>3, <1>4, <1>5 DEF RefTypeOK
<1>7. /\ up'[c] = u /\ \A d \in Uploads : d # c => up'[d] = up[d]
      /\ book'[i] = b /\ \A j \in Ids : j # i => book'[j] = book[j]
  BY <1>1, <1>2, <1>3 DEF RefTypeOK
<1>8. made[i] # Null /\ made[i].round <= LiveRound(row)
  BY <1>1 DEF RefInv, UploadOK
<1>9. \A j \in Ids : book[j] # Null => book'[j] # Null
  BY <1>1, <1>7
<1>10. LiveRound(row') = LiveRound(row)
  BY <1>1
<1>11. ASSUME NEW d \in Uploads PROVE UploadOK(d)'
  <2>1. CASE d = c
    BY <1>1, <1>4, <1>5, <1>7, <1>8, <2>1 DEF UploadOK
  <2>2. CASE d # c
    <3>1. UploadOK(d) /\ (up[d] # Null => up[d].id \in Ids)
      BY <1>1 DEF RefInv, RefTypeOK, Upload
    <3> QED BY <1>1, <1>7, <1>9, <1>10, <2>2, <3>1 DEF UploadOK
  <2> QED BY <2>1, <2>2
<1>12. ASSUME NEW j \in Ids PROVE TellOK(j)'
  <2>1. TellOK(j)
    BY DEF RefInv
  <2>2. CASE j # i
    <3>1. \A d \in Uploads : Creates(d, j)' <=> Creates(d, j)
      BY <1>1, <1>5, <1>7, <2>2 DEF Creates
    <3> QED BY <1>1, <1>7, <2>1, <2>2, <3>1 DEF TellOK
  <2>3. CASE j = i
    <3>1. pings[i] = 0
      BY <1>1, <2>1, <2>3 DEF TellOK
    <3>2. ASSUME NEW d \in Uploads, Creates(d, j)' PROVE d = c
      <4>1. SUFFICES ASSUME d # c PROVE FALSE
        OBVIOUS
      <4>2. up[d] # Null /\ up[d].id = i /\ up[d].step = "created"
        BY <1>7, <2>3, <3>2, <4>1 DEF Creates
      <4>3. book[i] # Null
        BY <4>2 DEF RefInv, UploadOK
      <4> QED BY <1>1, <4>3
    <3> QED BY <1>1, <1>4, <1>7, <2>3, <3>1, <3>2 DEF TellOK
  <2> QED BY <2>2, <2>3
<1>13. ASSUME NEW j \in Ids, book'[j] # Null, book[j] = Null
       PROVE  made[j] # Null /\ made[j].round <= LiveRound(row)
  BY <1>7, <1>8, <1>13
<1> QED BY <1>1, <1>3, <1>5, <1>6, <1>9, <1>11, <1>12, <1>13, UploadStep

LEMMA TellKeeps ==
  ASSUME RefInv, NEW c \in Uploads, Tell(c)
  PROVE  RefInv'
<1> DEFINE u == [up[c] EXCEPT !.step = "saved"]
<1>1. PICK i \in Ids : i = up[c].id
  BY DEF RefInv, RefTypeOK, Upload, Tell
<1>2. /\ RefTypeOK /\ up[c] # Null /\ up[c].step = "created"
      /\ pings' = [pings EXCEPT ![i] = @ + 1]
      /\ UNCHANGED <<row, date, req, made, book>>
  BY <1>1 DEF RefInv, Tell
<1>3. up[c] \in Upload /\ up' = [up EXCEPT ![c] = u]
  BY <1>2 DEF RefTypeOK, Tell
<1>4. u \in Upload /\ u.id = i /\ u.step = "saved"
  BY <1>1, <1>3 DEF Upload
<1> HIDE DEF u
<1>5. RefTypeOK'
  BY <1>2, <1>3, <1>4 DEF RefTypeOK
<1>6. /\ up'[c] = u /\ \A d \in Uploads : d # c => up'[d] = up[d]
      /\ pings'[i] = pings[i] + 1 /\ \A j \in Ids : j # i => pings'[j] = pings[j]
  BY <1>2, <1>3 DEF RefTypeOK
<1>7. book[i] # Null /\ made[i] # Null
  BY <1>1, <1>2 DEF RefInv, UploadOK
<1>8. Creates(c, i)
  BY <1>1, <1>2 DEF Creates
<1>9. ASSUME NEW d \in Uploads PROVE UploadOK(d)'
  <2>1. CASE d = c
    BY <1>2, <1>4, <1>6, <1>7, <2>1 DEF UploadOK
  <2>2. CASE d # c
    <3>1. UploadOK(d)
      BY DEF RefInv
    <3> QED BY <1>2, <1>6, <2>2, <3>1 DEF UploadOK
  <2> QED BY <2>1, <2>2
<1>10. ASSUME NEW j \in Ids PROVE TellOK(j)'
  <2>1. TellOK(j)
    BY DEF RefInv
  <2>2. CASE j # i
    <3>1. \A d \in Uploads : Creates(d, j)' <=> Creates(d, j)
      BY <1>1, <1>4, <1>6, <2>2 DEF Creates
    <3> QED BY <1>2, <1>6, <2>1, <2>2, <3>1 DEF TellOK
  <2>3. CASE j = i
    <3>1. pings[i] = 0 /\ \A d \in Uploads : Creates(d, i) => d = c
      BY <1>8, <2>1, <2>3 DEF TellOK
    <3>2. ASSUME NEW d \in Uploads PROVE ~Creates(d, i)'
      <4>1. CASE d = c
        BY <1>4, <1>6, <4>1 DEF Creates
      <4>2. CASE d # c
        BY <1>6, <3>1, <4>2 DEF Creates
      <4> QED BY <4>1, <4>2
    <3>3. pings'[i] = 1
      BY <1>6, <3>1
    <3> QED BY <1>2, <1>7, <2>3, <3>2, <3>3 DEF TellOK
  <2> QED BY <2>2, <2>3
<1> QED BY <1>2, <1>3, <1>4, <1>5, <1>9, <1>10, UploadStep

LEMMA RestateKeeps ==
  ASSUME RefInv, NEW c \in Uploads, NEW s \in SentStates, Restate(c, s)
  PROVE  RefInv'
<1> DEFINE u == [up[c] EXCEPT !.step = "saved"]
<1>1. PICK i \in Ids : i = up[c].id
  BY DEF RefInv, RefTypeOK, Upload, Restate
<1> DEFINE b == [book[i] EXCEPT !.state = s]
<1>2. /\ RefTypeOK /\ up[c] # Null /\ up[c].step = "found"
      /\ UNCHANGED <<row, date, req, made, pings>>
  BY DEF RefInv, Restate
<1>3. up[c] \in Upload /\ up' = [up EXCEPT ![c] = u]
  BY <1>2 DEF RefTypeOK, Restate
<1>4. book[i] # Null /\ made[i] # Null
  BY <1>1, <1>2 DEF RefInv, UploadOK
<1>5. book[i] \in Stored /\ book' = [book EXCEPT ![i] = b]
  BY <1>1, <1>2, <1>4 DEF RefTypeOK, Restate
<1>6. u \in Upload /\ u.id = i /\ u.step = "saved"
  BY <1>1, <1>3 DEF Upload
<1>7. b \in Stored /\ b # Null
  <2>1. s \in States
    BY ReferralsAssumption DEF States
  <2>2. b \in Stored
    BY <1>5, <2>1 DEF Stored
  <2> QED BY <2>2, RefNullAssumption
<1> HIDE DEF u, b
<1>8. RefTypeOK'
  BY <1>2, <1>3, <1>5, <1>6, <1>7 DEF RefTypeOK
<1>9. /\ up'[c] = u /\ \A d \in Uploads : d # c => up'[d] = up[d]
      /\ book'[i] = b /\ \A j \in Ids : j # i => book'[j] = book[j]
  BY <1>2, <1>3, <1>5 DEF RefTypeOK
<1>10. \A j \in Ids : book'[j] = Null <=> book[j] = Null
  BY <1>4, <1>7, <1>9
<1>11. ASSUME NEW d \in Uploads PROVE UploadOK(d)'
  <2>1. CASE d = c
    BY <1>2, <1>4, <1>6, <1>9, <1>10, <2>1 DEF UploadOK
  <2>2. CASE d # c
    <3>1. UploadOK(d) /\ (up[d] # Null => up[d].id \in Ids)
      BY <1>2 DEF RefInv, RefTypeOK, Upload
    <3> QED BY <1>2, <1>9, <1>10, <2>2, <3>1 DEF UploadOK
  <2> QED BY <2>1, <2>2
<1>12. ASSUME NEW j \in Ids PROVE TellOK(j)'
  <2>1. TellOK(j)
    BY DEF RefInv
  <2>2. \A d \in Uploads : Creates(d, j)' <=> Creates(d, j)
    BY <1>2, <1>6, <1>9 DEF Creates
  <2> QED BY <1>2, <1>10, <2>1, <2>2 DEF TellOK
<1> QED BY <1>2, <1>3, <1>6, <1>8, <1>10, <1>11, <1>12, UploadStep

LEMMA AnswerKeeps ==
  ASSUME RefInv, NEW c \in Uploads, Answer(c)
  PROVE  RefInv'
<1>1. PICK i \in Ids : i = up[c].id
  BY DEF RefInv, RefTypeOK, Upload, Answer
<1>2. /\ RefTypeOK /\ Played /\ up[c] # Null /\ up[c].step = "saved"
      /\ made' = [made EXCEPT ![i].synced = TRUE, ![i].age = 0]
      /\ up' = [up EXCEPT ![c] = Null]
      /\ UNCHANGED <<row, date, req, book, pings>>
  BY <1>1 DEF RefInv, Answer
<1>3. /\ made[i] # Null
      /\ book[i] # Null \/ ~(made[i].inSlot /\ made[i].steady)
  BY <1>1, <1>2 DEF RefInv, UploadOK
<1>4. /\ made'[i] \in Given /\ made'[i] # Null
      /\ made'[i].round = made[i].round /\ made'[i].inSlot = made[i].inSlot
      /\ made'[i].steady = made[i].steady /\ made'[i].synced
      /\ \A j \in Ids : j # i => made'[j] = made[j]
      /\ made' \in [Ids -> Given \cup {Null}]
  BY <1>2, <1>3, GivenKept
<1>5. /\ Played'
      /\ LiveRound(row') = LiveRound(row)
      /\ \A f : SlotOK(f)' <=> SlotOK(f)
  BY <1>2, RowStands
<1>6. RefTypeOK'
  BY <1>2, <1>4 DEF RefTypeOK
<1>7. /\ up'[c] = Null /\ \A d \in Uploads : d # c => up'[d] = up[d]
  BY <1>2 DEF RefTypeOK
<1>8. ASSUME NEW d \in Uploads PROVE UploadOK(d)'
  <2>1. CASE d = c
    BY <1>7, <2>1 DEF UploadOK
  <2>2. CASE d # c
    <3>1. UploadOK(d) /\ (up[d] # Null => up[d].id \in Ids)
      BY <1>2 DEF RefInv, RefTypeOK, Upload
    <3>2. up[d] # Null =>
            /\ made[up[d].id] # Null => made'[up[d].id] # Null
            /\ made'[up[d].id].round = made[up[d].id].round
            /\ made'[up[d].id].inSlot = made[up[d].id].inSlot
            /\ made'[up[d].id].steady = made[up[d].id].steady
      BY <1>4, <3>1
    <3> QED BY <1>2, <1>5, <1>7, <2>2, <3>1, <3>2 DEF UploadOK
  <2> QED BY <2>1, <2>2
<1>9. ASSUME NEW j \in Ids PROVE TellOK(j)'
  <2>1. TellOK(j)
    BY DEF RefInv
  <2>2. \A d \in Uploads : Creates(d, j)' <=> Creates(d, j)
    BY <1>2, <1>7 DEF Creates
  <2> QED BY <1>2, <2>1, <2>2 DEF TellOK
<1>10. ASSUME NEW j \in Ids PROVE ReferralOK(j)'
  <2>1. ReferralOK(j)
    BY DEF RefInv
  <2>2. CASE j # i
    BY <1>2, <1>4, <1>5, <2>1, <2>2 DEF ReferralOK
  <2>3. CASE j = i
    <3>1. SlotOK(made[i])
      BY <1>3, <2>1, <2>3 DEF ReferralOK
    <3>2. SlotOK(made'[i])
      BY <1>4, <3>1 DEF SlotOK
    <3> QED BY <1>2, <1>3, <1>4, <1>5, <2>1, <2>3, <3>2 DEF ReferralOK
  <2> QED BY <2>2, <2>3
<1> QED BY <1>5, <1>6, <1>8, <1>9, <1>10 DEF RefInv

LEMMA LoseKeeps ==
  ASSUME RefInv, NEW c \in Uploads, Lose(c)
  PROVE  RefInv'
<1>1. /\ RefTypeOK /\ up' = [up EXCEPT ![c] = Null]
      /\ UNCHANGED <<row, date, req, made, book, pings>>
  BY DEF RefInv, Lose
<1>2. RefTypeOK'
  BY <1>1 DEF RefTypeOK
<1>3. /\ up'[c] = Null /\ \A d \in Uploads : d # c => up'[d] = up[d]
  BY <1>1 DEF RefTypeOK
<1>4. ASSUME NEW d \in Uploads PROVE UploadOK(d)'
  <2>1. UploadOK(d)
    BY DEF RefInv
  <2> QED BY <1>1, <1>3, <2>1 DEF UploadOK
<1>5. ASSUME NEW j \in Ids PROVE TellOK(j)'
  <2>1. TellOK(j)
    BY DEF RefInv
  <2>2. \A d \in Uploads : Creates(d, j)' => Creates(d, j)
    BY <1>1, <1>3 DEF Creates
  <2> QED BY <1>1, <2>1, <2>2 DEF TellOK
<1> QED BY <1>1, <1>2, <1>4, <1>5, UploadStep

LEMMA OutcomeKeeps ==
  ASSUME RefInv, NEW i \in Ids, NEW o \in GivenOutcomes, UpdateOutcome(i, o)
  PROVE  RefInv'
<1> DEFINE s == IF o \in {"accepted", "closed"} THEN "Completed" ELSE book[i].state
           b == [outcome |-> o, state |-> s]
<1>1. /\ RefTypeOK /\ Played /\ book[i] # Null
      /\ UNCHANGED <<row, date, req, made, up, pings>>
  BY DEF RefInv, UpdateOutcome
<1>2. book[i] \in Stored /\ book' = [book EXCEPT ![i] = b]
  BY <1>1 DEF RefTypeOK, UpdateOutcome
<1>3. b \in Stored /\ b # Null
  <2>1. s \in States /\ o \in Outcomes
    BY <1>2, ReferralsAssumption DEF Stored, States, Outcomes
  <2> HIDE DEF s
  <2>2. b \in Stored
    BY <2>1 DEF Stored
  <2> QED BY <2>2, RefNullAssumption
<1> HIDE DEF b
<1>4. RefTypeOK'
  BY <1>1, <1>2, <1>3 DEF RefTypeOK
<1>5. \A j \in Ids : book'[j] = Null <=> book[j] = Null
  BY <1>1, <1>2, <1>3 DEF RefTypeOK
<1>6. /\ Played'
      /\ LiveRound(row') = LiveRound(row)
      /\ \A f : SlotOK(f)' <=> SlotOK(f)
  BY <1>1, RowStands
<1>7. ASSUME NEW d \in Uploads PROVE UploadOK(d)'
  <2>1. UploadOK(d) /\ (up[d] # Null => up[d].id \in Ids)
    BY <1>1 DEF RefInv, RefTypeOK, Upload
  <2> QED BY <1>1, <1>5, <2>1 DEF UploadOK
<1>8. ASSUME NEW j \in Ids PROVE TellOK(j)' /\ ReferralOK(j)'
  <2>1. TellOK(j) /\ ReferralOK(j)
    BY DEF RefInv
  <2>2. TellOK(j)'
    BY <1>1, <1>5, <2>1 DEF TellOK, Creates
  <2>3. ReferralOK(j)'
    BY <1>1, <1>5, <1>6, <2>1 DEF ReferralOK
  <2> QED BY <2>2, <2>3
<1> QED BY <1>4, <1>6, <1>7, <1>8 DEF RefInv

\* What a step of the conclave does to a referral.
LEMMA GivenOnward ==
  ASSUME RefTypeOK, NEW dt \in {0, 1}, Onward(dt), NEW i \in Ids, made[i] # Null
  PROVE  /\ made'[i] \in Given /\ made'[i] # Null
         /\ made'[i].round = made[i].round /\ made'[i].inSlot = made[i].inSlot
         /\ made'[i].synced = made[i].synced
         /\ made[i].synced => made'[i] = made[i]
         /\ ~made[i].synced => /\ made'[i].age = made[i].age + dt
                               /\ made'[i].steady = StillSteady(made[i], dt)
         /\ made'[i].steady => made[i].steady
<1> DEFINE f == made[i]
           st == StillSteady(f, dt)
<1>1. f \in Given /\ f.age \in Int /\ f.steady \in BOOLEAN /\ dt \in Int
  BY DEF RefTypeOK, Given
<1>2. st \in BOOLEAN /\ (st => f.steady)
  BY <1>1 DEF StillSteady
<1>3. made'[i] = IF f.synced THEN f ELSE [f EXCEPT !.age = f.age + dt, !.steady = st]
  BY DEF Onward
<1> HIDE DEF f, st
<1>4. CASE f.synced
  <2>1. made'[i] = f
    BY <1>3, <1>4
  <2> QED BY <1>1, <1>4, <2>1, RefNullAssumption DEF f
<1>5. CASE ~f.synced
  <2>1. made'[i] = [f EXCEPT !.age = f.age + dt, !.steady = st]
    BY <1>3, <1>5
  <2>2. /\ f = [round |-> f.round, age |-> f.age, inSlot |-> f.inSlot,
                steady |-> f.steady, synced |-> f.synced]
        /\ f.round \in 1..MaxRounds /\ f.inSlot \in BOOLEAN /\ f.synced \in BOOLEAN
    BY <1>1 DEF Given
  <2>3. made'[i] = [round |-> f.round, age |-> f.age + dt, inSlot |-> f.inSlot,
                    steady |-> st, synced |-> f.synced]
    BY <2>1, <2>2
  <2>4. made'[i] \in Given
    BY <1>1, <1>2, <2>2, <2>3 DEF Given
  <2>5. /\ made'[i].round = f.round /\ made'[i].inSlot = f.inSlot
        /\ made'[i].synced = f.synced /\ made'[i].age = f.age + dt /\ made'[i].steady = st
    BY <2>3
  <2> QED BY <1>2, <1>5, <2>4, <2>5, RefNullAssumption DEF f, st
<1> QED BY <1>4, <1>5

LEMMA PlayedNext ==
  ASSUME Played, Moves
  PROVE  /\ Played' /\ ClockRow(row') /\ row'.round \in Nat /\ row'.age \in Nat
         /\ LiveRound(row') \in Nat
<1>1. Played' /\ ClockInv' /\ SeatInv'
  BY PlayedStep, MovesKeepRow
<1>2. row' \in RowType /\ AnchorInPast(row') /\ SeatedRow(row') /\ row'.round >= 1
  BY <1>1 DEF Played, ClockInv, TypeOK, AnchorInPast, SeatInv, SeatedRow
<1>3. ClockRow(row') /\ LiveRound(row') \in 0..MaxRounds
  BY <1>2, RowIsClockRow
<1>4. row'.age # Null
  BY <1>2 DEF SeatedRow
<1>5. row'.round \in Nat /\ row'.age \in Nat
  BY <1>2, <1>3, <1>4 DEF RowType, AnchorInPast, ClockRow
<1> QED BY <1>1, <1>3, <1>5, RoundNumbers

\* The start of a referral's round stays where it is, or the referral is not
\* steady any more.
LEMMA SlotStays ==
  ASSUME Played, Moves, RefTypeOK, NEW dt \in {0, 1}, Onward(dt), NEW i \in Ids,
         made[i] # Null, SlotOK(made[i])
  PROVE  SlotOK(made[i])'
<1> DEFINE f == made[i]
           g == made'[i]
           n == f.round
<1>1. /\ g \in Given /\ g.round = n /\ g.inSlot = f.inSlot /\ g.synced = f.synced
      /\ ~f.synced => g.age = f.age + dt /\ g.steady = StillSteady(f, dt)
  BY GivenOnward
<1>2. f \in Given /\ f.age \in Int /\ n \in Nat /\ dt \in Int
  BY RoundNumbers DEF RefTypeOK, Given
<1>3. /\ LiveRound(row') >= LiveRound(row) /\ LiveRound(row) \in Nat
      /\ ClockRow(row) /\ row.age \in Int /\ row.round \in Nat
  BY LiveRoundGrows, PlayedRow
<1>4. /\ LiveRound(row') \in Nat
      /\ ClockRow(row') /\ row'.age \in Int /\ row'.round \in Nat
  BY PlayedNext
<1>5. row'.round >= row.round
  BY StoredRoundGrows
<1>6. ASSUME f.inSlot PROVE n <= LiveRound(row')
  BY <1>2, <1>3, <1>4, <1>6 DEF SlotOK
<1>7. ASSUME f.inSlot, ~f.synced, g.steady, n >= row'.round
      PROVE  /\ IntoWhenMade(row', g) \in (Bio - Slack)..(Talk + Slack)
             /\ SinceStart(row', n) >= Bio
  <2>1. n >= row.round /\ ~(row'.round > n) /\ ~(n < row.round)
    BY <1>2, <1>3, <1>4, <1>5, <1>7
  <2>2. f.steady /\ SinceStart(row', n) = SinceStart(row, n) + dt
    BY <1>1, <1>7, <2>1 DEF StillSteady
  <2>3. IntoWhenMade(row, f) \in (Bio - Slack)..(Talk + Slack) /\ SinceStart(row, n) >= Bio
    BY <1>7, <2>1, <2>2 DEF SlotOK
  <2>4. RoundOffset(row, n) \in Nat /\ RoundOffset(row', n) \in Nat
    BY <1>2, <1>3, <1>4, <1>7, <2>1, OffsetStep
  <2>5. IntoWhenMade(row, f) = SinceStart(row, n) - f.age /\ SinceStart(row, n) \in Int
    BY <1>2, <1>3, <2>4 DEF IntoWhenMade, SinceStart
  <2>6. IntoWhenMade(row', g) = SinceStart(row', n) - g.age /\ g.age = f.age + dt
    <3>1. g.round = n /\ g.age = f.age + dt /\ g.age \in Int
      <4>1. g.round = n /\ g.age = f.age + dt
        BY <1>1, <1>7
      <4> HIDE DEF f, g
      <4> QED BY <1>2, <4>1
    <3> HIDE DEF g
    <3>2. IntoWhenMade(row', g) = row'.age - g.age - RoundOffset(row', n)
      BY <3>1 DEF IntoWhenMade
    <3>3. SinceStart(row', n) = row'.age - RoundOffset(row', n)
      BY DEF SinceStart
    <3> QED BY <1>4, <2>4, <3>1, <3>2, <3>3
  <2>7. IntoWhenMade(row', g) = IntoWhenMade(row, f)
    BY <1>2, <2>2, <2>5, <2>6
  <2>8. SinceStart(row', n) >= Bio
    BY <2>2, <2>3, <2>5, ClockAssumption
  <2> QED BY <2>3, <2>7, <2>8
<1> QED BY <1>1, <1>6, <1>7 DEF SlotOK

LEMMA OnwardKeeps ==
  ASSUME RefInv, Moves, NEW dt \in {0, 1}, Onward(dt)
  PROVE  RefInv'
<1>1. Played /\ RefTypeOK /\ UNCHANGED <<book, up, pings>>
  BY DEF RefInv, Onward
<1>2. Played'
  BY <1>1, PlayedStep
<1>3. LiveRound(row') >= LiveRound(row) /\ LiveRound(row) \in Nat /\ LiveRound(row') \in Nat
  BY <1>1, LiveRoundGrows, PlayedRow, PlayedNext
<1>4. \A i \in Ids : made[i] = Null => made'[i] = Null
  BY DEF Onward
<1>5. \A i \in Ids : made[i] # Null =>
        /\ made'[i] \in Given /\ made'[i] # Null
        /\ made'[i].round = made[i].round /\ made'[i].inSlot = made[i].inSlot
        /\ made'[i].synced = made[i].synced
        /\ made'[i].steady => made[i].steady
        /\ made[i].round \in Nat
  <2>1. ASSUME NEW i \in Ids, made[i] # Null PROVE made[i].round \in Nat
    BY <1>1, <2>1, RoundNumbers DEF RefTypeOK, Given
  <2> QED BY <1>1, <2>1, GivenOnward
<1>6. RefTypeOK'
  <2>1. made' \in [Ids -> Given \cup {Null}]
    <3>1. \A i \in Ids : made'[i] \in Given \cup {Null}
      BY <1>4, <1>5
    <3> QED BY <3>1 DEF Onward
  <2> QED BY <1>1, <2>1 DEF RefTypeOK
<1>7. ASSUME NEW c \in Uploads PROVE UploadOK(c)'
  <2>1. UploadOK(c) /\ (up[c] # Null => up[c].id \in Ids)
    BY <1>1 DEF RefInv, RefTypeOK, Upload
  <2> QED BY <1>1, <1>3, <1>5, <2>1 DEF UploadOK
<1>8. ASSUME NEW i \in Ids PROVE TellOK(i)'
  <2>1. TellOK(i)
    BY DEF RefInv
  <2> QED BY <1>1, <2>1 DEF TellOK, Creates
<1>9. ASSUME NEW i \in Ids PROVE ReferralOK(i)'
  <2>1. ReferralOK(i)
    BY DEF RefInv
  <2>2. made[i] # Null => SlotOK(made[i])'
    BY <1>1, <2>1, SlotStays DEF RefInv, ReferralOK
  <2> QED BY <1>1, <1>3, <1>4, <1>5, <2>1, <2>2 DEF ReferralOK
<1> QED BY <1>2, <1>6, <1>7, <1>8, <1>9 DEF RefInv

LEMMA RefStep ==
  ASSUME RefInv, [RefNext]_allVars
  PROVE  RefInv'
<1>1. Moves
  BY RefNextMoves
<1>2. CASE ConclaveMoves
  BY <1>1, <1>2, OnwardKeeps DEF ConclaveMoves
<1>3. CASE Minute
  BY <1>1, <1>3, OnwardKeeps DEF Minute
<1>4. ASSUME NEW i \in Ids,
             \/ \E n \in 1..MaxRounds, d \in Drifts : MakeReferral(i, n, d)
             \/ \E o \in GivenOutcomes : UpdateOutcome(i, o)
             \/ \E c \in Uploads : Receive(c, i)
      PROVE  RefInv'
  BY <1>4, MakeKeeps, OutcomeKeeps, ReceiveKeeps
<1>5. ASSUME NEW c \in Uploads,
             \/ \E s \in SentStates : Create(c, s) \/ Restate(c, s)
             \/ Tell(c)
             \/ Answer(c)
             \/ Lose(c)
      PROVE  RefInv'
  BY <1>5, CreateKeeps, RestateKeeps, TellKeeps, AnswerKeeps, LoseKeeps
<1>6. CASE UNCHANGED allVars
  <2>1. /\ UNCHANGED <<row, date, req>> /\ UNCHANGED <<made, book, up, pings>>
    BY <1>6 DEF allVars
  <2>2. /\ Played'
        /\ LiveRound(row') = LiveRound(row)
        /\ \A f : SlotOK(f)' <=> SlotOK(f)
    BY <2>1, RowStands DEF RefInv
  <2>3. \A i \in Ids : ReferralOK(i)' /\ TellOK(i)'
    BY <2>1, <2>2 DEF RefInv, ReferralOK, TellOK, Creates
  <2>4. \A c \in Uploads : UploadOK(c)'
    BY <2>1, <2>2 DEF RefInv, UploadOK
  <2> QED BY <2>1, <2>2, <2>3, <2>4 DEF RefInv, RefTypeOK
<1> QED BY <1>2, <1>3, <1>4, <1>5, <1>6 DEF RefNext

\* A referral that its phone gave up is in the table if it was made in the
\* referral slot of its round and the round's start stood, whenever it comes.
THEOREM ReferralsAreKept == RefSpec => []KeptUnlessMoved
<1>1. RefInv => KeptUnlessMoved
  BY DEF RefInv, ReferralOK, KeptUnlessMoved
<1> QED BY <1>1, RefInitial, RefStep, PTL DEF RefSpec

\* The recipient of a referral is told at most once, of one that is in the
\* table, however its uploads race.
THEOREM RecipientToldOnce == RefSpec => []ToldOnce
<1>1. RefInv => ToldOnce
  BY DEF RefInv, TellOK, ToldOnce
<1> QED BY <1>1, RefInitial, RefStep, PTL DEF RefSpec

\* No referral is in the table for a round the clock has not reached.
THEOREM NoReferralAhead == RefSpec => []NoneAhead
<1>1. RefInv => NoneAhead
  BY DEF RefInv, ReferralOK, NoneAhead
<1> QED BY <1>1, RefInitial, RefStep, PTL DEF RefSpec

\* The referrals, their rows and the uploads keep their types, and the conclave
\* under them its own and its seating.
THEOREM ReferralsTyped == RefSpec => [](RefTypeOK /\ TypeOK /\ SeatedWhileRunning)
<1>1. RefInv => RefTypeOK /\ TypeOK /\ SeatedWhileRunning
  <2> SUFFICES ASSUME RefInv PROVE RefTypeOK /\ TypeOK /\ SeatedWhileRunning
    OBVIOUS
  <2>1. RefTypeOK /\ TypeOK /\ SeatInv
    BY DEF RefInv, Played, ClockInv
  <2>2. SeatedWhileRunning
    BY <2>1 DEF SeatInv, SeatedRow, SeatedWhileRunning, Live
  <2> QED BY <2>1, <2>2
<1> QED BY <1>1, RefInitial, RefStep, PTL DEF RefSpec
=============================================================================

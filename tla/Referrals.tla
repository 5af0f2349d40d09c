----------------------------- MODULE Referrals -----------------------------
(***************************************************************************)
(* Referrals given at the tables of a running conclave.  A phone keeps the *)
(* referral with the time it was made and uploads it until the server has  *)
(* acknowledged it, maybe much later; the server judges it by that time    *)
(* against the clock of the conclave's row as it reads it then.            *)
(*                                                                         *)
(* The conclave is the module Conclave, started and on its way through the *)
(* rounds.  Ages count as its anchor does: up to the present, in its time  *)
(* unit.  Both people share a table in the round (canRefer), and the one   *)
(* who gives the referral uploads it.                                      *)
(***************************************************************************)
EXTENDS Conclave

CONSTANTS Ids,       \* the referrals
          Uploads,   \* slots for uploads in flight, on any server
          Slack,     \* CLOCK_SLACK_MS
          Drifts,    \* by how much a phone's clock may be off
          SentStates,    \* bound: the states a phone sends
          GivenOutcomes, \* bound: the outcomes a recipient reports
          MaxDelay   \* bound: how long a referral may wait on a phone

ASSUME ReferralsAssumption ==
  /\ Slack \in Nat /\ Slack <= Bio /\ \A m \in MoveOptions : Slack <= m
  /\ Drifts \subseteq -Slack..Slack
  /\ MaxDelay \in Nat
  /\ SentStates \subseteq {"Pending", "Accepted", "Completed", "Declined"}
  /\ GivenOutcomes \subseteq {"open", "accepted", "closed", "not_closed"}

VARIABLES
  made,   \* the referrals on the phones
  book,   \* the rows of the referrals table
  up,     \* the uploads in flight
  pings   \* how often a recipient was told

refVars == <<made, book, up, pings>>
allVars == <<row, date, req, made, book, up, pings>>

States == {"Pending", "Accepted", "Completed", "Declined"}
Outcomes == {"open", "accepted", "closed", "not_closed"}

\* The age of a referral is what its phone says.  Whether it was made in the
\* referral slot of its round, by the server's clock, and whether that round's
\* start has not been moved since, is history that no code keeps.
Given == [round : 1..MaxRounds, age : Int, inSlot : BOOLEAN, steady : BOOLEAN,
          synced : BOOLEAN]

Stored == [state : States, outcome : Outcomes]

Upload == [id : Ids, step : {"new", "found", "created", "saved"}]

ASSUME RefNullAssumption == Null \notin Given \cup Stored \cup Upload

\* A conclave on its first round, in either mode, as startRound leaves it.
Started(n, m, mode) ==
  [status |-> "running", schedule |-> TRUE, locked |-> TRUE, override |-> "closed",
   regOpen |-> FALSE, rounds |-> n, round |-> 1, age |-> 0, mode |-> mode, ext |-> 0,
   move |-> m, paused |-> FALSE, elapsed |-> Null, completedAt |-> FALSE]

RefInit ==
  /\ date \in Dates /\ ~date.over
  /\ \E n \in RoundCounts, m \in MoveOptions, mode \in Modes : row = Started(n, m, mode)
  /\ req  = [c \in Requests |-> Idle]
  /\ made = [i \in Ids |-> Null]
  /\ book = [i \in Ids |-> Null]
  /\ up   = [c \in Uploads |-> Null]
  /\ pings = [i \in Ids |-> 0]

-----------------------------------------------------------------------------
(* The judgement                                                           *)

\* The row as its clock stood so long ago; a phone's time in the future is now.
AsOf(r, age) == [r EXCEPT !.age = @ - (IF age < 0 THEN 0 ELSE age)]

\* The round the clock was on when the referral was made.
RoundWhenMade(r, f) ==
  IF LiveRound(AsOf(r, f.age)) # 0 THEN LiveRound(AsOf(r, f.age)) ELSE r.round

\* How long after its round's start the referral was made, by both clocks.
IntoWhenMade(r, f) == r.age - f.age - RoundOffset(r, f.round)

\* Slips: no tolerance for a phone's clock; the round judged by the present clock.
RefusedExactly(r, f) ==
  LET live == RoundWhenMade(r, f) IN
  \/ live # 0 /\ f.round > live
  \/ f.round = live /\ r.age # Null /\ IntoWhenMade(r, f) \notin Bio..Talk

RefusedFuture(r, f) == FALSE

\* A future round is refused; the round in progress has an exact window; an
\* earlier one is accepted whenever it comes.
Refused(r, f) ==
  LET live == RoundWhenMade(r, f) IN
  \/ live # 0 /\ f.round > live
  \/ /\ f.round = live
     /\ r.age # Null
     /\ IntoWhenMade(r, f) \notin (Bio - Slack)..(Talk + Slack)

-----------------------------------------------------------------------------
(* Phones and server                                                       *)

\* A phone holds a referral for any round, with its own idea of the time.
MakeReferral(i, n, drift) ==
  /\ made[i] = Null
  /\ n <= row.rounds
  /\ made' = [made EXCEPT ![i] =
                [round |-> n, age |-> drift, steady |-> TRUE, synced |-> FALSE,
                 inSlot |-> /\ Live /\ ~row.paused
                            /\ n = LiveRound(row)
                            /\ Phase(row) = "referral"]]
  /\ UNCHANGED <<row, date, req, book, up, pings>>

\* An upload arrives.  The conclave is read without a lock before the
\* transaction, which then looks for the referral's row; a row that is found
\* stays, and while none is found nothing read later changes the verdict, so
\* both reads are one step.  A refused referral is acknowledged all the same.
Receive(c, i) ==
  /\ up[c] = Null
  /\ made[i] # Null
  /\ ~made[i].synced
  /\ up' = [up EXCEPT ![c] =
              [id |-> i, step |-> IF book[i] # Null THEN "found"
                                  ELSE IF Refused(row, made[i]) THEN "saved"
                                  ELSE "new"]]
  /\ UNCHANGED <<row, date, req, made, book, pings>>

\* Slip: an insert that overwrites.
CreateOver(c, s) ==
  LET i == up[c].id IN
  /\ up[c] # Null
  /\ up[c].step = "new"
  /\ book' = [book EXCEPT ![i] = [state |-> s, outcome |-> "open"]]
  /\ up'   = [up EXCEPT ![c].step = "created"]
  /\ UNCHANGED <<row, date, req, made, pings>>

\* It is inserted, unless another upload has just done so (then the transaction
\* fails, as in Lose).
Create(c, s) ==
  LET i == up[c].id IN
  /\ up[c] # Null
  /\ up[c].step = "new"
  /\ book[i] = Null
  /\ book' = [book EXCEPT ![i] = [state |-> s, outcome |-> "open"]]
  /\ up'   = [up EXCEPT ![c].step = "created"]
  /\ UNCHANGED <<row, date, req, made, pings>>

\* After the commit its recipient is told, if the server still runs.
Tell(c) ==
  /\ up[c] # Null
  /\ up[c].step = "created"
  /\ pings' = [pings EXCEPT ![up[c].id] = @ + 1]
  /\ up' = [up EXCEPT ![c].step = "saved"]
  /\ UNCHANGED <<row, date, req, made, book>>

\* Found: only its state may change, under the row's lock.
Restate(c, s) ==
  /\ up[c] # Null
  /\ up[c].step = "found"
  /\ book' = [book EXCEPT ![up[c].id].state = s]
  /\ up' = [up EXCEPT ![c].step = "saved"]
  /\ UNCHANGED <<row, date, req, made, pings>>

\* The phone hears of it, and never sends the referral again.
Answer(c) ==
  /\ up[c] # Null
  /\ up[c].step = "saved"
  /\ made' = [made EXCEPT ![up[c].id].synced = TRUE, ![up[c].id].age = 0]
  /\ up' = [up EXCEPT ![c] = Null]
  /\ UNCHANGED <<row, date, req, book, pings>>

\* The request, its transaction or its answer is lost.
Lose(c) ==
  /\ up[c] # Null
  /\ up' = [up EXCEPT ![c] = Null]
  /\ UNCHANGED <<row, date, req, made, book, pings>>

\* updateOutcome, by the member who received the referral.
UpdateOutcome(i, o) ==
  /\ book[i] # Null
  /\ book' = [book EXCEPT ![i] = [outcome |-> o,
                                  state |-> IF o \in {"accepted", "closed"} THEN "Completed"
                                            ELSE @.state]]
  /\ UNCHANGED <<row, date, req, made, up, pings>>

-----------------------------------------------------------------------------
(* The conclave meanwhile                                                  *)

\* Time since round k began by the row's clock.
SinceStart(r, k) == r.age - RoundOffset(r, k)

\* A step of the conclave that takes dt of time moves the start of a
\* referral's round, unless that round is over by the row.
StillSteady(f, dt) ==
  f.steady /\ (row'.round > f.round \/ f.round < row.round
               \/ SinceStart(row', f.round) = SinceStart(row, f.round) + dt)

Onward(dt) ==
  /\ made' = [i \in Ids |->
                IF made[i] = Null \/ made[i].synced THEN made[i]
                ELSE [made[i] EXCEPT !.age = @ + dt, !.steady = StillSteady(made[i], dt)]]
  /\ UNCHANGED <<book, up, pings>>

\* Time stops where an age would leave its bound.
Minute ==
  /\ Tick
  /\ row.age < MaxAge
  /\ \A i \in Ids : made[i] # Null => made[i].age < MaxDelay
  /\ Onward(1)

ConclaveMoves ==
  /\ \/ Running
     \/ Sweep
     \/ \E c \in Requests : \/ \E n \in 1..MaxRounds : AskStart(c, n)
                            \/ AskClose(c)
                            \/ Serve(c)
  /\ Onward(0)

RefNext ==
  \/ ConclaveMoves
  \/ Minute
  \/ \E i \in Ids : \/ \E n \in 1..MaxRounds, d \in Drifts : MakeReferral(i, n, d)
                    \/ \E o \in GivenOutcomes : UpdateOutcome(i, o)
                    \/ \E c \in Uploads : Receive(c, i)
  \/ \E c \in Uploads : \/ \E s \in SentStates : Create(c, s) \/ Restate(c, s)
                        \/ Tell(c)
                        \/ Answer(c)
                        \/ Lose(c)

RefSpec == RefInit /\ [][RefNext]_allVars
-----------------------------------------------------------------------------
(* Properties                                                              *)

RefTypeOK == /\ made \in [Ids -> Given \cup {Null}]
             /\ book \in [Ids -> Stored \cup {Null}]
             /\ up \in [Uploads -> Upload \cup {Null}]
             /\ pings \in [Ids -> Nat]

\* What a phone gave up because the server acknowledged it is in the table, if
\* it was made in the referral slot of its round: however late it comes, with a
\* clock a little off, in either mode, after other rounds and the conclave's
\* end.  Unless the round's start was moved in between.
KeptUnlessMoved ==
  \A i \in Ids :
    made[i] # Null => (made[i].synced /\ made[i].inSlot /\ made[i].steady => book[i] # Null)

\* However often a referral is uploaded, repeatedly or at once, its recipient is
\* told at most once, and only of a referral that is in the table.
ToldOnce == \A i \in Ids : pings[i] <= IF book[i] = Null THEN 0 ELSE 1

\* No referral is in the table for a round that has not started.
NoneAhead == \A i \in Ids : book[i] # Null => made[i].round <= LiveRound(row)

\* What the sync promises: referrals for the round in progress "are judged by
\* WHEN THEY WERE MADE", earlier ones are "accepted, never lost".
ReferralsKept ==
  \A i \in Ids : made[i] # Null => (made[i].synced /\ made[i].inSlot => book[i] # Null)
=============================================================================

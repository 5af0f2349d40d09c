------------------------------ MODULE Conclave ------------------------------
(***************************************************************************)
(* One conclave: its lifecycle from registration to completion, and its    *)
(* live rounds.  The state is the conclave's database row, which every     *)
(* operation locks, reads and patches in one transaction (`mutate'), and   *)
(* the requests that have read or timed something before they lock it:     *)
(* closeRound and listConclaves decide on an unlocked read, startRound     *)
(* takes its timestamp before it waits for the lock.                       *)
(*                                                                         *)
(* A refused request changes nothing and is not a step, except that a      *)
(* request in flight is given up (Refuse, also a crash of its server).     *)
(***************************************************************************)
EXTENDS RoundClock

CONSTANTS Requests,      \* slots for requests in flight, on any server
          RoundCounts,   \* roundCount values a conclave may be given
          MoveOptions,   \* MOVE_SECONDS_OPTIONS
          ExtendOptions, \* EXTEND_SECONDS_OPTIONS
          MaxExtension,  \* MAX_EXTENSION_SECONDS
          Grace,         \* FINISH_GRACE_MS
          Abandoned,     \* ABANDONED_AFTER_MS
          Dates,         \* where now may be in the row's dates
          EditStatuses,  \* statuses that create and edit requests carry in their body
          MaxAge,        \* bound: an anchor's age stops counting here
          MaxWait        \* bound: time a start request may wait for the row lock

Statuses == {"registrationNotOpen", "registrationOpen", "registrationClosed",
             "running", "completed", "cancelled"}
TerminalStatuses   == {"completed", "cancelled"}
RoleLockedStatuses == {"running", "completed", "cancelled"}
Overrides == {"auto", "open", "closed"}

\* Now against the registration dates, and whether the last day has passed.
DateType == [reg : {"before", "open", "after"}, over : BOOLEAN]

MaxRounds == CHOOSE m \in RoundCounts : \A n \in RoundCounts : n <= m

\* The code's own numbers: 60, 120 and 300 s moves after 180 s of talk or more,
\* and 24 hours to give up a conclave of at most 8 rounds.
ASSUME TimesAssumption ==
  /\ \A a, b \in MoveOptions : a - b <= Talk + b
  /\ \A m \in MoveOptions :
       Abandoned >= MaxRounds * (Talk + m) + MaxExtension + Grace
  /\ MaxWait < Talk
  /\ MaxAge > Abandoned

ASSUME ConclaveAssumption ==
  /\ RoundCounts \subseteq Nat \ {0}
  /\ MaxRounds \in RoundCounts /\ \A n \in RoundCounts : n <= MaxRounds
  /\ MoveOptions \subseteq Nat \ {0} /\ MoveOptions # {}
  /\ ExtendOptions \subseteq Nat \ {0}
  /\ MaxExtension \in Nat /\ Grace \in Nat /\ Abandoned \in Nat
  /\ MaxAge \in Nat /\ MaxWait \in Nat /\ MaxWait <= MaxAge
  /\ EditStatuses \subseteq Statuses /\ Dates \subseteq DateType

VARIABLES
  row,   \* the conclave's row
  date,  \* where now is in the row's dates
  req    \* the requests in flight

vars == <<row, date, req>>

Idle == [op |-> "none", n |-> 0, wait |-> 0, status |-> "completed", open |-> FALSE]

RowType ==
  [status : Statuses, schedule : BOOLEAN, locked : BOOLEAN, override : Overrides,
   regOpen : BOOLEAN, rounds : RoundCounts, round : 0..MaxRounds,
   age : Int \cup {Null}, mode : Modes, ext : 0..MaxExtension, move : MoveOptions,
   paused : BOOLEAN, elapsed : Int \cup {Null}, completedAt : BOOLEAN]

ReqType == [op : {"none", "start", "close", "complete", "fix"}, n : 0..MaxRounds,
            wait : 0..MaxWait, status : Statuses, open : BOOLEAN]

-----------------------------------------------------------------------------
\* The status an admin's choices and the registration dates amount to, and
\* whether registration is open (evaluateConclaveStatus). A row that carries a
\* live or terminal status keeps it.
Evaluate(status, r, w) ==
  LET as(s) == [status |-> s, open |-> s = "registrationOpen"]
  IN  CASE status \in RoleLockedStatuses -> as(status)
        [] status \notin RoleLockedStatuses /\ (r.schedule \/ r.locked) -> as("registrationClosed")
        [] status \notin RoleLockedStatuses /\ ~r.schedule /\ ~r.locked ->
             CASE r.override = "closed" -> as("registrationClosed")
               [] r.override = "open"   -> as("registrationOpen")
               [] r.override = "auto"   ->
                    CASE w = "before" -> as("registrationNotOpen")
                      [] w = "open"   -> as("registrationOpen")
                      [] w = "after"  -> as("registrationClosed")

\* createConclave: the status of the body wins, while isRegistrationOpen is
\* evaluated without it.
NewRow(o, w, s, n, m) ==
  LET r == [schedule |-> FALSE, locked |-> FALSE, override |-> o]
      e == Evaluate("none", r, w)
  IN  [status |-> IF s = Null THEN e.status ELSE s, schedule |-> FALSE, locked |-> FALSE,
       override |-> o, regOpen |-> e.open, rounds |-> n, round |-> 0, age |-> Null,
       mode |-> "manual", ext |-> 0, move |-> m, paused |-> FALSE, elapsed |-> Null,
       completedAt |-> FALSE]

Init ==
  /\ date \in Dates /\ ~date.over   \* validateConclaveDates: a new event is not in the past
  /\ \E o \in Overrides, s \in EditStatuses \cup {Null}, n \in RoundCounts, m \in MoveOptions :
       row = NewRow(o, date.reg, s, n, m)
  /\ req = [c \in Requests |-> Idle]

\* An operation that takes the row lock and patches the row.
Mutate(r) == row' = r /\ UNCHANGED <<date, req>>

-----------------------------------------------------------------------------
(* Before the conclave runs                                                *)

\* updateConclave. Null stands for a field the body does not carry.
UpdateConclave(s, o, n, m, d) ==
  LET status == IF s = Null THEN row.status ELSE s
      u == [row EXCEPT !.override = IF o = Null THEN @ ELSE o,
                       !.rounds   = IF n = Null THEN @ ELSE n,
                       !.move     = IF m = Null THEN @ ELSE m]
      e == Evaluate(status, u, d.reg)
  IN  /\ row.status \notin {"running", "completed"}
      /\ n # Null => ~row.schedule
      /\ row' = [u EXCEPT !.status = IF s = Null THEN e.status ELSE s, !.regOpen = e.open]
      /\ date' = d
      /\ UNCHANGED req

SetRegistrationOpen(open) ==
  LET o == IF open THEN "open" ELSE "closed"
      e == Evaluate(row.status, [row EXCEPT !.override = o], date.reg)
  IN  /\ row.status \notin RoleLockedStatuses
      /\ Mutate([row EXCEPT !.override = o, !.status = e.status, !.regOpen = e.open])

CancelConclave ==
  /\ row.status \notin RoleLockedStatuses
  /\ Mutate([row EXCEPT !.status = "cancelled", !.regOpen = FALSE])

\* Slip: registration stays as it was.
GenerateStillOpen(n) ==
  /\ row.status \notin RoleLockedStatuses
  /\ Mutate([row EXCEPT !.schedule = TRUE, !.rounds = n])

\* generateForConclave, for a roster the engine can seat.
GenerateSchedule(n) ==
  /\ row.status \notin RoleLockedStatuses
  /\ Mutate([row EXCEPT !.schedule = TRUE, !.rounds = n, !.status = "registrationClosed",
                        !.regOpen = FALSE, !.override = "closed"])

LockSchedule ==
  /\ row.schedule
  /\ ~row.locked
  /\ Mutate([row EXCEPT !.locked = TRUE, !.regOpen = FALSE, !.override = "closed",
                        !.status = IF @ = "completed" THEN @ ELSE "registrationClosed"])

-----------------------------------------------------------------------------
(* The live rounds                                                         *)

\* Slips: round 1 on a schedule not locked yet; a round of a finished conclave.
MayStartUnlocked(r, n) ==
  /\ n <= r.rounds
  /\ r.status \notin TerminalStatuses
  /\ r.status = "running" => n > LiveRound(r)
  /\ n <= LiveRound(r) + 1
  /\ n = 1 => r.schedule

MayStartFinished(r, n) ==
  /\ n <= r.rounds
  /\ r.status = "running" => n > LiveRound(r)
  /\ n <= LiveRound(r) + 1
  /\ n = 1 => r.schedule /\ r.locked

\* Rounds move forward, one at a time, and round 1 needs a locked schedule.
MayStart(r, n) ==
  /\ n <= r.rounds
  /\ r.status \notin TerminalStatuses
  /\ r.status = "running" => n > LiveRound(r)
  /\ n <= LiveRound(r) + 1
  /\ n = 1 => r.schedule /\ r.locked

\* startRound takes roundStartedAt, then queues for the row lock.
AskStart(c, n) ==
  /\ req[c] = Idle
  /\ req' = [req EXCEPT ![c] = [Idle EXCEPT !.op = "start", !.n = n]]
  /\ UNCHANGED <<row, date>>

\* ... and starts round n under the lock, anchored at that earlier time.
StartRound(c) ==
  LET n == req[c].n IN
  /\ req[c].op = "start"
  /\ MayStart(row, n)
  /\ row' = [row EXCEPT !.status = "running", !.regOpen = FALSE, !.round = n,
                        !.age = req[c].wait, !.paused = FALSE, !.elapsed = Null, !.ext = 0]
  /\ req' = [req EXCEPT ![c] = Idle]
  /\ UNCHANGED date

PauseRound ==
  LET m == Materialize(row) IN
  /\ row.status = "running"
  /\ ~row.paused
  /\ Mutate([m EXCEPT !.paused  = TRUE,
                      !.elapsed = IF m.age = Null \/ m.age < 0 THEN 0 ELSE m.age])

ResumeRound ==
  /\ row.status = "running"
  /\ row.paused
  /\ Mutate([row EXCEPT !.paused = FALSE, !.elapsed = Null,
                        !.age = IF row.elapsed = Null THEN 0 ELSE row.elapsed])

\* closeRound's test, on its unlocked read, that the round is over already.
AlreadyEnded(r) == ~r.paused /\ r.age # Null /\ r.age >= Talk + r.ext

\* closeRound reads the row without a lock and decides what it will do. A round
\* that reads as ended is answered `alreadyClosed', which changes nothing.
AskClose(c) ==
  /\ req[c] = Idle
  /\ row.status = "running"
  /\ LET curRound == IF row.round = 0 THEN 1 ELSE row.round
         last     == curRound >= row.rounds
     IN  /\ last \/ ~AlreadyEnded(row)
         /\ req' = [req EXCEPT ![c] = [Idle EXCEPT !.op = IF last THEN "complete" ELSE "close"]]
  /\ UNCHANGED <<row, date>>

\* ... then ends whatever round is live when it gets the lock.
CloseRound(c) ==
  LET m == Materialize(row) IN
  /\ req[c].op = "close"
  /\ row.status = "running"
  /\ row' = [m EXCEPT !.paused = FALSE, !.elapsed = Null, !.age = Talk + m.ext]
  /\ req' = [req EXCEPT ![c] = Idle]
  /\ UNCHANGED date

Completed(r) == [r EXCEPT !.status = "completed", !.regOpen = FALSE,
                          !.completedAt = TRUE, !.paused = FALSE]

\* completeConclave, by its own endpoint or for closeRound on the last round.
CompleteConclave ==
  /\ row.status = "running"
  /\ Mutate(Completed(row))

CloseLastRound(c) ==
  /\ req[c].op = "complete"
  /\ row.status = "running"
  /\ row' = Completed(row)
  /\ req' = [req EXCEPT ![c] = Idle]
  /\ UNCHANGED date

\* Slip: the move break is not restarted.
SetModeInThePast(mode) ==
  /\ row.status \notin TerminalStatuses
  /\ row.mode # mode
  /\ Mutate([Materialize(row) EXCEPT !.mode = mode])

\* setProgressionMode: a round that waits for the admin starts its move break
\* now when it is handed to automatic mode.
SetProgressionMode(mode) ==
  /\ row.status \notin TerminalStatuses
  /\ row.mode # mode
  /\ LET waiting == /\ mode = "automatic"
                    /\ row.status = "running"
                    /\ ~row.paused
                    /\ Phase(row) = "waiting"
     IN  Mutate([Materialize(row) EXCEPT !.mode = mode,
                                         !.age  = IF waiting THEN Talk + row.ext ELSE @])

\* Slip: the total is not capped.
ExtendUncapped(s) ==
  LET pinned == Materialize(row) IN
  /\ row.status = "running"
  /\ Phase(pinned) \in TalkPhases
  /\ Mutate([pinned EXCEPT !.ext = @ + s])

ExtendRound(s) ==
  LET pinned == Materialize(row) IN
  /\ row.status = "running"
  /\ Phase(pinned) \in TalkPhases
  /\ pinned.ext + s <= MaxExtension
  /\ Mutate([pinned EXCEPT !.ext = @ + s])

\* Slip: the live round is not pinned first.
SetMoveUnpinned(m) ==
  /\ row.status \notin TerminalStatuses
  /\ Mutate([row EXCEPT !.move = m])

SetMoveSeconds(m) ==
  /\ row.status \notin TerminalStatuses
  /\ Mutate([Materialize(row) EXCEPT !.move = m])

-----------------------------------------------------------------------------
(* Background work, lost requests and the passing of time                  *)

\* Slips: the extension is forgotten; there is no 24-hour rule.
IsFinishedUnextended(r) ==
  /\ ~r.paused
  /\ IF r.age # Null
       THEN \/ LiveRound(r) = r.rounds /\ IntoRound(r) > Talk + Grace
            \/ r.age > Abandoned
       ELSE date.over

IsFinishedNoNet(r) ==
  /\ ~r.paused
  /\ IF r.age # Null
       THEN Phase(r) = "done" /\ IntoRound(r) > Talk + LiveExtension(r) + Grace
       ELSE date.over

\* autocomplete: the last round has been over for a while, or the conclave
\* was left behind.
IsFinished(r) ==
  /\ ~r.paused
  /\ IF r.age # Null
       THEN \/ Phase(r) = "done" /\ IntoRound(r) > Talk + LiveExtension(r) + Grace
            \/ r.age > Abandoned
       ELSE date.over

Sweep ==
  /\ row.status = "running"
  /\ IsFinished(row)
  /\ Mutate([row EXCEPT !.status = "completed", !.regOpen = FALSE, !.round = row.rounds])

\* Slip: a conclave the sweep completed counts as well.
NeedsFixSwept(r) == r.status = "completed" /\ ~r.completedAt

\* A `completed' that no admin set and no round led to.
NeedsFix(r) == r.status = "completed" /\ r.round = 0 /\ ~r.completedAt

\* listConclaves works out a correction of such a row from what it read ...
ReadForFix(c) ==
  LET e == Evaluate("none", row, date.reg) IN
  /\ req[c] = Idle
  /\ NeedsFix(row)
  /\ req' = [req EXCEPT ![c] = [Idle EXCEPT !.op = "fix", !.status = e.status, !.open = e.open]]
  /\ UNCHANGED <<row, date>>

\* ... which it writes later whatever the row says by then.
ApplyFix(c) ==
  /\ req[c].op = "fix"
  /\ row' = [row EXCEPT !.status = req[c].status, !.regOpen = req[c].open]
  /\ req' = [req EXCEPT ![c] = Idle]
  /\ UNCHANGED date

\* A request in flight is refused under the lock, or dies with its server.
Refuse(c) ==
  /\ req[c] # Idle
  /\ req' = [req EXCEPT ![c] = Idle]
  /\ UNCHANGED <<row, date>>

\* A minute passes, for the anchor whether paused or not, and for the requests
\* that took their timestamp; one that waits longer than MaxWait is given up.
Tick ==
  /\ row' = [row EXCEPT !.age = IF @ = Null \/ @ >= MaxAge THEN @ ELSE @ + 1]
  /\ req' = [c \in Requests |->
               IF req[c].op # "start" THEN req[c]
               ELSE IF req[c].wait < MaxWait THEN [req[c] EXCEPT !.wait = @ + 1]
               ELSE Idle]
  /\ UNCHANGED date

\* The registration dates and the conclave's day pass.
DatesPass ==
  /\ date' \in Dates
  /\ <<date.reg, date'.reg>> \in {<<"before", "before">>, <<"before", "open">>, <<"open", "open">>,
                                 <<"open", "after">>, <<"after", "after">>}
  /\ date.over => date'.over
  /\ date' # date
  /\ UNCHANGED <<row, req>>

-----------------------------------------------------------------------------
Serve(c) == \/ StartRound(c)
            \/ CloseRound(c)
            \/ CloseLastRound(c)
            \/ ApplyFix(c)
            \/ Refuse(c)

Planning ==
  \/ \E s \in EditStatuses \cup {Null}, o \in Overrides \cup {Null},
        n \in RoundCounts \cup {Null}, m \in MoveOptions \cup {Null},
        d \in Dates : UpdateConclave(s, o, n, m, d)
  \/ \E open \in BOOLEAN : SetRegistrationOpen(open)
  \/ CancelConclave
  \/ \E n \in RoundCounts : GenerateSchedule(n)
  \/ LockSchedule

Running ==
  \/ PauseRound
  \/ ResumeRound
  \/ CompleteConclave
  \/ \E mode \in Modes : SetProgressionMode(mode)
  \/ \E s \in ExtendOptions : ExtendRound(s)
  \/ \E m \in MoveOptions : SetMoveSeconds(m)

Next ==
  \/ Planning
  \/ Running
  \/ \E c \in Requests : \/ \E n \in 1..MaxRounds : AskStart(c, n)
                         \/ AskClose(c)
                         \/ ReadForFix(c)
                         \/ Serve(c)
  \/ Sweep
  \/ Tick
  \/ DatesPass

Spec == Init /\ [][Next]_vars

\* Time passes, the minute's sweep runs, and a request in flight is served or
\* given up: nothing else is promised, and no admin has to do anything.
Fairness == /\ WF_vars(Tick)
            /\ WF_vars(Sweep)
            /\ WF_vars(DatesPass)
            /\ \A c \in Requests : WF_vars(Serve(c))

FairSpec == Spec /\ Fairness
-----------------------------------------------------------------------------
(* Properties                                                              *)

TypeOK == /\ row \in RowType
          /\ date \in DateType
          /\ req \in [Requests -> ReqType]

Live == row.status = "running"

\* A conclave runs only on a generated and locked schedule, on an anchored
\* round of it: no order of generating, locking, starting, completing and
\* editing (short of an edit that writes `running' itself) runs another one.
SeatedWhileRunning ==
  Live => /\ row.schedule
          /\ row.locked
          /\ row.round \in 1..row.rounds
          /\ row.age # Null

\* The clock never counts from the future, and never shows a round the
\* schedule does not have, however the row was paused, pinned or re-anchored.
ClockSound ==
  Live /\ Anchored(row) => /\ IntoRound(row) >= 0
                           /\ LiveRound(row) \in row.round..row.rounds

\* The live round never goes back, whatever the admins do and however late a
\* request that was read or timed earlier gets the lock (startRound's "Rounds
\* only move forward").
ForwardOnly == [][Live /\ Live' => LiveRound(row)' >= LiveRound(row)]_vars

\* No step skips a round, not even a shorter move break set during a longer
\* one. Excepted is a change of mode while paused, which can.
NoSkip ==
  [][Live /\ Live' /\ ~(row.paused /\ row'.mode # row.mode)
       => LiveRound(row)' <= LiveRound(row) + 1]_vars

Talking == Live /\ Phase(row) \in TalkPhases

\* Table time is wall-clock time outside pauses: pausing, resuming, switching
\* mode, extending, changing the move break and pinning neither give nor take
\* a minute of a round that is being talked in.
TalkTimeKept ==
  [][Talking /\ Talking' /\ LiveRound(row)' = LiveRound(row)
       => IntoRound(row)' = IntoRound(row) + (IF Tick /\ ~row.paused THEN 1 ELSE 0)]_vars

\* In automatic mode the sweep completes a conclave only after the last round,
\* its extension and the grace: neither a pinned anchor nor the 24-hour rule
\* ends one early.
NeverCutShort ==
  [][Live /\ row'.status = "completed" /\ ~row'.completedAt /\ row.mode = "automatic"
       => /\ LiveRound(row) = row.rounds
          /\ IntoRound(row) > Talk + LiveExtension(row) + Grace]_vars

\* A conclave that is neither paused nor handed between modes for ever does
\* not run for ever, in either mode, though no admin does anything.
LeftAloneEnds ==
  \A m \in Modes : []<>~(Live /\ row.mode = m /\ ~row.paused)

\* Some listConclaves has read a row to correct, and may yet write over whatever
\* the row says by then, opening registration if open.
CorrectionToCome(open) == \E c \in Requests : req[c].op = "fix" /\ req[c].open \in open

OpensNoMore == (row.schedule => ~row.regOpen) /\ ~CorrectionToCome({TRUE})

\* Generating tables closes registration for good, unless a correction that was
\* read while it could still be opened is yet to be written: without one, the step
\* that generates the tables closes it, no later step, of however many requests,
\* opens it, and no later read of the list takes up a correction that would.
ClosedForGood == [][OpensNoMore /\ row'.schedule => OpensNoMore']_vars

Settled == /\ row.status = "completed"
           /\ row.completedAt \/ row.round > 0
           /\ ~CorrectionToCome(BOOLEAN)

\* A conclave that an admin completed, or that ran, stays completed, unless a
\* correction that was read before is yet to be written: no edit, lock, late start
\* or close reopens it, and listConclaves, in any number of requests, no longer
\* takes it for one that was never played.
CompletedStays == [][Settled => Settled']_vars

\* What a conclave goes through, seen from outside.
Life == INSTANCE ConclaveLife WITH
          Rounds <- MaxRounds,
          stage  <- CASE Live                       -> "live"
                      [] row.status = "completed"   -> "over"
                      [] row.status \notin {"running", "completed"} -> "planned",
          round  <- IF Live THEN LiveRound(row) ELSE 0

ImplementsLife == Life!Spec

\* What the API says of cancelling: "Terminal."
CancelIsTerminal == [][row.status = "cancelled" => row'.status = "cancelled"]_vars

\* What evaluateConclaveStatus says of registration: "Generating tables (or locking
\* them) closes registration for good."
ClosedOnceGenerated == row.schedule => ~row.regOpen

\* What listConclaves says it corrects: 'a "completed" that no admin set and no round
\* ran', and no other.
OnlyUnplayedHealed ==
  [][row.status = "completed" /\ (row.completedAt \/ row.round > 0)
       => row'.status = "completed"]_vars

\* What closeRound's comment says of its early return: "this round's talk phase
\* has already ended (we're already in the move break ...)".
EndedMeansOver == Live /\ AlreadyEnded(row) => Phase(row) \notin TalkPhases
=============================================================================

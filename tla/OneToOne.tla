------------------------------ MODULE OneToOne ------------------------------
(***************************************************************************)
(* 1-2-1 meetings: members ask each other for one, the invited one answers *)
(* and either cancels; every instance of the server sweeps the accepted    *)
(* ones that are due and reminds both.                                     *)
(*                                                                         *)
(* A transaction is short beside a tick of the clock, the period of the    *)
(* sweep: time stands while one is open.                                   *)
(***************************************************************************)
EXTENDS Integers, FiniteSets, Sequences

CONSTANTS Members,
          Pairs,       \* bound: who asks whom
          Slots,       \* slots for requests in flight, on any instance
          Instances,   \* of the server, each with a sweep of its own
          Month, Window, Slack, \* MONTH_MS, WINDOW_MS and PAST_SLACK_MS, in ticks
          Ahead,       \* bound: how many ticks ahead a meeting is asked for
          MaxMeetings, \* bound: the meetings ever asked for
          MaxTime,     \* bound: the last tick
          MaxCrashes,  \* bound: sweeps that end with their instance
          Null

ASSUME MeetingAssumption == /\ Month \in Nat /\ Window \in Nat /\ Slack \in Nat /\ Ahead \subseteq Int
                            /\ Pairs \subseteq Members \X Members
                            /\ MaxMeetings \in Nat /\ MaxTime \in Nat /\ MaxCrashes \in Nat

VARIABLES
  meetings, \* the one_to_ones table, in the order of the rows
  asking,   \* the requests past their checks
  sending,  \* what each sweep has claimed and has yet to send: a meeting and a member
  reminded, \* how often each member was reminded of each meeting
  now,
  gaps,     \* the ticks at which no instance was up to sweep
  crashes

vars == <<meetings, asking, sending, reminded, now, gaps, crashes>>

Times == -Slack..MaxTime

Statuses == {"pending", "accepted", "declined", "cancelled"}

\* created and at are createdAt and proposedAt; answered is when it was accepted.
Meeting == [from : Members, to : Members, at : Times, created : Times,
            status : Statuses, answered : Times, reminderSent : BOOLEAN]

Request == [from : Members, to : Members, at : Times]

Init ==
  /\ meetings = <<>>
  /\ asking = [s \in Slots |-> Null]
  /\ sending = [i \in Instances |-> {}]
  /\ reminded = [x \in (1..MaxMeetings) \X Members |-> 0]
  /\ now = 0 /\ gaps = {} /\ crashes = 0

-----------------------------------------------------------------------------
(* Asking and answering                                                    *)

Prior(from, to) == {k \in DOMAIN meetings : meetings[k].from = from /\ meetings[k].to = to}

\* The advisory lock of the pair, held until the transaction ends.
PairLocked(from, to) ==
  \E s \in Slots : asking[s] # Null /\ asking[s].from = from /\ asking[s].to = to

InFlight == Cardinality({s \in Slots : asking[s] # Null})

\* Slip: without the lock.
CreateUnlocked(s, r) ==
  /\ asking[s] = Null /\ Len(meetings) + InFlight < MaxMeetings
  /\ <<r.from, r.to>> \in Pairs /\ r.from # r.to
  /\ r.at >= now - Slack /\ r.at - now \in Ahead
  /\ \A k \in Prior(r.from, r.to) : meetings[k].status # "pending"
  /\ Cardinality({k \in Prior(r.from, r.to) : meetings[k].created >= now - Month}) < 2
  /\ asking' = [asking EXCEPT ![s] = r]
  /\ UNCHANGED <<meetings, sending, reminded, now, gaps, crashes>>

\* create: the time is not past, and under the pair's lock no request of theirs
\* is pending and fewer than two were made this month ...
Create(s, r) ==
  /\ asking[s] = Null /\ Len(meetings) + InFlight < MaxMeetings
  /\ <<r.from, r.to>> \in Pairs /\ r.from # r.to
  /\ r.at >= now - Slack /\ r.at - now \in Ahead
  /\ ~PairLocked(r.from, r.to)
  /\ \A k \in Prior(r.from, r.to) : meetings[k].status # "pending"
  /\ Cardinality({k \in Prior(r.from, r.to) : meetings[k].created >= now - Month}) < 2
  /\ asking' = [asking EXCEPT ![s] = r]
  /\ UNCHANGED <<meetings, sending, reminded, now, gaps, crashes>>

\* ... and the row, and the commit.
Insert(s) ==
  /\ asking[s] # Null
  /\ LET r == asking[s]
     IN meetings' = Append(meetings, [from |-> r.from, to |-> r.to, at |-> r.at, created |-> now,
                                      status |-> "pending", answered |-> now,
                                      reminderSent |-> FALSE])
  /\ asking' = [asking EXCEPT ![s] = Null]
  /\ UNCHANGED <<sending, reminded, now, gaps, crashes>>

\* NEXT.
MayBecome(status) == CASE status = "pending"  -> {"accepted", "declined", "cancelled"}
                       [] status = "accepted" -> {"cancelled"}
                       [] OTHER -> {}

\* respond, under the row's lock: the invited member accepts or declines, either
\* cancels.
Respond(k, m, status) ==
  /\ m \in {meetings[k].from, meetings[k].to}
  /\ status \in {"accepted", "declined"} => m = meetings[k].to
  /\ status \in MayBecome(meetings[k].status)
  /\ meetings' = [meetings EXCEPT ![k].status = status,
                                      ![k].answered = IF status = "accepted" THEN now ELSE @]
  /\ UNCHANGED <<asking, sending, reminded, now, gaps, crashes>>

-----------------------------------------------------------------------------
(* Reminders                                                               *)

\* Slip: reminds an hour ahead, and not later.
DueAhead == {k \in DOMAIN meetings : /\ meetings[k].status = "accepted"
                                     /\ ~meetings[k].reminderSent
                                     /\ meetings[k].at = now + Window}

\* Slip: does not ask whether another instance has claimed it.
DueAgain == {k \in DOMAIN meetings : /\ meetings[k].status = "accepted"
                                     /\ meetings[k].at >= now /\ meetings[k].at <= now + Window}

Due == {k \in DOMAIN meetings : /\ meetings[k].status = "accepted"
                                /\ ~meetings[k].reminderSent
                                /\ meetings[k].at >= now /\ meetings[k].at <= now + Window}

\* sweepReminders: one UPDATE claims every meeting that is due ...
Claim(i) ==
  /\ Due # {}
  /\ meetings' = [k \in DOMAIN meetings |->
                    IF k \in Due THEN [meetings[k] EXCEPT !.reminderSent = TRUE] ELSE meetings[k]]
  /\ sending' = [sending EXCEPT ![i] =
                   @ \cup UNION {{k} \X {meetings[k].from, meetings[k].to} : k \in Due}]
  /\ UNCHANGED <<asking, reminded, now, gaps, crashes>>

\* ... and both members are told, one after the other.
Send(i, x) ==
  /\ x \in sending[i]
  /\ reminded' = [reminded EXCEPT ![x] = @ + 1]
  /\ sending' = [sending EXCEPT ![i] = @ \ {x}]
  /\ UNCHANGED <<meetings, asking, now, gaps, crashes>>

\* The instance stops in the middle: what it had claimed is not sent.
Crash(i) ==
  /\ sending[i] # {} /\ crashes < MaxCrashes
  /\ sending' = [sending EXCEPT ![i] = {}]
  /\ crashes' = crashes + 1
  /\ UNCHANGED <<meetings, asking, reminded, now, gaps>>

-----------------------------------------------------------------------------
\* An instance that is up sweeps once in every period; it may be that none is.
Tick ==
  /\ now < MaxTime
  /\ \A s \in Slots : asking[s] = Null
  /\ now' = now + 1
  /\ gaps' = IF Due = {} THEN gaps ELSE gaps \cup {now}
  /\ UNCHANGED <<meetings, asking, sending, reminded, crashes>>

Next == \/ \E s \in Slots : Insert(s) \/ \E r \in Request : Create(s, r)
        \/ \E k \in DOMAIN meetings, m \in Members, status \in Statuses : Respond(k, m, status)
        \/ \E i \in Instances : Claim(i) \/ Crash(i) \/ \E x \in sending[i] : Send(i, x)
        \/ Tick

Spec == Init /\ [][Next]_vars

-----------------------------------------------------------------------------
(* Properties                                                              *)

TypeOK ==
  /\ meetings \in Seq(Meeting)
  /\ asking \in [Slots -> Request \cup {Null}]
  /\ sending \in [Instances -> SUBSET ((1..MaxMeetings) \X Members)]
  /\ reminded \in [(1..MaxMeetings) \X Members -> Nat]
  /\ now \in 0..MaxTime /\ gaps \subseteq 0..MaxTime /\ crashes \in 0..MaxCrashes

\* However many requests come at once, a member has one pending request to
\* another, and any third one comes more than a month after the first
\* (oneToOnes.service.ts:40-55).
NotPestered ==
  \A from, to \in Members :
    LET prior == Prior(from, to)
    IN /\ Cardinality({k \in prior : meetings[k].status = "pending"}) <= 1
       /\ \A j, k, l \in prior : j < k /\ k < l => meetings[l].created > meetings[j].created + Month

\* Of several instances that sweep at once, one reminds, and each of the two once
\* (oneToOnes.service.ts:138-142).
RemindedOnce == \A x \in DOMAIN reminded :
  reminded[x] + Cardinality({i \in Instances : x \in sending[i]}) <= 1

\* A meeting that was accepted before it was to begin was claimed by then, if an
\* instance was up for one sweep in between (oneToOnes.service.ts:143-155).
RemindedInTime ==
  \A k \in DOMAIN meetings :
    LET mt == meetings[k]
    IN mt.status = "accepted" /\ mt.at < now /\ ~mt.reminderSent =>
         \A t \in 0..mt.at : t >= mt.answered /\ t >= mt.at - Window => t \in gaps
=============================================================================

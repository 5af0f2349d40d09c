--------------------------- MODULE OneToOneProofs ---------------------------
(***************************************************************************)
(* Proofs about OneToOne, for any number of members, meetings and          *)
(* instances, any month and any window: nobody is pestered, nobody is      *)
(* reminded twice, and no reminder is missed while an instance is up.      *)
(***************************************************************************)
EXTENDS OneToOne, FiniteSetTheorems, TLAPS

Flying == {s \in Slots : asking[s] # Null}

\* The meetings, with the requests past their checks, keep to their bound.
Bounded == IsFiniteSet(Flying) /\ Len(meetings) + Cardinality(Flying) <= MaxMeetings

TypeInv == TypeOK /\ Bounded

\* One request of a pair is past its checks at a time, and what it found then is
\* still so: time stands.
AskedAlone ==
  \A s \in Slots : asking[s] # Null =>
    LET prior == Prior(asking[s].from, asking[s].to)
    IN /\ \A t \in Slots : asking[t] # Null /\ asking[t].from = asking[s].from
                             /\ asking[t].to = asking[s].to => t = s
       /\ \A k \in prior : meetings[k].status # "pending"
       /\ \A j, k \in prior : meetings[j].created >= now - Month
                                /\ meetings[k].created >= now - Month => j = k

InOrder == /\ \A j, k \in DOMAIN meetings : j < k => meetings[j].created <= meetings[k].created
           /\ \A k \in DOMAIN meetings : meetings[k].created <= now

\* NotPestered, said of the pairs of rows.
Spared ==
  \A j, k \in DOMAIN meetings :
    meetings[j].from = meetings[k].from /\ meetings[j].to = meetings[k].to =>
      /\ meetings[j].status = "pending" /\ meetings[k].status = "pending" => j = k
      /\ \A l \in DOMAIN meetings :
           meetings[l].from = meetings[k].from /\ meetings[l].to = meetings[k].to /\ j < k /\ k < l
             => meetings[l].created > meetings[j].created + Month

AskInv == AskedAlone /\ InOrder /\ Spared

\* Only what was claimed is sent, by the instance that has claimed it.
SendInv ==
  \A x \in (1..MaxMeetings) \X Members :
    /\ \A i, j \in Instances : x \in sending[i] /\ x \in sending[j] => i = j
    /\ reminded[x] = 0 \/ (reminded[x] = 1 /\ \A i \in Instances : x \notin sending[i])
    /\ reminded[x] # 0 \/ (\E i \in Instances : x \in sending[i])
         => x[1] \in DOMAIN meetings /\ meetings[x[1]].reminderSent

\* Nobody was up at any tick at which a meeting not yet claimed was due.
DueInv ==
  \A k \in DOMAIN meetings :
    meetings[k].status = "accepted" /\ ~meetings[k].reminderSent =>
      \A t \in 0..meetings[k].at :
        t >= meetings[k].answered /\ t >= meetings[k].at - Window /\ t < now => t \in gaps

-----------------------------------------------------------------------------
(* Types                                                                   *)

LEMMA TypeInit == Init => TypeInv
<1> SUFFICES ASSUME Init PROVE TypeInv
  OBVIOUS
<1>1. Flying = {}
  BY DEF Init, Flying
<1>2. Bounded
  BY <1>1, FS_EmptySet, MeetingAssumption DEF Bounded, Init
<1> QED
  BY <1>2, MeetingAssumption DEF Init, TypeInv, TypeOK

LEMMA CreateTyped ==
  ASSUME TypeInv, NEW s \in Slots, NEW r \in Request, Create(s, r)
  PROVE  TypeInv'
<1>1. asking' = [asking EXCEPT ![s] = r] /\ asking[s] = Null
      /\ UNCHANGED <<meetings, sending, reminded, now, gaps, crashes>>
  BY DEF Create
<1>2. TypeOK'
  BY <1>1 DEF TypeInv, TypeOK
<1>3. Flying' = Flying \cup {s} \/ Flying' = Flying
  BY <1>1 DEF Flying, TypeInv, TypeOK
<1>4. s \notin Flying /\ IsFiniteSet(Flying)
  BY <1>1 DEF Flying, TypeInv, Bounded
<1>5. Len(meetings) + Cardinality(Flying) < MaxMeetings
  BY DEF Create, InFlight, Flying
<1>6. IsFiniteSet(Flying \cup {s}) /\ Cardinality(Flying \cup {s}) = Cardinality(Flying) + 1
  BY <1>4, FS_AddElement
<1>7. Cardinality(Flying) \in Nat /\ Len(meetings) \in Nat
  BY <1>4, FS_CardinalityType DEF TypeInv, TypeOK
<1>8. IsFiniteSet(Flying') /\ Cardinality(Flying') <= Cardinality(Flying) + 1
      /\ Cardinality(Flying') \in Nat
  <2>1. CASE Flying' = Flying \cup {s}
    BY <2>1, <1>6, <1>7
  <2>2. CASE Flying' = Flying
    BY <2>2, <1>4, <1>7
  <2> QED
    BY <1>3, <2>1, <2>2
<1>9. Bounded'
  BY <1>1, <1>5, <1>7, <1>8, MeetingAssumption DEF Bounded
<1> QED
  BY <1>2, <1>9 DEF TypeInv

LEMMA RowsTyped ==
  ASSUME TypeInv
  PROVE  /\ Len(meetings) \in Nat /\ DOMAIN meetings = 1..Len(meetings)
         /\ \A k \in DOMAIN meetings :
              meetings[k].created \in Int /\ meetings[k].at \in Int /\ meetings[k].answered \in Int
<1>1. meetings \in Seq(Meeting)
  BY DEF TypeInv, TypeOK
<1>2. Times \subseteq Int
  BY MeetingAssumption DEF Times
<1>3. \A k \in DOMAIN meetings : meetings[k] \in Meeting
  BY <1>1
<1>4. Len(meetings) \in Nat /\ DOMAIN meetings = 1..Len(meetings)
  BY <1>1
<1> QED
  BY <1>2, <1>3, <1>4 DEF Meeting

\* The row that a request becomes.
RowOf(r) == [from |-> r.from, to |-> r.to, at |-> r.at, created |-> now,
             status |-> "pending", answered |-> now, reminderSent |-> FALSE]

LEMMA Inserted ==
  ASSUME TypeInv, NEW s \in Slots, Insert(s)
  PROVE  /\ asking[s] \in Request
         /\ RowOf(asking[s]) \in Meeting
         /\ meetings' = Append(meetings, RowOf(asking[s]))
         /\ Len(meetings') = Len(meetings) + 1
         /\ DOMAIN meetings = 1..Len(meetings) /\ DOMAIN meetings' = 1..(Len(meetings) + 1)
         /\ \A k \in DOMAIN meetings : meetings'[k] = meetings[k]
         /\ meetings'[Len(meetings) + 1] = RowOf(asking[s])
<1>1. asking[s] \in Request
  BY DEF Insert, TypeInv, TypeOK
<1>2. now \in Times
  BY MeetingAssumption DEF TypeInv, TypeOK, Times
<1>3. RowOf(asking[s]) \in Meeting
  BY <1>1, <1>2 DEF RowOf, Meeting, Request, Statuses
<1>4. meetings' = Append(meetings, RowOf(asking[s]))
  BY DEF Insert, RowOf
<1>5. meetings \in Seq(Meeting)
  BY DEF TypeInv, TypeOK
<1> HIDE DEF RowOf
<1> QED
  BY <1>1, <1>3, <1>4, <1>5

LEMMA InsertTyped ==
  ASSUME TypeInv, NEW s \in Slots, Insert(s)
  PROVE  TypeInv'
<1>1. asking' = [asking EXCEPT ![s] = Null] /\ asking[s] # Null
      /\ UNCHANGED <<sending, reminded, now, gaps, crashes>>
  BY DEF Insert
<1>2. meetings' \in Seq(Meeting)
  <2> DEFINE new == RowOf(asking[s])
  <2>1. new \in Meeting /\ meetings' = Append(meetings, new)
    BY Inserted
  <2>2. meetings \in Seq(Meeting)
    BY DEF TypeInv, TypeOK
  <2> HIDE DEF new
  <2> QED
    BY <2>1, <2>2
<1>3. TypeOK'
  BY <1>1, <1>2 DEF TypeInv, TypeOK
<1>4. Flying' = Flying \ {s} /\ s \in Flying /\ IsFiniteSet(Flying)
  BY <1>1 DEF Flying, TypeInv, TypeOK, Bounded
<1>5. IsFiniteSet(Flying \ {s}) /\ Cardinality(Flying \ {s}) = Cardinality(Flying) - 1
  BY <1>4, FS_RemoveElement
<1>6. Cardinality(Flying) \in Nat /\ Len(meetings) \in Nat
  BY <1>4, FS_CardinalityType DEF TypeInv, TypeOK
<1>7. Bounded'
  BY <1>4, <1>5, <1>6, Inserted, MeetingAssumption DEF Bounded, TypeInv
<1> QED
  BY <1>3, <1>7 DEF TypeInv

\* Answering and claiming change rows, and the requests in flight stay.
LEMMA BoundedStays ==
  ASSUME TypeInv, Len(meetings') = Len(meetings), UNCHANGED asking
  PROVE  Bounded'
  BY DEF TypeInv, Bounded, Flying

LEMMA Responded ==
  ASSUME TypeInv, NEW k \in DOMAIN meetings, NEW m \in Members, NEW status \in Statuses,
         Respond(k, m, status)
  PROVE  /\ meetings' \in Seq(Meeting) /\ Len(meetings') = Len(meetings)
         /\ DOMAIN meetings' = DOMAIN meetings /\ DOMAIN meetings = 1..Len(meetings)
         /\ status # "pending" /\ meetings'[k].status = status
         /\ status = "accepted" => meetings'[k].answered = now
         /\ \A j \in DOMAIN meetings :
              /\ meetings'[j].from = meetings[j].from /\ meetings'[j].to = meetings[j].to
              /\ meetings'[j].at = meetings[j].at /\ meetings'[j].created = meetings[j].created
              /\ meetings'[j].reminderSent = meetings[j].reminderSent
              /\ j # k => meetings'[j] = meetings[j]
<1> DEFINE row == [meetings[k] EXCEPT !.status = status,
                                      !.answered = IF status = "accepted" THEN now ELSE @]
<1>1. meetings \in Seq(Meeting) /\ meetings[k] \in Meeting
  BY DEF TypeInv, TypeOK
<1>2. now \in Times
  BY MeetingAssumption DEF TypeInv, TypeOK, Times
<1>3. row \in Meeting
  BY <1>1, <1>2 DEF Meeting
<1>4. meetings' = [meetings EXCEPT ![k] = row]
  BY <1>1 DEF Respond
<1>5. status # "pending"
  BY DEF Respond, MayBecome
<1>6. /\ row.status = status /\ row.from = meetings[k].from /\ row.to = meetings[k].to
      /\ row.at = meetings[k].at /\ row.created = meetings[k].created
      /\ row.reminderSent = meetings[k].reminderSent
      /\ status = "accepted" => row.answered = now
  BY <1>1 DEF Meeting
<1> HIDE DEF row
<1> QED
  BY <1>1, <1>3, <1>4, <1>5, <1>6

LEMMA Claimed ==
  ASSUME TypeInv, NEW i \in Instances, Claim(i)
  PROVE  /\ meetings' \in Seq(Meeting) /\ Len(meetings') = Len(meetings)
         /\ DOMAIN meetings' = DOMAIN meetings /\ DOMAIN meetings = 1..Len(meetings)
         /\ \A j \in DOMAIN meetings :
              /\ meetings'[j].from = meetings[j].from /\ meetings'[j].to = meetings[j].to
              /\ meetings'[j].at = meetings[j].at /\ meetings'[j].created = meetings[j].created
              /\ meetings'[j].status = meetings[j].status
              /\ meetings'[j].answered = meetings[j].answered
              /\ j \in Due => meetings'[j].reminderSent
              /\ j \notin Due => meetings'[j] = meetings[j]
<1>1. meetings \in Seq(Meeting) /\ \A j \in DOMAIN meetings : meetings[j] \in Meeting
  BY DEF TypeInv, TypeOK
<1>2. meetings' = [j \in DOMAIN meetings |->
                    IF j \in Due THEN [meetings[j] EXCEPT !.reminderSent = TRUE] ELSE meetings[j]]
  BY DEF Claim
<1>3. \A j \in DOMAIN meetings : [meetings[j] EXCEPT !.reminderSent = TRUE] \in Meeting
  BY <1>1 DEF Meeting
<1>4. \A j \in DOMAIN meetings : meetings'[j] \in Meeting
  BY <1>1, <1>2, <1>3
<1>5. DOMAIN meetings = 1..Len(meetings) /\ Len(meetings) \in Nat
  BY <1>1
<1>6. meetings' \in [1..Len(meetings) -> Meeting]
  BY <1>2, <1>4, <1>5
<1>7. meetings' \in Seq(Meeting) /\ Len(meetings') = Len(meetings)
      /\ DOMAIN meetings' = DOMAIN meetings
  BY <1>5, <1>6
<1>8. ASSUME NEW j \in DOMAIN meetings
      PROVE  /\ meetings'[j].from = meetings[j].from /\ meetings'[j].to = meetings[j].to
             /\ meetings'[j].at = meetings[j].at /\ meetings'[j].created = meetings[j].created
             /\ meetings'[j].status = meetings[j].status
             /\ meetings'[j].answered = meetings[j].answered
             /\ j \in Due => meetings'[j].reminderSent
             /\ j \notin Due => meetings'[j] = meetings[j]
  BY <1>1, <1>2, <1>8 DEF Meeting
<1> QED
  BY <1>5, <1>7, <1>8

LEMMA TypeStep ==
  ASSUME TypeInv, [Next]_vars
  PROVE  TypeInv'
<1>1. ASSUME NEW s \in Slots, NEW r \in Request, Create(s, r)
      PROVE  TypeInv'
  BY <1>1, CreateTyped
<1>2. ASSUME NEW s \in Slots, Insert(s)
      PROVE  TypeInv'
  BY <1>2, InsertTyped
<1>3. ASSUME NEW k \in DOMAIN meetings, NEW m \in Members, NEW status \in Statuses,
             Respond(k, m, status)
      PROVE  TypeInv'
  <2>1. meetings' \in Seq(Meeting) /\ Len(meetings') = Len(meetings)
    BY <1>3, Responded
  <2>2. UNCHANGED <<asking, sending, reminded, now, gaps, crashes>>
    BY <1>3 DEF Respond
  <2> QED
    BY <2>1, <2>2, BoundedStays DEF TypeInv, TypeOK
<1>4. ASSUME NEW i \in Instances, Claim(i)
      PROVE  TypeInv'
  <2>1. meetings' \in Seq(Meeting) /\ Len(meetings') = Len(meetings)
        /\ DOMAIN meetings = 1..Len(meetings)
    BY <1>4, Claimed
  <2>2. UNCHANGED <<asking, reminded, now, gaps, crashes>>
    BY <1>4 DEF Claim
  <2> DEFINE claimed == UNION {{k} \X {meetings[k].from, meetings[k].to} : k \in Due}
  <2>3. Len(meetings) <= MaxMeetings /\ Len(meetings) \in Nat
    BY FS_CardinalityType, MeetingAssumption DEF TypeInv, TypeOK, Bounded
  <2>4. claimed \subseteq (1..MaxMeetings) \X Members
    <3>1. \A k \in Due : k \in 1..MaxMeetings
      BY <2>1, <2>3, MeetingAssumption DEF Due
    <3>2. \A k \in Due : meetings[k] \in Meeting
      BY DEF Due, TypeInv, TypeOK
    <3> QED
      BY <3>1, <3>2 DEF Meeting
  <2>5. sending' = [sending EXCEPT ![i] = @ \cup claimed]
    BY <1>4 DEF Claim
  <2> HIDE DEF claimed
  <2>6. sending' \in [Instances -> SUBSET ((1..MaxMeetings) \X Members)]
    BY <2>4, <2>5 DEF TypeInv, TypeOK
  <2> QED
    BY <2>1, <2>2, <2>6, BoundedStays DEF TypeInv, TypeOK
<1>5. ASSUME NEW i \in Instances, NEW x \in sending[i], Send(i, x)
      PROVE  TypeInv'
  <2>1. UNCHANGED <<meetings, asking, now, gaps, crashes>>
    BY <1>5 DEF Send
  <2>2. sending[i] \in SUBSET ((1..MaxMeetings) \X Members)
    BY DEF TypeInv, TypeOK
  <2>3. reminded[x] \in Nat /\ x \in (1..MaxMeetings) \X Members
    BY <2>2 DEF TypeInv, TypeOK
  <2>4. reminded' \in [(1..MaxMeetings) \X Members -> Nat]
    BY <1>5, <2>3 DEF Send, TypeInv, TypeOK
  <2>5. sending' \in [Instances -> SUBSET ((1..MaxMeetings) \X Members)]
    BY <1>5, <2>2 DEF Send, TypeInv, TypeOK
  <2> QED
    BY <2>1, <2>4, <2>5, BoundedStays DEF TypeInv, TypeOK
<1>6. ASSUME NEW i \in Instances, Crash(i)
      PROVE  TypeInv'
  <2>1. UNCHANGED <<meetings, asking, reminded, now, gaps>>
    BY <1>6 DEF Crash
  <2>2. crashes' \in 0..MaxCrashes
        /\ sending' \in [Instances -> SUBSET ((1..MaxMeetings) \X Members)]
    BY <1>6, MeetingAssumption DEF Crash, TypeInv, TypeOK
  <2> QED
    BY <2>1, <2>2, BoundedStays DEF TypeInv, TypeOK
<1>7. CASE Tick
  <2>1. UNCHANGED <<meetings, asking, sending, reminded, crashes>>
    BY <1>7 DEF Tick
  <2>2. now' \in 0..MaxTime /\ gaps' \subseteq 0..MaxTime
    BY <1>7, MeetingAssumption DEF Tick, TypeInv, TypeOK
  <2> QED
    BY <2>1, <2>2, BoundedStays DEF TypeInv, TypeOK
<1>8. CASE UNCHANGED vars
  BY <1>8 DEF vars, TypeInv, TypeOK, Bounded, Flying
<1> QED
  BY <1>1, <1>2, <1>3, <1>4, <1>5, <1>6, <1>7, <1>8 DEF Next

-----------------------------------------------------------------------------
(* Nobody is pestered                                                      *)

\* Two of a set are one where it has fewer than two.
LEMMA FewerThanTwo ==
  ASSUME NEW S, IsFiniteSet(S), Cardinality(S) < 2, NEW j \in S, NEW k \in S
  PROVE  j = k
<1> SUFFICES ASSUME j # k PROVE FALSE
  OBVIOUS
<1>1. IsFiniteSet({j}) /\ Cardinality({j}) = 1
  BY FS_Singleton
<1> DEFINE J == {j}
<1>2. IsFiniteSet(J) /\ Cardinality(J) = 1 /\ k \notin J
  BY <1>1
<1>3. J \cup {k} \in SUBSET S
  OBVIOUS
<1> HIDE DEF J
<1>4. Cardinality(J \cup {k}) = 2
  BY <1>2, FS_AddElement
<1>5. Cardinality(J \cup {k}) <= Cardinality(S)
  BY <1>3, FS_Subset
<1>6. Cardinality(S) \in Nat
  BY FS_CardinalityType
<1> QED
  BY <1>4, <1>5, <1>6

LEMMA AtMostOne ==
  ASSUME NEW S, \A j, k \in S : j = k
  PROVE  IsFiniteSet(S) /\ Cardinality(S) \in {0, 1}
<1>1. CASE S = {}
  BY <1>1, FS_EmptySet
<1>2. ASSUME NEW j \in S PROVE IsFiniteSet(S) /\ Cardinality(S) \in {0, 1}
  <2>1. S = {j}
    OBVIOUS
  <2> QED
    BY <2>1, FS_Singleton
<1> QED
  BY <1>1, <1>2

\* What Create has checked of the pair.
LEMMA CreateChecked ==
  ASSUME TypeInv, NEW s \in Slots, NEW r \in Request, Create(s, r)
  PROVE  /\ \A t \in Slots : asking[t] # Null => ~(asking[t].from = r.from /\ asking[t].to = r.to)
         /\ \A k \in Prior(r.from, r.to) : meetings[k].status # "pending"
         /\ \A j, k \in Prior(r.from, r.to) :
              meetings[j].created >= now - Month /\ meetings[k].created >= now - Month => j = k
<1> DEFINE recent == {k \in Prior(r.from, r.to) : meetings[k].created >= now - Month}
<1>1. Cardinality(recent) < 2
  BY DEF Create
<1>2. IsFiniteSet(recent)
  <2>1. meetings \in Seq(Meeting) /\ Len(meetings) \in Nat
    BY DEF TypeInv, TypeOK
  <2>2. DOMAIN meetings = 1..Len(meetings)
    BY <2>1
  <2>3. IsFiniteSet(1..Len(meetings))
    BY <2>1, FS_Interval
  <2>4. recent \subseteq DOMAIN meetings
    BY DEF Prior
  <2> QED
    BY <2>2, <2>3, <2>4, FS_Subset
<1>3. \A j, k \in recent : j = k
  BY <1>1, <1>2, FewerThanTwo
<1> QED
  BY <1>3 DEF Create, PairLocked

LEMMA CreateAsks ==
  ASSUME TypeInv, AskInv, NEW s \in Slots, NEW r \in Request, Create(s, r)
  PROVE  AskInv'
<1>1. asking' = [asking EXCEPT ![s] = r] /\ asking[s] = Null /\ UNCHANGED <<meetings, now>>
  BY DEF Create
<1>2. Prior(r.from, r.to)' = Prior(r.from, r.to)
  BY <1>1 DEF Prior
<1>3. ASSUME NEW t \in Slots, asking'[t] # Null
      PROVE  \/ t = s /\ asking'[t] = r
             \/ t # s /\ asking'[t] = asking[t] /\ asking[t] # Null
  BY <1>1, <1>3 DEF TypeInv, TypeOK
<1>4. AskedAlone'
  <2> SUFFICES ASSUME NEW t \in Slots, asking'[t] # Null
               PROVE  LET prior == Prior(asking'[t].from, asking'[t].to)
                      IN /\ \A u \in Slots : asking'[u] # Null /\ asking'[u].from = asking'[t].from
                                               /\ asking'[u].to = asking'[t].to => u = t
                         /\ \A k \in prior : meetings[k].status # "pending"
                         /\ \A j, k \in prior : meetings[j].created >= now - Month
                                                /\ meetings[k].created >= now - Month => j = k
    BY <1>1 DEF AskedAlone, Prior
  <2>1. CASE t = s
    BY <2>1, <1>3, CreateChecked
  <2>2. CASE t # s
    <3>1. asking'[t] = asking[t] /\ asking[t] # Null
      BY <2>2, <1>3
    <3>2. ~(asking[t].from = r.from /\ asking[t].to = r.to)
      BY <3>1, CreateChecked
    <3> QED
      BY <1>3, <3>1, <3>2 DEF AskInv, AskedAlone
  <2> QED
    BY <2>1, <2>2
<1> QED
  BY <1>1, <1>4 DEF AskInv, InOrder, Spared

LEMMA InsertAsks ==
  ASSUME TypeInv, AskInv, NEW s \in Slots, Insert(s)
  PROVE  AskInv'
<1> DEFINE n == Len(meetings)
           r == asking[s]
<1>1. /\ asking' = [asking EXCEPT ![s] = Null] /\ r # Null /\ r \in Request
      /\ UNCHANGED now
  BY Inserted DEF Insert
<1>2. /\ n \in Nat /\ DOMAIN meetings = 1..n /\ DOMAIN meetings' = 1..(n + 1)
      /\ \A k \in 1..n : meetings'[k] = meetings[k]
      /\ meetings'[n + 1].from = r.from /\ meetings'[n + 1].to = r.to
      /\ meetings'[n + 1].created = now /\ meetings'[n + 1].status = "pending"
  <2>1. /\ meetings'[n + 1] = RowOf(r) /\ DOMAIN meetings = 1..n /\ DOMAIN meetings' = 1..(n + 1)
        /\ \A k \in DOMAIN meetings : meetings'[k] = meetings[k]
    BY Inserted
  <2>2. n \in Nat
    BY RowsTyped
  <2>3. /\ RowOf(r).from = r.from /\ RowOf(r).to = r.to /\ RowOf(r).created = now
        /\ RowOf(r).status = "pending"
    BY DEF RowOf
  <2> QED
    BY <2>1, <2>2, <2>3
<1>3. \A k \in 1..n : meetings[k].created \in Int
  BY <1>2, RowsTyped
<1>4. now \in Int /\ Month \in Nat
  BY MeetingAssumption DEF TypeInv, TypeOK
<1>5. \A k \in 1..n : meetings[k].from = r.from /\ meetings[k].to = r.to => k \in Prior(r.from, r.to)
  BY <1>2 DEF Prior
<1>6. /\ \A t \in Slots : asking[t] # Null /\ asking[t].from = r.from /\ asking[t].to = r.to => t = s
      /\ \A k \in Prior(r.from, r.to) : meetings[k].status # "pending"
      /\ \A j, k \in Prior(r.from, r.to) : meetings[j].created >= now - Month
                                          /\ meetings[k].created >= now - Month => j = k
  BY <1>1 DEF AskInv, AskedAlone
<1>7. AskedAlone'
  <2> SUFFICES ASSUME NEW t \in Slots, asking'[t] # Null
               PROVE  LET prior == {k \in DOMAIN meetings' : meetings'[k].from = asking'[t].from
                                                            /\ meetings'[k].to = asking'[t].to}
                      IN /\ \A u \in Slots : asking'[u] # Null /\ asking'[u].from = asking'[t].from
                                               /\ asking'[u].to = asking'[t].to => u = t
                         /\ \A k \in prior : meetings'[k].status # "pending"
                         /\ \A j, k \in prior : meetings'[j].created >= now - Month
                                                /\ meetings'[k].created >= now - Month => j = k
    BY <1>1 DEF AskedAlone, Prior
  <2>1. t # s /\ asking'[t] = asking[t] /\ asking[t] # Null
    BY <1>1 DEF TypeInv, TypeOK
  <2>2. ~(asking[t].from = r.from /\ asking[t].to = r.to)
    BY <1>6, <2>1
  <2>3. \A k \in DOMAIN meetings' : meetings'[k].from = asking'[t].from
                                      /\ meetings'[k].to = asking'[t].to
                       => k \in Prior(asking[t].from, asking[t].to) /\ meetings'[k] = meetings[k]
    BY <1>2, <2>1, <2>2 DEF Prior
  <2>4. \A u \in Slots : asking'[u] # Null => asking'[u] = asking[u]
    BY <1>1 DEF TypeInv, TypeOK
  <2> DEFINE before == Prior(asking[t].from, asking[t].to)
  <2>5. /\ \A u \in Slots : asking[u] # Null /\ asking[u].from = asking[t].from
                                 /\ asking[u].to = asking[t].to => u = t
        /\ \A k \in before : meetings[k].status # "pending"
        /\ \A j, k \in before : meetings[j].created >= now - Month
                                /\ meetings[k].created >= now - Month => j = k
    BY <2>1 DEF AskInv, AskedAlone
  <2> HIDE DEF before
  <2>6. \A k \in DOMAIN meetings' : meetings'[k].from = asking'[t].from
                                      /\ meetings'[k].to = asking'[t].to
                       => k \in before /\ meetings'[k] = meetings[k]
    BY <2>3 DEF before
  <2> QED
    BY <2>1, <2>4, <2>5, <2>6
<1>8. InOrder'
  BY <1>1, <1>2, <1>3, <1>4 DEF AskInv, InOrder
<1>9. Spared'
  <2> SUFFICES ASSUME NEW j \in 1..(n + 1), NEW k \in 1..(n + 1),
                      meetings'[j].from = meetings'[k].from, meetings'[j].to = meetings'[k].to
               PROVE  /\ meetings'[j].status = "pending" /\ meetings'[k].status = "pending" => j = k
                      /\ \A l \in 1..(n + 1) :
                           meetings'[l].from = meetings'[k].from /\ meetings'[l].to = meetings'[k].to
                             /\ j < k /\ k < l
                             => meetings'[l].created > meetings'[j].created + Month
    BY <1>2 DEF Spared
  <2>1. meetings'[j].status = "pending" /\ meetings'[k].status = "pending" => j = k
    BY <1>2, <1>5, <1>6 DEF AskInv, Spared
  <2>2. ASSUME NEW l \in 1..(n + 1), meetings'[l].from = meetings'[k].from,
               meetings'[l].to = meetings'[k].to, j < k, k < l
        PROVE  meetings'[l].created > meetings'[j].created + Month
    <3>1. j \in 1..n /\ k \in 1..n /\ meetings'[j] = meetings[j] /\ meetings'[k] = meetings[k]
      BY <2>2, <1>2
    <3>2. CASE l \in 1..n
      BY <3>1, <3>2, <2>2, <1>2 DEF AskInv, Spared
    <3>3. CASE l = n + 1
      <4>1. j \in Prior(r.from, r.to) /\ k \in Prior(r.from, r.to)
        BY <3>1, <3>3, <2>2, <1>2, <1>5
      <4>2. meetings[j].created <= meetings[k].created
        BY <3>1, <2>2, <1>2 DEF AskInv, InOrder
      <4>3. ~(meetings[j].created >= now - Month /\ meetings[k].created >= now - Month)
        BY <4>1, <2>2, <1>6
      <4>4. meetings[j].created < now - Month
        BY <4>2, <4>3, <3>1, <1>3, <1>4
      <4> QED
        BY <4>4, <3>1, <3>3, <1>2, <1>3, <1>4
    <3> QED
      BY <3>2, <3>3, <1>2
  <2> QED
    BY <2>1, <2>2
<1> QED
  BY <1>7, <1>8, <1>9 DEF AskInv

\* A row that is written keeps its pair and its time, and is not pending again.
LEMMA RowsChangeAsks ==
  ASSUME TypeInv, AskInv, UNCHANGED <<asking, now>>, DOMAIN meetings' = DOMAIN meetings,
         \A k \in DOMAIN meetings :
           /\ meetings'[k].from = meetings[k].from /\ meetings'[k].to = meetings[k].to
           /\ meetings'[k].created = meetings[k].created
           /\ meetings'[k].status = "pending" => meetings[k].status = "pending"
  PROVE  AskInv'
<1>1. \A from, to : Prior(from, to)' = Prior(from, to)
  BY DEF Prior
<1>2. AskedAlone'
  BY DEF AskInv, AskedAlone, Prior
<1>3. InOrder'
  BY DEF AskInv, InOrder
<1>4. Spared'
  BY DEF AskInv, Spared
<1> QED
  BY <1>2, <1>3, <1>4 DEF AskInv

LEMMA AskStep ==
  ASSUME TypeInv, AskInv, [Next]_vars
  PROVE  AskInv'
<1>1. ASSUME NEW s \in Slots, NEW r \in Request, Create(s, r)
      PROVE  AskInv'
  BY <1>1, CreateAsks
<1>2. ASSUME NEW s \in Slots, Insert(s)
      PROVE  AskInv'
  BY <1>2, InsertAsks
<1>3. ASSUME NEW k \in DOMAIN meetings, NEW m \in Members, NEW status \in Statuses,
             Respond(k, m, status)
      PROVE  AskInv'
  <2>1. UNCHANGED <<asking, now>>
    BY <1>3 DEF Respond
  <2>2. \A j \in DOMAIN meetings : meetings'[j].status = "pending" => meetings[j].status = "pending"
    BY <1>3, Responded
  <2> QED
    BY <1>3, <2>1, <2>2, Responded, RowsChangeAsks
<1>4. ASSUME NEW i \in Instances, Claim(i)
      PROVE  AskInv'
  <2>1. UNCHANGED <<asking, now>>
    BY <1>4 DEF Claim
  <2> QED
    BY <1>4, <2>1, Claimed, RowsChangeAsks
<1>5. ASSUME NEW i \in Instances, Crash(i) \/ \E x \in sending[i] : Send(i, x)
      PROVE  AskInv'
  <2>1. UNCHANGED <<meetings, asking, now>>
    BY <1>5 DEF Crash, Send
  <2> QED
    BY <2>1 DEF AskInv, AskedAlone, InOrder, Spared, Prior
<1>6. CASE Tick
  <2>1. UNCHANGED meetings /\ now' = now + 1 /\ \A s \in Slots : asking'[s] = Null
    BY <1>6 DEF Tick
  <2>2. \A k \in DOMAIN meetings : meetings[k].created \in Int
    BY RowsTyped
  <2>3. now \in Int
    BY DEF TypeInv, TypeOK
  <2>4. AskedAlone'
    BY <2>1 DEF AskedAlone
  <2>5. InOrder'
    BY <2>1, <2>2, <2>3 DEF AskInv, InOrder
  <2> QED
    BY <2>1, <2>4, <2>5 DEF AskInv, Spared
<1>7. CASE UNCHANGED vars
  BY <1>7 DEF vars, AskInv, AskedAlone, InOrder, Spared, Prior
<1> QED
  BY <1>1, <1>2, <1>3, <1>4, <1>5, <1>6, <1>7 DEF Next

LEMMA AskImplies ==
  ASSUME TypeInv, AskInv
  PROVE  NotPestered
<1> SUFFICES ASSUME NEW from \in Members, NEW to \in Members
             PROVE  LET prior == Prior(from, to)
                    IN /\ Cardinality({k \in prior : meetings[k].status = "pending"}) <= 1
                       /\ \A j, k, l \in prior :
                            j < k /\ k < l => meetings[l].created > meetings[j].created + Month
  BY DEF NotPestered
<1> DEFINE pending == {k \in Prior(from, to) : meetings[k].status = "pending"}
<1>1. \A j, k \in pending : j = k
  BY DEF AskInv, Spared, Prior
<1>2. Cardinality(pending) \in {0, 1}
  BY <1>1, AtMostOne
<1>3. \A j, k, l \in Prior(from, to) :
        j < k /\ k < l => meetings[l].created > meetings[j].created + Month
  BY DEF AskInv, Spared, Prior
<1> QED
  BY <1>2, <1>3

-----------------------------------------------------------------------------
(* Nobody is reminded twice, and nobody is missed                          *)

LEMMA ClaimSends ==
  ASSUME TypeInv, SendInv, NEW i \in Instances, Claim(i)
  PROVE  SendInv'
<1> DEFINE claimed == UNION {{k} \X {meetings[k].from, meetings[k].to} : k \in Due}
<1>1. sending' = [sending EXCEPT ![i] = @ \cup claimed] /\ UNCHANGED reminded
  BY DEF Claim
<1>2. \A x \in claimed : x[1] \in Due
  OBVIOUS
<1>3. \A k \in Due : k \in DOMAIN meetings /\ ~meetings[k].reminderSent
  BY DEF Due
<1> HIDE DEF claimed
<1>4. \A j \in Instances : sending'[j] = IF j = i THEN sending[j] \cup claimed ELSE sending[j]
  BY <1>1 DEF TypeInv, TypeOK
<1>5. /\ DOMAIN meetings' = DOMAIN meetings
      /\ \A k \in Due : meetings'[k].reminderSent
      /\ \A k \in DOMAIN meetings : meetings[k].reminderSent => meetings'[k].reminderSent
  BY Claimed, <1>3
<1> SUFFICES ASSUME NEW x \in (1..MaxMeetings) \X Members
             PROVE  /\ \A j, k \in Instances : x \in sending'[j] /\ x \in sending'[k] => j = k
                    /\ reminded[x] = 0 \/ (reminded[x] = 1 /\ \A j \in Instances : x \notin sending'[j])
                    /\ reminded[x] # 0 \/ (\E j \in Instances : x \in sending'[j])
                         => x[1] \in DOMAIN meetings' /\ meetings'[x[1]].reminderSent
  BY <1>1 DEF SendInv
<1>6. CASE x \in claimed
  <2>1. x[1] \in Due /\ ~meetings[x[1]].reminderSent
    BY <1>2, <1>3, <1>6
  <2>2. reminded[x] = 0 /\ \A j \in Instances : x \notin sending[j]
    BY <2>1 DEF SendInv
  <2>3. \A j \in Instances : x \in sending'[j] => j = i
    BY <2>2, <1>4
  <2>4. x[1] \in DOMAIN meetings' /\ meetings'[x[1]].reminderSent
    BY <2>1, <1>3, <1>5
  <2> QED
    BY <2>2, <2>3, <2>4
<1>7. CASE x \notin claimed
  <2>1. \A j \in Instances : x \in sending'[j] <=> x \in sending[j]
    BY <1>4, <1>7
  <2> QED
    BY <2>1, <1>5 DEF SendInv
<1> QED
  BY <1>6, <1>7

LEMMA SendOnce ==
  ASSUME TypeInv, SendInv, NEW i \in Instances, NEW x \in sending[i], Send(i, x)
  PROVE  SendInv'
<1>1. /\ reminded' = [reminded EXCEPT ![x] = @ + 1] /\ UNCHANGED meetings
      /\ sending' = [sending EXCEPT ![i] = @ \ {x}]
  BY DEF Send
<1>2. x \in (1..MaxMeetings) \X Members
  BY DEF TypeInv, TypeOK
<1>3. \A j \in Instances : sending'[j] = IF j = i THEN sending[j] \ {x} ELSE sending[j]
  BY <1>1 DEF TypeInv, TypeOK
<1>4. /\ reminded[x] = 0 /\ \A j \in Instances : x \in sending[j] => j = i
      /\ x[1] \in DOMAIN meetings /\ meetings[x[1]].reminderSent
  BY <1>2 DEF SendInv
<1>5. \A y \in (1..MaxMeetings) \X Members : reminded'[y] = IF y = x THEN 1 ELSE reminded[y]
  BY <1>1, <1>2, <1>4 DEF TypeInv, TypeOK
<1> SUFFICES ASSUME NEW y \in (1..MaxMeetings) \X Members
             PROVE  /\ \A j, k \in Instances : y \in sending'[j] /\ y \in sending'[k] => j = k
                    /\ reminded'[y] = 0 \/ (reminded'[y] = 1 /\ \A j \in Instances : y \notin sending'[j])
                    /\ reminded'[y] # 0 \/ (\E j \in Instances : y \in sending'[j])
                         => y[1] \in DOMAIN meetings /\ meetings[y[1]].reminderSent
  BY <1>1 DEF SendInv
<1>6. CASE y = x
  BY <1>3, <1>4, <1>5, <1>6
<1>7. CASE y # x
  <2>1. (\A j \in Instances : y \in sending'[j] <=> y \in sending[j]) /\ reminded'[y] = reminded[y]
    BY <1>3, <1>5, <1>7
  <2> QED
    BY <2>1 DEF SendInv
<1> QED
  BY <1>6, <1>7

LEMMA SendStep ==
  ASSUME TypeInv, SendInv, [Next]_vars
  PROVE  SendInv'
<1>1. ASSUME NEW s \in Slots, NEW r \in Request, Create(s, r)
      PROVE  SendInv'
  BY <1>1 DEF Create, SendInv
<1>2. ASSUME NEW s \in Slots, Insert(s)
      PROVE  SendInv'
  <2>1. UNCHANGED <<sending, reminded>>
    BY <1>2 DEF Insert
  <2>2. \A k \in DOMAIN meetings : k \in DOMAIN meetings' /\ meetings'[k] = meetings[k]
    BY <1>2, Inserted, RowsTyped
  <2> QED
    BY <2>1, <2>2 DEF SendInv
<1>3. ASSUME NEW k \in DOMAIN meetings, NEW m \in Members, NEW status \in Statuses,
             Respond(k, m, status)
      PROVE  SendInv'
  <2>1. UNCHANGED <<sending, reminded>>
    BY <1>3 DEF Respond
  <2>2. \A j \in DOMAIN meetings : /\ j \in DOMAIN meetings'
                                   /\ meetings'[j].reminderSent = meetings[j].reminderSent
    BY <1>3, Responded
  <2> QED
    BY <2>1, <2>2 DEF SendInv
<1>4. ASSUME NEW i \in Instances, Claim(i)
      PROVE  SendInv'
  BY <1>4, ClaimSends
<1>5. ASSUME NEW i \in Instances, NEW x \in sending[i], Send(i, x)
      PROVE  SendInv'
  BY <1>5, SendOnce
<1>6. ASSUME NEW i \in Instances, Crash(i)
      PROVE  SendInv'
  <2>1. UNCHANGED <<meetings, reminded>> /\ \A j \in Instances : sending'[j] \subseteq sending[j]
    BY <1>6 DEF Crash, TypeInv, TypeOK
  <2> QED
    BY <2>1 DEF SendInv
<1>7. CASE Tick
  BY <1>7 DEF Tick, SendInv
<1>8. CASE UNCHANGED vars
  BY <1>8 DEF vars, SendInv
<1> QED
  BY <1>1, <1>2, <1>3, <1>4, <1>5, <1>6, <1>7, <1>8 DEF Next

LEMMA SendImplies ==
  ASSUME TypeInv, SendInv
  PROVE  RemindedOnce
<1> SUFFICES ASSUME NEW x \in (1..MaxMeetings) \X Members
             PROVE  reminded[x] + Cardinality({i \in Instances : x \in sending[i]}) <= 1
  BY DEF RemindedOnce, TypeInv, TypeOK
<1> DEFINE senders == {i \in Instances : x \in sending[i]}
<1>1. Cardinality(senders) \in {0, 1}
  BY AtMostOne DEF SendInv
<1>2. CASE reminded[x] = 0
  BY <1>1, <1>2
<1>3. CASE reminded[x] = 1 /\ senders = {}
  <2>1. Cardinality(senders) = 0
    BY <1>3, FS_EmptySet
  <2> QED
    BY <2>1, <1>3
<1> QED
  BY <1>2, <1>3 DEF SendInv

\* A meeting that is not yet claimed in a tick at which it is due leaves a gap.
LEMMA DueStep ==
  ASSUME TypeInv, DueInv, [Next]_vars
  PROVE  DueInv'
<1>1. ASSUME NEW s \in Slots, NEW r \in Request, Create(s, r)
      PROVE  DueInv'
  BY <1>1 DEF Create, DueInv
<1>2. ASSUME NEW s \in Slots, Insert(s)
      PROVE  DueInv'
  <2>1. UNCHANGED <<now, gaps>>
    BY <1>2 DEF Insert
  <2>2. \A k \in DOMAIN meetings' : \/ k \in DOMAIN meetings /\ meetings'[k] = meetings[k]
                                    \/ meetings'[k].status = "pending"
    <3>1. /\ DOMAIN meetings = 1..Len(meetings) /\ Len(meetings) \in Nat
          /\ DOMAIN meetings' = 1..(Len(meetings) + 1)
          /\ \A k \in DOMAIN meetings : meetings'[k] = meetings[k]
          /\ meetings'[Len(meetings) + 1] = RowOf(asking[s])
      BY <1>2, Inserted, RowsTyped
    <3>2. RowOf(asking[s]).status = "pending"
      BY DEF RowOf
    <3> QED
      BY <3>1, <3>2
  <2> QED
    BY <2>1, <2>2 DEF DueInv
<1>3. ASSUME NEW k \in DOMAIN meetings, NEW m \in Members, NEW status \in Statuses,
             Respond(k, m, status)
      PROVE  DueInv'
  <2>1. UNCHANGED <<now, gaps>> /\ now \in Int
    BY <1>3 DEF Respond, TypeInv, TypeOK
  <2>2. /\ \A j \in DOMAIN meetings : j # k => meetings'[j] = meetings[j]
        /\ meetings'[k].status = "accepted" => meetings'[k].answered = now
        /\ DOMAIN meetings' = DOMAIN meetings
    BY <1>3, Responded
  <2> QED
    BY <2>1, <2>2 DEF DueInv
<1>4. ASSUME NEW i \in Instances, Claim(i)
      PROVE  DueInv'
  <2>1. UNCHANGED <<now, gaps>>
    BY <1>4 DEF Claim
  <2>2. /\ DOMAIN meetings' = DOMAIN meetings
        /\ \A j \in DOMAIN meetings : meetings'[j].reminderSent \/ meetings'[j] = meetings[j]
    BY <1>4, Claimed
  <2> QED
    BY <2>1, <2>2 DEF DueInv
<1>5. ASSUME NEW i \in Instances, Crash(i) \/ \E x \in sending[i] : Send(i, x)
      PROVE  DueInv'
  BY <1>5 DEF Crash, Send, DueInv
<1>6. CASE Tick
  <2>1. /\ UNCHANGED meetings /\ now' = now + 1 /\ now \in Int /\ gaps \subseteq gaps'
        /\ Due # {} => now \in gaps'
    BY <1>6 DEF Tick, TypeInv, TypeOK
  <2> SUFFICES ASSUME NEW k \in DOMAIN meetings, meetings[k].status = "accepted",
                      ~meetings[k].reminderSent, NEW t \in 0..meetings[k].at,
                      t >= meetings[k].answered, t >= meetings[k].at - Window, t < now + 1
               PROVE  t \in gaps'
    BY <2>1 DEF DueInv
  <2>2. meetings[k].at \in Int /\ Window \in Nat
    BY RowsTyped, MeetingAssumption
  <2>3. CASE t < now
    BY <2>1, <2>3 DEF DueInv
  <2>4. CASE t = now
    <3>1. k \in Due
      BY <2>1, <2>2, <2>4 DEF Due
    <3> QED
      BY <3>1, <2>1, <2>4
  <2> QED
    BY <2>1, <2>3, <2>4
<1>7. CASE UNCHANGED vars
  BY <1>7 DEF vars, DueInv
<1> QED
  BY <1>1, <1>2, <1>3, <1>4, <1>5, <1>6, <1>7 DEF Next

LEMMA DueImplies ==
  ASSUME TypeInv, DueInv
  PROVE  RemindedInTime
<1>1. \A k \in DOMAIN meetings : meetings[k].at \in Int
  BY RowsTyped
<1>2. now \in Int
  BY DEF TypeInv, TypeOK
<1> QED
  BY <1>1, <1>2 DEF DueInv, RemindedInTime

-----------------------------------------------------------------------------
LEMMA InitHolds == Init => TypeInv /\ AskInv /\ SendInv /\ DueInv
<1> SUFFICES ASSUME Init PROVE TypeInv /\ AskInv /\ SendInv /\ DueInv
  OBVIOUS
<1>1. TypeInv
  BY TypeInit
<1>2. DOMAIN meetings = {}
  BY DEF Init
<1>3. AskInv
  BY <1>2 DEF Init, AskInv, AskedAlone, InOrder, Spared
<1>4. SendInv
  BY DEF Init, SendInv
<1>5. DueInv
  BY <1>2 DEF DueInv
<1> QED
  BY <1>1, <1>3, <1>4, <1>5

\* However many requests are made at once, a member has one pending request to
\* another and makes no third within a month: the pair's lock keeps what Create
\* has checked true until the row is there (oneToOnes.service.ts:40-71).
THEOREM NobodyPestered == Spec => []NotPestered
<1>1. Init => TypeInv /\ AskInv
  BY InitHolds
<1>2. TypeInv /\ AskInv /\ [Next]_vars => (TypeInv /\ AskInv)'
  BY TypeStep, AskStep
<1>3. TypeInv /\ AskInv => NotPestered
  BY AskImplies
<1> QED
  BY <1>1, <1>2, <1>3, PTL DEF Spec

\* However many instances sweep at once and wherever they stop, each of the two
\* is reminded at most once: the update that claims a row claims it for one
\* instance (oneToOnes.service.ts:143-164).
THEOREM RemindersOnce == Spec => []RemindedOnce
<1>1. Init => TypeInv /\ SendInv
  BY InitHolds
<1>2. TypeInv /\ SendInv /\ [Next]_vars => (TypeInv /\ SendInv)'
  BY TypeStep, SendStep
<1>3. TypeInv /\ SendInv => RemindedOnce
  BY SendImplies
<1> QED
  BY <1>1, <1>2, <1>3, PTL DEF Spec

\* A meeting accepted in time was claimed before it began, unless nobody swept in
\* between, for any window: the sweep looks a whole window ahead, not at one
\* moment of it (oneToOnes.service.ts:143-155).
THEOREM RemindersInTime == Spec => []RemindedInTime
<1>1. Init => TypeInv /\ DueInv
  BY InitHolds
<1>2. TypeInv /\ DueInv /\ [Next]_vars => (TypeInv /\ DueInv)'
  BY TypeStep, DueStep
<1>3. TypeInv /\ DueInv => RemindedInTime
  BY DueImplies
<1> QED
  BY <1>1, <1>2, <1>3, PTL DEF Spec
=============================================================================

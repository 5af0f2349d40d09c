----------------------------- MODULE Attendance -----------------------------
(***************************************************************************)
(* Who was present at the tables.  A member and the captain of their table *)
(* both mark them, offline, on their own phones; the phones upload what    *)
(* the server has not acknowledged, as often as it takes, and the server   *)
(* merges both marks in one row.                                           *)
(*                                                                         *)
(* The phone chooses the row: the server looks for it, locks it and writes *)
(* it by the id in the upload, while it checks the schedule by the member  *)
(* and the round in the same upload, and never compares the two.  Phones   *)
(* form one id per member and round (docs/API.md), which the server does   *)
(* not know; here any phones may use an id for different seats.            *)
(*                                                                         *)
(* The transaction runs READ COMMITTED: `select ... for update' sees the   *)
(* rows there are when it begins (Begin) and locks them until the commit;  *)
(* a row that appears later is neither seen nor locked.  Nobody changes a  *)
(* locked row, so the merge with its latest version is one step (Save).    *)
(***************************************************************************)
EXTENDS FiniteSets

CONSTANTS Members,
          Seats,       \* whom and when a mark is about: a member in a round
          MemberIn,    \* the member of a seat
          CaptainOf,   \* the captain of a seat's table by the schedule; Null if there is none
          Ids,         \* of attendance rows
          Marks,       \* bound: <<p, i>> if the phone of p may hold a mark with the id i
          MarkOf,      \* the seat it marks there: a phone uses an id for one seat
          Uploads,     \* slots for uploads in flight, on any server
          Null

ASSUME AttendanceAssumption ==
  /\ Null \notin Members
  /\ MemberIn \in [Seats -> Members]
  /\ CaptainOf \in [Seats -> Members \cup {Null}]
  /\ Marks \subseteq Members \X Ids
  /\ MarkOf \in [Marks -> Seats]

VARIABLES
  phone,   \* the marks on the phones
  stored,  \* the rows of the attendance table
  up       \* the uploads in flight

vars == <<phone, stored, up>>

\* What a mark says, present or absent, is compared by nothing and left out.
PhoneMark == [synced : BOOLEAN]

\* A stored mark: who made it, and of which seat. The second is not in the table,
\* and kept for the properties.
Mark == [by : Members, of : Seats]

\* A row is about one seat, and has a place for either side's mark.
Row == [of : Seats, captain : Mark \cup {Null}, self : Mark \cup {Null}]

\* An upload: whose, its marks by their ids, how far it got, and the rows it has locked.
Upload == [by : Members, marks : [Ids -> Seats \cup {Null}],
           step : {"sent", "begun", "saved"}, known : SUBSET Ids]

ASSUME NullAssumption == Null \notin Seats \cup PhoneMark \cup Mark \cup Row \cup Upload

Init == /\ phone  = [pi \in Marks |-> Null]
        /\ stored = [i \in Ids |-> Null]
        /\ up     = [c \in Uploads |-> Null]

-----------------------------------------------------------------------------
\* Slip: any captain marks anyone.
MayMarkAnyTable(by, s) ==
  /\ CaptainOf[s] # Null
  /\ by = MemberIn[s] \/ \E t \in Seats : CaptainOf[t] = by

\* Oneself, if seated, or a member of the table one captains (canMarkAttendance).
MayMark(by, s) ==
  /\ CaptainOf[s] # Null
  /\ by = MemberIn[s] \/ by = CaptainOf[s]

MarksIn(u) == {i \in Ids : u.marks[i] # Null}

Valid(u) == {i \in MarksIn(u) : MayMark(u.by, u.marks[i])}

\* Slip: only what was valid is acknowledged.
AcknowledgedValid(u) == Valid(u)

\* A rejected mark is acknowledged too, so that its phone stops retrying.
Acknowledged(u) == MarksIn(u)

\* Slip: the captain's mark comes with the latest upload or not at all.
MergedLatest(prior, by, s) ==
  LET mark == [by |-> by, of |-> s]
  IN  IF by = MemberIn[s]
        THEN [of |-> s, captain |-> Null, self |-> mark]
        ELSE [of |-> s, captain |-> mark, self |-> IF prior = Null THEN Null ELSE prior.self]

\* Slip: the row stands where its other mark should.
MergedRow(prior, by, s) ==
  LET mark == [by |-> by, of |-> s]
  IN  IF by = MemberIn[s] THEN [of |-> s, captain |-> prior, self |-> mark]
                          ELSE [of |-> s, captain |-> mark, self |-> prior]

\* Each side has a place of its own, and keeps what the other one said; whom the
\* row is about is rewritten.
Merged(prior, by, s) ==
  LET mark == [by |-> by, of |-> s]
  IN  IF by = MemberIn[s]
        THEN [of |-> s, captain |-> IF prior = Null THEN Null ELSE prior.captain, self |-> mark]
        ELSE [of |-> s, captain |-> mark, self |-> IF prior = Null THEN Null ELSE prior.self]

\* The row's latest version, if the upload saw the row at all.
Prior(u, i) == IF i \in u.known THEN stored[i] ELSE Null

-----------------------------------------------------------------------------
(* The phones                                                              *)

Unsynced(p, i) == /\ <<p, i>> \in Marks
                  /\ phone[<<p, i>>] # Null
                  /\ ~phone[<<p, i>>].synced

\* A member is marked, or marked again.
MarkOnPhone(pi) ==
  /\ phone' = [phone EXCEPT ![pi] = [synced |-> FALSE]]
  /\ UNCHANGED <<stored, up>>

\* A phone uploads what is not acknowledged, perhaps again while an earlier
\* upload is still under way.
Send(c, p) ==
  /\ up[c] = Null
  /\ \E i \in Ids : Unsynced(p, i)
  /\ up' = [up EXCEPT ![c] =
              [by |-> p, step |-> "sent", known |-> {},
               marks |-> [i \in Ids |-> IF Unsynced(p, i) THEN MarkOf[<<p, i>>] ELSE Null]]]
  /\ UNCHANGED <<phone, stored>>

\* The phone marks what the answer names as synced, and never sends it again.
Answer(c) ==
  /\ up[c] # Null
  /\ up[c].step = "saved"
  /\ phone' = [pi \in Marks |->
                 IF /\ pi[1] = up[c].by
                    /\ pi[2] \in Acknowledged(up[c])
                    /\ phone[pi] # Null
                   THEN [synced |-> TRUE]
                   ELSE phone[pi]]
  /\ up' = [up EXCEPT ![c] = Null]
  /\ UNCHANGED stored

\* The request, its transaction or its answer is lost.
Lose(c) ==
  /\ up[c] # Null
  /\ up' = [up EXCEPT ![c] = Null]
  /\ UNCHANGED <<phone, stored>>

-----------------------------------------------------------------------------
(* The server: one transaction for an upload's marks                       *)

\* It finds and locks the rows that are there, by the ids in the upload.
Begin(c) ==
  /\ up[c] # Null
  /\ up[c].step = "sent"
  /\ up' = [up EXCEPT ![c].step = "begun",
                      ![c].known = {i \in Valid(up[c]) : stored[i] # Null}]
  /\ UNCHANGED <<phone, stored>>

\* Slip: acknowledged before it is written.
SaveNothing(c) ==
  /\ up[c] # Null
  /\ up[c].step = "begun"
  /\ up' = [up EXCEPT ![c].step = "saved"]
  /\ UNCHANGED <<phone, stored>>

\* It merges every valid mark with the row it found, inserts or overwrites the row
\* of that id, and commits.
Save(c) ==
  /\ up[c] # Null
  /\ up[c].step = "begun"
  /\ stored' = [i \in Ids |->
                  IF i \in Valid(up[c])
                    THEN Merged(Prior(up[c], i), up[c].by, up[c].marks[i])
                    ELSE stored[i]]
  /\ up' = [up EXCEPT ![c].step = "saved"]
  /\ UNCHANGED phone

-----------------------------------------------------------------------------
Next ==
  \/ \E pi \in Marks : MarkOnPhone(pi)
  \/ \E c \in Uploads : \/ \E p \in Members : Send(c, p)
                        \/ Begin(c)
                        \/ Save(c)
                        \/ Answer(c)
                        \/ Lose(c)

Spec == Init /\ [][Next]_vars

\* A phone with unacknowledged marks finds a free slot again and again, an upload
\* under way ends, and the network comes back: losses end.
Serve(c) == Begin(c) \/ Save(c) \/ Answer(c)

Fairness == /\ \A p \in Members : SF_vars(\E c \in Uploads : Send(c, p))
            /\ \A c \in Uploads : WF_vars(Serve(c) \/ Lose(c))
            /\ <>[][\A c \in Uploads : Lose(c) => Answer(c)]_vars

FairSpec == Spec /\ Fairness
-----------------------------------------------------------------------------
(* Properties                                                              *)

TypeOK == /\ phone \in [Marks -> PhoneMark \cup {Null}]
          /\ stored \in [Ids -> Row \cup {Null}]
          /\ up \in [Uploads -> Upload \cup {Null}]

Synced(p, i) == <<p, i>> \in Marks /\ phone[<<p, i>>] # Null /\ phone[<<p, i>>].synced

\* An upload that looked for the row before there was one, and will write it.
WritesBlindly(c, i) == /\ up[c] # Null
                       /\ up[c].step = "begun"
                       /\ i \in Valid(up[c]) \ up[c].known

\* What a captain or a member said is never dropped by a later upload with the
\* same id, of the other side, of another table or of the same phone, except by one
\* that began before the row was there.
MarksKept ==
  [][\A i \in Ids :
       stored[i] # Null /\ (\A c \in Uploads : ~WritesBlindly(c, i))
         => /\ stored'[i] # Null
            /\ stored[i].captain # Null => stored'[i].captain # Null
            /\ stored[i].self # Null => stored'[i].self # Null]_vars

\* Whether m was marked with the id i on its author's phone, and counts for the side.
MarkedBy(m, i, side) ==
  /\ <<m.by, i>> \in Marks /\ phone[<<m.by, i>>] # Null /\ m.of = MarkOf[<<m.by, i>>]
  /\ CASE side = "captain" -> m.by = CaptainOf[m.of] /\ m.by # MemberIn[m.of]
       [] side = "self"    -> m.by = MemberIn[m.of] /\ CaptainOf[m.of] # Null

\* Whatever phones use an id for, every mark in a row was made with its id on its
\* author's phone, of a seat that the author may mark on that side, and the row is
\* about the seat of one of them. So with an id that every phone uses for one seat,
\* nobody borrows another seat's captain.
MarksAreTheirs ==
  \A i \in Ids : stored[i] # Null =>
    LET r == stored[i]
    IN  /\ r.captain # Null => MarkedBy(r.captain, i, "captain")
        /\ r.self # Null => MarkedBy(r.self, i, "self")
        /\ \E m \in {r.captain, r.self} \ {Null} : m.of = r.of

\* "Commit first, then acknowledge": a phone forgets a mark the server took only
\* when there is a row with its id, whatever was lost or repeated before.
AckedIsStored ==
  \A p \in Members, i \in Ids :
    Synced(p, i) /\ MayMark(p, MarkOf[<<p, i>>]) => stored[i] # Null

\* Every mark is acknowledged in the end, a rejected one included, so that no
\* phone retries a mark for ever.
EverythingSynced ==
  \A pi \in Marks : phone[pi] # Null ~> Synced(pi[1], pi[2])

\* What the sync promises: "A captain's mark beats a member's self-mark,
\* whatever order they sync in."
CaptainBelieved ==
  \A p \in Members, i \in Ids :
    (Synced(p, i) /\ p = CaptainOf[MarkOf[<<p, i>>]] /\ p # MemberIn[MarkOf[<<p, i>>]])
      => stored[i].captain # Null

\* "Everything from the phone is UNTRUSTED and validated against the schedule": the
\* marks of a row are of the seat the row is about.
RowsAreValidated ==
  \A i \in Ids : stored[i] # Null =>
    \A m \in {stored[i].captain, stored[i].self} \ {Null} : m.of = stored[i].of
=============================================================================

-------------------------- MODULE AttendanceProofs --------------------------
(***************************************************************************)
(* Proofs about Attendance, for any tables, phones, use of ids and number  *)
(* of uploads.  The invariant: an upload carries only marks of its         *)
(* sender's phone, of the seats they were made for, and one that has been  *)
(* saved left a row for each of its valid marks.  Rows and marks on phones *)
(* never disappear, which keeps both true.                                 *)
(***************************************************************************)
EXTENDS Attendance, TLAPS

OnPhone(p, i) == <<p, i>> \in Marks /\ phone[<<p, i>>] # Null

\* Nobody can put marks into an upload but the phone it is from.
SentFromPhone ==
  \A c \in Uploads : up[c] # Null =>
    \A i \in MarksIn(up[c]) : OnPhone(up[c].by, i) /\ up[c].marks[i] = MarkOf[<<up[c].by, i>>]

SavedIsStored ==
  \A c \in Uploads : up[c] # Null /\ up[c].step = "saved" =>
    \A i \in Valid(up[c]) : stored[i] # Null

MarkInv == TypeOK /\ SentFromPhone /\ SavedIsStored /\ MarksAreTheirs /\ AckedIsStored

LEMMA MarkInit == Init => MarkInv
  BY DEF Init, MarkInv, TypeOK, SentFromPhone, SavedIsStored, MarksAreTheirs, AckedIsStored,
         Synced

\* What an upload says is of a seat.
LEMMA SentSeat ==
  ASSUME TypeOK, NEW c \in Uploads, up[c] # Null, NEW i \in Valid(up[c])
  PROVE  /\ i \in Ids /\ up[c].by \in Members
         /\ up[c].marks[i] \in Seats
         /\ [by |-> up[c].by, of |-> up[c].marks[i]] \in Mark
  BY DEF TypeOK, Upload, Valid, MarksIn, Mark

\* Saving writes a row for each valid mark, and touches no other.
LEMMA SaveRows ==
  ASSUME TypeOK, NEW c \in Uploads, Save(c), NEW i \in Ids
  PROVE  /\ stored'[i] \in Row \cup {Null}
         /\ i \notin Valid(up[c]) => stored'[i] = stored[i]
         /\ i \in Valid(up[c]) => stored'[i] # Null
<1>1. CASE i \notin Valid(up[c])
  BY <1>1 DEF Save, TypeOK
<1>2. CASE i \in Valid(up[c])
  <2> DEFINE by == up[c].by
             s == up[c].marks[i]
             mark == [by |-> by, of |-> s]
             prior == Prior(up[c], i)
  <2>1. s \in Seats /\ mark \in Mark
    BY <1>2, SentSeat DEF Save
  <2>2. prior \in Row \cup {Null}
    BY DEF TypeOK, Prior
  <2>3. stored'[i] = Merged(prior, by, s)
    BY <1>2 DEF Save
  <2> HIDE DEF by, s, prior
  <2>4. Merged(prior, by, s) \in Row
    BY <2>1, <2>2 DEF Merged, Row
  <2> QED
    BY <1>2, <2>3, <2>4, NullAssumption
<1> QED
  BY <1>1, <1>2

\* What a valid mark does to its row: the row is about the mark's seat, the mark takes
\* its side's place, and the other place is as the upload saw it, or empty.
LEMMA SaveMark ==
  ASSUME TypeOK, NEW c \in Uploads, Save(c), NEW i \in Ids, i \in Valid(up[c])
  PROVE  LET mark == [by |-> up[c].by, of |-> up[c].marks[i]]
         IN  /\ stored'[i].of = mark.of
             /\ mark.by = MemberIn[mark.of] =>
                  /\ stored'[i].self = mark
                  /\ stored'[i].captain = IF Prior(up[c], i) = Null THEN Null ELSE stored[i].captain
             /\ mark.by # MemberIn[mark.of] =>
                  /\ stored'[i].captain = mark
                  /\ stored'[i].self = IF Prior(up[c], i) = Null THEN Null ELSE stored[i].self
<1>1. stored'[i] = Merged(Prior(up[c], i), up[c].by, up[c].marks[i])
  BY DEF Save
<1>2. Prior(up[c], i) # Null => Prior(up[c], i) = stored[i]
  BY DEF Prior
<1> QED
  BY <1>1, <1>2 DEF Merged

\* No row disappears.
LEMMA RowsStay ==
  ASSUME MarkInv, [Next]_vars, NEW i \in Ids, stored[i] # Null
  PROVE  stored'[i] # Null
<1>1. ASSUME NEW c \in Uploads, Save(c)
      PROVE  stored'[i] # Null
  BY <1>1, SaveRows DEF MarkInv
<1> QED
  BY <1>1 DEF Next, vars, MarkOnPhone, Send, Begin, Answer, Lose

\* No mark disappears from its phone.
LEMMA PhonesKeep ==
  ASSUME TypeOK, [Next]_vars, NEW p, NEW i, OnPhone(p, i)
  PROVE  OnPhone(p, i)'
<1> DEFINE pi == <<p, i>>
<1>1. pi \in Marks /\ phone[pi] # Null
  BY DEF OnPhone
<1>0. \A b \in BOOLEAN : [synced |-> b] # Null
  BY NullAssumption DEF PhoneMark
<1>2. CASE UNCHANGED phone
  BY <1>1, <1>2 DEF OnPhone
<1>3. ASSUME NEW q \in Marks, MarkOnPhone(q)
      PROVE  phone'[pi] # Null
  BY <1>0, <1>1, <1>3 DEF MarkOnPhone, TypeOK
<1>4. ASSUME NEW c \in Uploads, Answer(c)
      PROVE  phone'[pi] # Null
  BY <1>0, <1>1, <1>4 DEF Answer
<1> QED
  BY <1>1, <1>2, <1>3, <1>4 DEF OnPhone, Next, vars, Send, Begin, Save, Lose

LEMMA TypeStep == MarkInv /\ [Next]_vars => TypeOK'
<1> SUFFICES ASSUME MarkInv, [Next]_vars
             PROVE  TypeOK'
  OBVIOUS
<1>0. TypeOK
  BY DEF MarkInv
<1>1. CASE UNCHANGED vars
  BY <1>0, <1>1 DEF TypeOK, vars
<1>2. ASSUME NEW pi \in Marks, MarkOnPhone(pi)
      PROVE  TypeOK'
  BY <1>0, <1>2 DEF MarkOnPhone, TypeOK, PhoneMark
<1>3. ASSUME NEW c \in Uploads, NEW p \in Members, Send(c, p)
      PROVE  TypeOK'
  <2> DEFINE marks == [i \in Ids |-> IF Unsynced(p, i) THEN MarkOf[<<p, i>>] ELSE Null]
  <2>1. marks \in [Ids -> Seats \cup {Null}]
    BY AttendanceAssumption DEF Unsynced
  <2>2. [by |-> p, step |-> "sent", known |-> {}, marks |-> marks] \in Upload
    BY <2>1 DEF Upload
  <2>3. up' = [up EXCEPT ![c] = [by |-> p, step |-> "sent", known |-> {}, marks |-> marks]]
    BY <1>3 DEF Send
  <2> HIDE DEF marks
  <2> QED
    BY <1>0, <1>3, <2>2, <2>3 DEF Send, TypeOK
<1>4. ASSUME NEW c \in Uploads, Begin(c)
      PROVE  TypeOK'
  <2> DEFINE known == {i \in Valid(up[c]) : stored[i] # Null}
  <2>1. up[c] \in Upload
    BY <1>0, <1>4 DEF TypeOK, Begin
  <2>2. known \in SUBSET Ids
    BY DEF Valid, MarksIn
  <2>3. up' = [up EXCEPT ![c] = [up[c] EXCEPT !.step = "begun", !.known = known]]
    BY <1>0, <1>4 DEF Begin, TypeOK
  <2> HIDE DEF known
  <2>4. [up[c] EXCEPT !.step = "begun", !.known = known] \in Upload
    BY <2>1, <2>2 DEF Upload
  <2> QED
    BY <1>0, <1>4, <2>3, <2>4 DEF Begin, TypeOK
<1>5. ASSUME NEW c \in Uploads, Save(c)
      PROVE  TypeOK'
  <2>1. \A i \in Ids : stored'[i] \in Row \cup {Null}
    BY <1>0, <1>5, SaveRows
  <2>2. stored' \in [Ids -> Row \cup {Null}]
    <3>1. stored' = [i \in Ids |-> stored'[i]]
      BY <1>5 DEF Save
    <3> QED
      BY <2>1, <3>1
  <2>3. [up[c] EXCEPT !.step = "saved"] \in Upload
    BY <1>0, <1>5 DEF TypeOK, Save, Upload
  <2>4. up' = [up EXCEPT ![c] = [up[c] EXCEPT !.step = "saved"]]
    BY <1>5 DEF Save
  <2> QED
    BY <1>0, <1>5, <2>2, <2>3, <2>4 DEF Save, TypeOK
<1>6. ASSUME NEW c \in Uploads, Answer(c)
      PROVE  TypeOK'
  <2>1. phone' \in [Marks -> PhoneMark \cup {Null}]
    BY <1>0, <1>6 DEF Answer, TypeOK, PhoneMark
  <2> QED
    BY <1>0, <1>6, <2>1 DEF Answer, TypeOK
<1>7. ASSUME NEW c \in Uploads, Lose(c)
      PROVE  TypeOK'
  BY <1>0, <1>7 DEF Lose, TypeOK
<1> QED
  BY <1>1, <1>2, <1>3, <1>4, <1>5, <1>6, <1>7 DEF Next

\* The marks and the sender of an upload never change.
LEMMA SameUpload ==
  ASSUME MarkInv, [Next]_vars, NEW c \in Uploads, up[c] # Null, up'[c] # Null
  PROVE  /\ up'[c].by = up[c].by /\ up'[c].marks = up[c].marks
         /\ MarksIn(up[c])' = MarksIn(up[c])
         /\ Valid(up[c])' = Valid(up[c])
<1>1. up[c] \in Upload /\ up \in [Uploads -> Upload \cup {Null}]
  BY DEF MarkInv, TypeOK
<1>2. up'[c].by = up[c].by /\ up'[c].marks = up[c].marks
  <2>1. ASSUME NEW d \in Uploads, Begin(d) \/ Save(d)
        PROVE  up'[c].by = up[c].by /\ up'[c].marks = up[c].marks
    BY <1>1, <2>1 DEF Begin, Save, Upload
  <2> QED
    BY <1>1, <2>1 DEF Next, vars, MarkOnPhone, Send, Answer, Lose
<1> QED
  BY <1>2 DEF Valid, MarksIn

LEMMA SentStep == MarkInv /\ [Next]_vars => SentFromPhone'
<1> SUFFICES ASSUME MarkInv, [Next]_vars, NEW c \in Uploads, up'[c] # Null,
                    NEW i \in Ids, i \in MarksIn(up[c])'
             PROVE  OnPhone(up[c].by, i)' /\ up'[c].marks[i] = MarkOf[<<up'[c].by, i>>]
  BY DEF SentFromPhone, MarksIn
<1>1. CASE up[c] # Null
  <2>1. up'[c].by = up[c].by /\ up'[c].marks = up[c].marks /\ i \in MarksIn(up[c])
    BY <1>1, SameUpload
  <2>2. OnPhone(up[c].by, i) /\ up[c].marks[i] = MarkOf[<<up[c].by, i>>]
    BY <1>1, <2>1 DEF MarkInv, SentFromPhone
  <2>3. \A p : OnPhone(p, i) => <<p, i>> \in Marks /\ phone'[<<p, i>>] # Null
    <3> TAKE p
    <3>1. OnPhone(p, i) => OnPhone(p, i)'
      BY PhonesKeep DEF MarkInv
    <3> QED
      BY <3>1 DEF OnPhone
  <2> QED
    BY <2>1, <2>2, <2>3 DEF OnPhone
<1>2. CASE up[c] = Null
  <2>1. PICK p \in Members : Send(c, p)
    BY <1>2 DEF Next, vars, MarkOnPhone, Send, Begin, Save, Answer, Lose, MarkInv, TypeOK
  <2>2. /\ up'[c].by = p /\ Unsynced(p, i) /\ phone' = phone
        /\ up'[c].marks[i] = MarkOf[<<p, i>>]
    BY <2>1 DEF Send, MarksIn, MarkInv, TypeOK
  <2> QED
    BY <2>2 DEF Unsynced, OnPhone
<1> QED
  BY <1>1, <1>2

LEMMA SavedStep == MarkInv /\ [Next]_vars => SavedIsStored'
<1> SUFFICES ASSUME MarkInv, [Next]_vars, NEW c \in Uploads, up'[c] # Null,
                    up'[c].step = "saved", NEW i \in Valid(up'[c])
             PROVE  stored'[i] # Null
  BY DEF SavedIsStored, Valid, MarksIn, MayMark
<1>1. up[c] # Null /\ up[c] \in Upload
  <2>1. ASSUME NEW d \in Uploads, NEW p \in Members, Send(d, p), d = c
        PROVE  FALSE
    BY <2>1 DEF Send, MarkInv, TypeOK
  <2> QED
    BY <2>1 DEF Next, vars, MarkOnPhone, Send, Begin, Save, Answer, Lose, MarkInv, TypeOK
<1>2. i \in Valid(up[c]) /\ i \in Ids
  BY <1>1, SameUpload DEF Valid, MarksIn
<1>3. CASE up[c].step = "saved"
  BY <1>1, <1>2, <1>3, RowsStay DEF MarkInv, SavedIsStored
<1>4. CASE up[c].step # "saved"
  <2>1. Save(c)
    <3>1. CASE UNCHANGED up
      BY <1>4, <3>1
    <3>2. ASSUME NEW d \in Uploads, up' = [up EXCEPT ![d] = Null]
          PROVE  FALSE
      BY <1>4, <3>2 DEF MarkInv, TypeOK
    <3>3. ASSUME NEW d \in Uploads, Begin(d)
          PROVE  FALSE
      BY <1>1, <1>4, <3>3 DEF Begin, MarkInv, TypeOK, Upload
    <3>4. ASSUME NEW d \in Uploads, NEW p \in Members, Send(d, p)
          PROVE  FALSE
      BY <1>1, <1>4, <3>4 DEF Send, MarkInv, TypeOK, Upload
    <3>5. ASSUME NEW d \in Uploads, Save(d), d # c
          PROVE  FALSE
      BY <1>4, <3>5 DEF Save, MarkInv, TypeOK
    <3> QED
      BY <3>1, <3>2, <3>3, <3>4, <3>5 DEF Next, vars, MarkOnPhone, Answer, Lose
  <2> QED
    BY <1>2, <2>1, SaveRows DEF MarkInv
<1> QED
  BY <1>3, <1>4

\* Whether m was marked with the id i on its author's phone, given the phones.
MadeOn(ph, m, i, side) ==
  /\ <<m.by, i>> \in Marks /\ ph[<<m.by, i>>] # Null /\ m.of = MarkOf[<<m.by, i>>]
  /\ CASE side = "captain" -> m.by = CaptainOf[m.of] /\ m.by # MemberIn[m.of]
       [] side = "self"    -> m.by = MemberIn[m.of] /\ CaptainOf[m.of] # Null

\* Either place of a row was.
RowMadeOn(ph, r, i) ==
  /\ r.captain # Null => MadeOn(ph, r.captain, i, "captain")
  /\ r.self # Null => MadeOn(ph, r.self, i, "self")
  /\ \E m \in {r.captain, r.self} \ {Null} : m.of = r.of

LEMMA MadeStays ==
  ASSUME MarkInv, [Next]_vars, NEW m, NEW i, NEW side, MadeOn(phone, m, i, side)
  PROVE  MadeOn(phone', m, i, side)
<1>1. OnPhone(m.by, i)
  BY DEF MadeOn, OnPhone
<1>2. OnPhone(m.by, i)'
  BY <1>1, PhonesKeep DEF MarkInv
<1>3. phone'[<<m.by, i>>] # Null
  BY <1>2 DEF OnPhone
<1> QED
  BY <1>3 DEF MadeOn

\* What a valid mark does: it was made on its sender's phone, for its sender's side.
LEMMA ValidIsMade ==
  ASSUME MarkInv, NEW c \in Uploads, up[c] # Null, NEW i \in Valid(up[c])
  PROVE  LET m == [by |-> up[c].by, of |-> up[c].marks[i]]
         IN  /\ m # Null
             /\ m.by = MemberIn[m.of] => MadeOn(phone, m, i, "self")
             /\ m.by # MemberIn[m.of] => MadeOn(phone, m, i, "captain")
<1> DEFINE m == [by |-> up[c].by, of |-> up[c].marks[i]]
<1>1. m # Null
  BY SentSeat, NullAssumption DEF MarkInv
<1>2. OnPhone(m.by, i) /\ m.of = MarkOf[<<m.by, i>>]
  BY DEF MarkInv, SentFromPhone, Valid
<1>3. CaptainOf[m.of] # Null /\ (m.by = MemberIn[m.of] \/ m.by = CaptainOf[m.of])
  BY DEF Valid, MayMark
<1> QED
  BY <1>1, <1>2, <1>3 DEF MadeOn, OnPhone

LEMMA TheirsStep == MarkInv /\ [Next]_vars => MarksAreTheirs'
<1> SUFFICES ASSUME MarkInv, [Next]_vars, NEW i \in Ids, stored'[i] # Null
             PROVE  RowMadeOn(phone', stored'[i], i)
  BY DEF MarksAreTheirs, MarkedBy, RowMadeOn, MadeOn
<1>1. stored[i] # Null => RowMadeOn(phone, stored[i], i)
  BY DEF MarkInv, MarksAreTheirs, MarkedBy, RowMadeOn, MadeOn
<1>2. CASE stored'[i] = stored[i]
  <2>1. RowMadeOn(phone, stored[i], i)
    BY <1>1, <1>2
  <2> QED
    BY <1>2, <2>1, MadeStays DEF RowMadeOn
<1>3. CASE stored'[i] # stored[i]
  <2>1. PICK c \in Uploads : Save(c)
    BY <1>3 DEF Next, vars, MarkOnPhone, Send, Begin, Answer, Lose
  <2>2. i \in Valid(up[c]) /\ up[c] # Null
    BY <1>3, <2>1, SaveRows DEF MarkInv, Save
  <2> DEFINE mark == [by |-> up[c].by, of |-> up[c].marks[i]]
  <2>3. /\ stored'[i].of = mark.of
        /\ mark.by = MemberIn[mark.of] =>
             /\ stored'[i].self = mark
             /\ stored'[i].captain = IF Prior(up[c], i) = Null THEN Null ELSE stored[i].captain
        /\ mark.by # MemberIn[mark.of] =>
             /\ stored'[i].captain = mark
             /\ stored'[i].self = IF Prior(up[c], i) = Null THEN Null ELSE stored[i].self
    BY <2>1, <2>2, SaveMark DEF MarkInv
  <2>4. /\ mark # Null
        /\ mark.by = MemberIn[mark.of] => MadeOn(phone, mark, i, "self")
        /\ mark.by # MemberIn[mark.of] => MadeOn(phone, mark, i, "captain")
    BY <2>2, ValidIsMade
  <2>5. Prior(up[c], i) # Null => RowMadeOn(phone, stored[i], i)
    BY <1>1 DEF Prior
  <2> HIDE DEF mark
  <2>6. CASE mark.by = MemberIn[mark.of]
    <3>1. stored'[i].captain # Null => MadeOn(phone, stored'[i].captain, i, "captain")
      BY <2>3, <2>5, <2>6 DEF RowMadeOn
    <3>2. MadeOn(phone, stored'[i].self, i, "self") /\ stored'[i].self # Null
      BY <2>3, <2>4, <2>6
    <3>3. stored'[i].self.of = stored'[i].of
      BY <2>3, <2>6
    <3> QED
      BY <3>1, <3>2, <3>3, MadeStays DEF RowMadeOn
  <2>7. CASE mark.by # MemberIn[mark.of]
    <3>1. stored'[i].self # Null => MadeOn(phone, stored'[i].self, i, "self")
      BY <2>3, <2>5, <2>7 DEF RowMadeOn
    <3>2. MadeOn(phone, stored'[i].captain, i, "captain") /\ stored'[i].captain # Null
      BY <2>3, <2>4, <2>7
    <3>3. stored'[i].captain.of = stored'[i].of
      BY <2>3, <2>7
    <3> QED
      BY <3>1, <3>2, <3>3, MadeStays DEF RowMadeOn
  <2> QED
    BY <2>6, <2>7
<1> QED
  BY <1>2, <1>3

LEMMA AckedStep == MarkInv /\ [Next]_vars => AckedIsStored'
<1> SUFFICES ASSUME MarkInv, [Next]_vars, NEW p \in Members, NEW i \in Ids,
                    Synced(p, i)', MayMark(p, MarkOf[<<p, i>>])
             PROVE  stored'[i] # Null
  BY DEF AckedIsStored, MayMark
<1>1. CASE Synced(p, i)
  BY <1>1, RowsStay DEF MarkInv, AckedIsStored
<1>2. CASE ~Synced(p, i)
  <2> DEFINE pi == <<p, i>>
  <2>1. PICK c \in Uploads : Answer(c)
    <3>1. ASSUME NEW q \in Marks, MarkOnPhone(q)
          PROVE  FALSE
      BY <1>2, <3>1 DEF MarkOnPhone, Synced, MarkInv, TypeOK
    <3> QED
      BY <1>2, <3>1 DEF Next, vars, Send, Begin, Save, Lose, Synced
  <2>2. pi \in Marks /\ phone'[pi] # phone[pi]
    BY <1>2 DEF Synced
  <2>3. pi[1] = up[c].by /\ pi[2] \in Acknowledged(up[c])
    BY <2>1, <2>2 DEF Answer
  <2>4. up[c].marks[i] = MarkOf[<<p, i>>]
    BY <2>1, <2>3 DEF Answer, Acknowledged, MarkInv, SentFromPhone
  <2>5. i \in Valid(up[c])
    BY <2>3, <2>4 DEF Acknowledged, Valid
  <2>6. stored[i] # Null
    BY <2>1, <2>5 DEF Answer, MarkInv, SavedIsStored
  <2> QED
    BY <2>6, RowsStay
<1> QED
  BY <1>1, <1>2

LEMMA MarkStep == MarkInv /\ [Next]_vars => MarkInv'
  BY TypeStep, SentStep, SavedStep, TheirsStep, AckedStep DEF MarkInv

\* Phones, rows and uploads are always well typed.
THEOREM MarksTyped == Spec => []TypeOK
<1>1. Spec => []MarkInv
  BY MarkInit, MarkStep, PTL DEF Spec
<1> QED
  BY <1>1, PTL DEF MarkInv

\* Whatever the phones use an id for, a row holds only marks that were made with its
\* id on their authors' phones, each in a place its author may fill.
THEOREM MarksHaveAuthors == Spec => []MarksAreTheirs
<1>1. Spec => []MarkInv
  BY MarkInit, MarkStep, PTL DEF Spec
<1> QED
  BY <1>1, PTL DEF MarkInv

\* Where all phones use an id for one seat, a row is about that seat, its captain's
\* place was filled by the captain of the seat's table, and its own place by the
\* member: then nobody borrows another seat's captain.
THEOREM NoBorrowedAuthority ==
  ASSUME NEW i \in Ids, NEW s \in Seats,
         \A p \in Members : <<p, i>> \in Marks => MarkOf[<<p, i>>] = s
  PROVE  Spec => [](stored[i] # Null =>
                      /\ stored[i].of = s
                      /\ stored[i].captain # Null => stored[i].captain.by = CaptainOf[s]
                      /\ stored[i].self # Null => stored[i].self.by = MemberIn[s])
<1> DEFINE Theirs == stored[i] # Null =>
                       /\ stored[i].of = s
                       /\ stored[i].captain # Null => stored[i].captain.by = CaptainOf[s]
                       /\ stored[i].self # Null => stored[i].self.by = MemberIn[s]
<1>1. Spec => []MarkInv
  BY MarkInit, MarkStep, PTL DEF Spec
<1>2. MarkInv => Theirs
  <2> SUFFICES ASSUME MarkInv, stored[i] # Null
               PROVE  /\ stored[i].of = s
                      /\ stored[i].captain # Null => stored[i].captain.by = CaptainOf[s]
                      /\ stored[i].self # Null => stored[i].self.by = MemberIn[s]
    OBVIOUS
  <2>1. RowMadeOn(phone, stored[i], i)
    BY DEF MarkInv, MarksAreTheirs, MarkedBy, RowMadeOn, MadeOn
  <2>2. \A m, side : MadeOn(phone, m, i, side) => m.of = s
    BY AttendanceAssumption DEF MadeOn
  <2>3. /\ stored[i].captain # Null => /\ MadeOn(phone, stored[i].captain, i, "captain")
                                       /\ stored[i].captain.of = s
        /\ stored[i].self # Null => /\ MadeOn(phone, stored[i].self, i, "self")
                                    /\ stored[i].self.of = s
    BY <2>1, <2>2 DEF RowMadeOn
  <2> QED
    BY <2>1, <2>3 DEF RowMadeOn, MadeOn
<1> HIDE DEF Theirs
<1>3. Spec => []Theirs
  BY <1>1, <1>2, PTL
<1> QED
  BY <1>3 DEF Theirs

\* A phone forgets a mark the server took only when there is a row with its id.
THEOREM CommittedFirst == Spec => []AckedIsStored
<1>1. Spec => []MarkInv
  BY MarkInit, MarkStep, PTL DEF Spec
<1> QED
  BY <1>1, PTL DEF MarkInv

\* Only an upload that began before the row was there can drop a mark.
THEOREM MarksStay == Spec => MarksKept
<1>1. Spec => []MarkInv
  BY MarkInit, MarkStep, PTL DEF Spec
<1>2. ASSUME MarkInv, [Next]_vars, NEW i \in Ids, stored[i] # Null,
             \A c \in Uploads : ~WritesBlindly(c, i)
      PROVE  /\ stored'[i] # Null
             /\ stored[i].captain # Null => stored'[i].captain # Null
             /\ stored[i].self # Null => stored'[i].self # Null
  <2>1. CASE stored'[i] = stored[i]
    BY <1>2, <2>1
  <2>2. CASE stored'[i] # stored[i]
    <3>1. PICK c \in Uploads : Save(c)
      BY <1>2, <2>2 DEF Next, vars, MarkOnPhone, Send, Begin, Answer, Lose
    <3>2. i \in Valid(up[c]) /\ up[c] # Null
      BY <1>2, <2>2, <3>1, SaveRows DEF MarkInv, Save
    <3>3. Prior(up[c], i) = stored[i]
      BY <1>2, <3>1, <3>2 DEF WritesBlindly, Save, Prior
    <3> DEFINE mark == [by |-> up[c].by, of |-> up[c].marks[i]]
    <3>4. mark # Null
      BY <1>2, <3>2, ValidIsMade
    <3>5. \/ stored'[i].self = mark /\ stored'[i].captain = stored[i].captain
          \/ stored'[i].captain = mark /\ stored'[i].self = stored[i].self
      BY <1>2, <3>1, <3>2, <3>3, SaveMark DEF MarkInv
    <3> HIDE DEF mark
    <3> QED
      BY <1>2, <3>4, <3>5, RowsStay
  <2> QED
    BY <2>1, <2>2
<1> DEFINE Kept == \A i \in Ids :
                     stored[i] # Null /\ (\A c \in Uploads : ~WritesBlindly(c, i))
                       => /\ stored'[i] # Null
                          /\ stored[i].captain # Null => stored'[i].captain # Null
                          /\ stored[i].self # Null => stored'[i].self # Null
<1>3. MarkInv /\ [Next]_vars => [Kept]_vars
  BY <1>2
<1> HIDE DEF Kept
<1>4. Spec => [][Kept]_vars
  BY <1>1, <1>3, PTL DEF Spec
<1> QED
  BY <1>4 DEF MarksKept, Kept
=============================================================================

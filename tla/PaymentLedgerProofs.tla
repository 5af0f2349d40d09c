------------------------ MODULE PaymentLedgerProofs ------------------------
(***************************************************************************)
(* Proofs about PaymentLedger: what the ledger knows stays, because a      *)
(* delivery that found the row holds its lock until it writes, so the row  *)
(* it read is the row it changes; and what the ledger counts was taken,    *)
(* because nothing enters it but what Razorpay has told.  That the revenue *)
(* is bounded then needs the sum itself: it exists, and no case of it is   *)
(* the smallest that goes wrong.                                           *)
(***************************************************************************)
EXTENDS PaymentLedger, FiniteSetTheorems, NaturalsInduction, TLAPS

\* A delivery in progress tells an event that happened, and one that found the
\* row is alone with it.
HoldsOK(h) ==
  handling[h] # Null =>
    /\ handling[h].event \in issued
    /\ handling[h].before # Null =>
         /\ ledger[handling[h].event.pay] = handling[h].before
         /\ \A g \in Handlers :
              /\ handling[g] # Null
              /\ handling[g].event.pay = handling[h].event.pay
              /\ handling[g].before # Null
              => g = h

\* What is counted was captured, and what was given back was taken before.
RowOK(p) ==
  /\ Told(p, "refund") => Told(p, "captured")
  /\ ledger[p] # Null /\ ledger[p].status \in {"captured", "refunded"} => Told(p, "captured")

LedgerInv == /\ TypeOK
             /\ \A h \in Handlers : HoldsOK(h)
             /\ \A p \in Payments : RowOK(p)

LEMMA LedgerInit == Init => LedgerInv
BY LedgerAssumption DEF Init, LedgerInv, TypeOK, HoldsOK, RowOK, Told

\* Amounts are not null.
LEMMA AmountRange ==
  /\ Fee \in Nat /\ Fee # Null
  /\ \A b \in Parts : b \in 0..Fee
  /\ Null \notin Parts
<1>1. Fee \in Nat /\ Parts \subseteq 1..Fee /\ Null \notin Nat
  BY LedgerAssumption
<1>2. \A b \in 1..Fee : b \in Nat /\ b \in 0..Fee
  BY <1>1
<1>3. \A b \in Parts : b \in Nat /\ b \in 0..Fee
  BY <1>1, <1>2
<1> QED BY <1>1, <1>3

LEMMA EventParts ==
  ASSUME NEW e \in Event
  PROVE  /\ e.pay \in Payments
         /\ e.kind \in {"authorized", "failed", "captured", "refund"}
         /\ e.kind = "refund" => e.back \in Parts
         /\ Status(e) \in {"authorized", "failed", "captured", "refunded"}
         /\ Status(e) = "captured" <=> e.kind = "captured"
         /\ Status(e) = "refunded" <=> e.kind = "refund"
BY DEF Event, Status

\* A write keeps what the row has, but for the conclave when the row was made
\* after the delivery had looked for it.
LEMMA PatchedKeeps ==
  ASSUME NEW r \in Row, NEW d \in Delivery, d.before # Null => r = d.before
  PROVE  LET x == Patched(r, d)
         IN  /\ x \in Row /\ x # Null
             /\ x.status = Status(d.event)
             /\ r.amount # Null => x.amount # Null
             /\ r.back # Null => x.back # Null
             /\ d.before # Null \/ d.event.kind = "refund" =>
                  (r.conclave # Null => x.conclave # Null)
<1> DEFINE x == Patched(r, d)
           c == IF d.conclave # Null \/ d.before = Null THEN d.conclave
                ELSE d.before.conclave
           e == d.event
<1>1. e \in Event /\ d.conclave \in {"known", Null} /\ d.before \in Row \cup {Null}
  BY DEF Delivery
<1>2. /\ e.kind = "refund" => e.back \in Parts /\ e.back # Null /\ Status(e) = "refunded"
      /\ Status(e) \in {"authorized", "failed", "captured", "refunded"}
      /\ Fee # Null
  <2>1. /\ e.kind = "refund" => e.back \in Parts
        /\ Status(e) \in {"authorized", "failed", "captured", "refunded"}
        /\ e.kind = "refund" => Status(e) = "refunded"
    BY <1>1, EventParts
  <2>2. Fee # Null /\ Null \notin Parts
    BY AmountRange
  <2> QED BY <2>1, <2>2
<1>3. /\ r = [status |-> r.status, amount |-> r.amount, back |-> r.back, conclave |-> r.conclave]
      /\ r.amount \in {Fee, Null} /\ r.back \in Parts \cup {Null}
      /\ r.conclave \in {"known", Null}
  BY DEF Row
<1>4. CASE e.kind = "refund"
  <2>1. x = [status |-> "refunded", amount |-> r.amount, back |-> e.back,
             conclave |-> r.conclave]
    <3>1. x = [r EXCEPT !.status = "refunded", !.back = e.back]
      BY <1>4 DEF Patched
    <3> HIDE DEF x
    <3> QED BY <1>3, <3>1
  <2> HIDE DEF x
  <2>2. x \in Row
    BY <1>2, <1>3, <1>4, <2>1 DEF Row
  <2> QED BY <1>2, <1>4, <2>1, <2>2, LedgerNullAssumption DEF x, e
<1>5. CASE e.kind # "refund"
  <2>1. c \in {"known", Null}
    BY <1>1 DEF Row
  <2>2. d.before # Null => (r.conclave # Null => c # Null)
    BY <1>1
  <2>3. x = [r EXCEPT !.status = Status(e), !.amount = Fee, !.conclave = c]
    BY <1>5 DEF Patched
  <2> HIDE DEF x, c
  <2>4. x = [status |-> Status(e), amount |-> Fee, back |-> r.back, conclave |-> c]
    BY <1>3, <2>3
  <2>5. x \in Row
    BY <1>2, <1>3, <2>1, <2>4 DEF Row
  <2> QED BY <1>2, <1>5, <2>2, <2>4, <2>5, LedgerNullAssumption DEF x, e
<1> QED BY <1>4, <1>5

LEMMA BlankRow == Blank \in Row
BY DEF Blank, Row

\* What Write does: to one payment, with its lock or as its first.
LEMMA WriteRow ==
  ASSUME LedgerInv, NEW h \in Handlers, Write(h)
  PROVE  LET d == handling[h]
             p == d.event.pay
         IN  /\ d \in Delivery /\ d # Null /\ d.event \in issued /\ p \in Payments
             /\ ledger'[p] \in Row /\ ledger'[p] # Null
             /\ ledger'[p].status = Status(d.event)
             /\ ledger[p] # Null =>
                  /\ ledger[p].amount # Null => ledger'[p].amount # Null
                  /\ ledger[p].back # Null => ledger'[p].back # Null
                  /\ d.before # Null =>
                       (ledger[p].conclave # Null => ledger'[p].conclave # Null)
             /\ ledger' = [ledger EXCEPT ![p] = ledger'[p]]
             /\ \A g \in Handlers : g # h /\ handling[g] # Null /\ handling[g].before # Null
                                    => handling[g].event.pay # p
<1>1. PICK d \in Delivery : d = handling[h]
  BY DEF LedgerInv, TypeOK, Write
<1>2. PICK p \in Payments : p = d.event.pay
  BY EventParts DEF Delivery
<1>3. /\ TypeOK /\ d # Null
      /\ d.before # Null \/ Unlocked(p)
      /\ ledger' = [ledger EXCEPT ![p] = Patched(IF ledger[p] = Null THEN Blank ELSE ledger[p], d)]
  BY <1>1, <1>2 DEF LedgerInv, Write
<1>4. d.event \in issued /\ (d.before # Null => ledger[p] = d.before)
  BY <1>1, <1>2, <1>3 DEF LedgerInv, HoldsOK
<1>5. \A g \in Handlers : g # h /\ handling[g] # Null /\ handling[g].before # Null
                          => handling[g].event.pay # p
  <2>1. CASE d.before # Null
    BY <1>1, <1>2, <1>3, <2>1 DEF LedgerInv, HoldsOK
  <2>2. CASE Unlocked(p)
    BY <2>2 DEF Unlocked
  <2> QED BY <1>3, <2>1, <2>2
<1> DEFINE r == IF ledger[p] = Null THEN Blank ELSE ledger[p]
<1>6. r \in Row /\ (d.before # Null => r = d.before) /\ (ledger[p] # Null => r = ledger[p])
  <2>1. ledger[p] \in Row \cup {Null}
    BY <1>3 DEF TypeOK
  <2> QED BY <1>4, <2>1, BlankRow
<1>7. ledger'[p] = Patched(r, d)
  BY <1>3 DEF TypeOK
<1> HIDE DEF r
<1>8. /\ ledger'[p] \in Row /\ ledger'[p] # Null
      /\ ledger'[p].status = Status(d.event)
      /\ r.amount # Null => ledger'[p].amount # Null
      /\ r.back # Null => ledger'[p].back # Null
      /\ d.before # Null => (r.conclave # Null => ledger'[p].conclave # Null)
  BY <1>6, <1>7, PatchedKeeps
<1>9. ledger' = [ledger EXCEPT ![p] = ledger'[p]]
  BY <1>3 DEF TypeOK
<1> QED BY <1>1, <1>2, <1>3, <1>4, <1>5, <1>6, <1>8, <1>9

LEMMA ToldMore ==
  ASSUME NEW p, NEW k, issued \subseteq issued', Told(p, k)
  PROVE  Told(p, k)'
BY DEF Told

LEMMA HappenKeeps ==
  ASSUME LedgerInv, NEW e \in Event, Happen(e)
  PROVE  LedgerInv'
<1>1. /\ issued' = issued \cup {e} /\ UNCHANGED <<acked, ledger, handling, faults>>
      /\ e.kind = "refund" => Told(e.pay, "captured")
  BY DEF Happen
<1>2. TypeOK'
  BY <1>1 DEF LedgerInv, TypeOK
<1>3. \A h \in Handlers : HoldsOK(h)'
  BY <1>1 DEF LedgerInv, HoldsOK
<1>4. ASSUME NEW p \in Payments PROVE RowOK(p)'
  <2>1. RowOK(p)
    BY DEF LedgerInv
  <2>2. Told(p, "captured") => Told(p, "captured")'
    BY <1>1, ToldMore
  <2>3. Told(p, "refund")' => Told(p, "refund") \/ (e.kind = "refund" /\ e.pay = p)
    BY <1>1 DEF Told
  <2> QED BY <1>1, <2>1, <2>2, <2>3 DEF RowOK
<1> QED BY <1>2, <1>3, <1>4 DEF LedgerInv

LEMMA DeliverKeeps ==
  ASSUME LedgerInv, NEW e \in Event, Deliver(e)
  PROVE  LedgerInv'
<1>1. CASE Ignore(e)
  BY <1>1 DEF Ignore, LedgerInv, TypeOK, HoldsOK, RowOK, Told
<1>2. ASSUME NEW h \in Handlers, NEW c \in {"known", Null}, Begin(h, e, c)
      PROVE  LedgerInv'
  <2> DEFINE d == [event |-> e, conclave |-> c, before |-> ledger[e.pay]]
  <2>1. /\ TypeOK /\ e \in issued /\ Unlocked(e.pay)
        /\ handling' = [handling EXCEPT ![h] = d]
        /\ UNCHANGED <<issued, acked, ledger, faults>>
    BY <1>2 DEF LedgerInv, Begin
  <2>2. d \in Delivery /\ d.event = e /\ d.before = ledger[e.pay]
    BY <2>1, EventParts DEF TypeOK, Delivery
  <2> HIDE DEF d
  <2>3. TypeOK'
    BY <2>1, <2>2 DEF TypeOK
  <2>4. handling'[h] = d /\ \A g \in Handlers : g # h => handling'[g] = handling[g]
    BY <2>1 DEF TypeOK
  <2>5. \A g \in Handlers : handling[g] # Null /\ handling[g].before # Null
                            => handling[g].event.pay # e.pay
    BY <2>1 DEF Unlocked
  <2>6. ASSUME NEW g \in Handlers PROVE HoldsOK(g)'
    <3>1. CASE g = h
      BY <2>1, <2>2, <2>4, <2>5, <3>1 DEF HoldsOK
    <3>2. CASE g # h
      <4>1. HoldsOK(g)
        BY DEF LedgerInv
      <4> QED BY <2>1, <2>2, <2>4, <2>5, <3>2, <4>1 DEF HoldsOK
    <3> QED BY <3>1, <3>2
  <2>7. \A p \in Payments : RowOK(p)'
    BY <2>1 DEF LedgerInv, RowOK, Told
  <2> QED BY <2>3, <2>6, <2>7 DEF LedgerInv
<1> QED BY <1>1, <1>2 DEF Deliver

LEMMA WriteKeeps ==
  ASSUME LedgerInv, NEW h \in Handlers, Write(h)
  PROVE  LedgerInv'
<1>1. PICK d \in Delivery : d = handling[h]
  BY WriteRow
<1>2. PICK p \in Payments : p = d.event.pay
  BY <1>1, WriteRow
<1>3. PICK r \in Row : r = ledger'[p]
  BY <1>1, <1>2, WriteRow
<1>4. /\ d # Null /\ d.event \in issued /\ r.status = Status(d.event)
      /\ ledger' = [ledger EXCEPT ![p] = r]
      /\ \A g \in Handlers : g # h /\ handling[g] # Null /\ handling[g].before # Null
                             => handling[g].event.pay # p
  BY <1>1, <1>2, <1>3, WriteRow
<1>5. /\ TypeOK /\ acked' = acked \cup {d.event} /\ handling' = [handling EXCEPT ![h] = Null]
      /\ UNCHANGED <<issued, faults>>
  BY <1>1 DEF LedgerInv, Write
<1>6. /\ handling'[h] = Null /\ \A g \in Handlers : g # h => handling'[g] = handling[g]
      /\ \A q \in Payments : q # p => ledger'[q] = ledger[q]
  BY <1>4, <1>5 DEF TypeOK
<1>7. TypeOK'
  BY <1>4, <1>5 DEF TypeOK
<1>8. ASSUME NEW g \in Handlers PROVE HoldsOK(g)'
  <2>1. CASE g = h
    BY <1>6, <2>1 DEF HoldsOK
  <2>2. CASE g # h
    <3>1. HoldsOK(g)
      BY DEF LedgerInv
    <3>2. handling[g] # Null => handling[g].event.pay \in Payments
      BY <1>5, EventParts DEF TypeOK, Delivery
    <3> QED BY <1>4, <1>5, <1>6, <2>2, <3>1, <3>2 DEF HoldsOK
  <2> QED BY <2>1, <2>2
<1>9. ASSUME NEW q \in Payments PROVE RowOK(q)'
  <2>1. RowOK(q)
    BY DEF LedgerInv
  <2>2. CASE q # p
    BY <1>5, <1>6, <2>1, <2>2 DEF RowOK, Told
  <2>3. CASE q = p
    <3>1. d.event.kind \in {"captured", "refund"} => Told(p, "captured")
      BY <1>2, <1>4, <2>1, <2>3 DEF RowOK, Told
    <3>2. r.status \in {"captured", "refunded"} => Told(p, "captured")
      BY <1>4, <3>1, EventParts DEF Delivery
    <3> QED BY <1>3, <1>5, <2>1, <2>3, <3>2 DEF RowOK, Told
  <2> QED BY <2>2, <2>3
<1> QED BY <1>7, <1>8, <1>9 DEF LedgerInv

LEMMA FailKeeps ==
  ASSUME LedgerInv, NEW h \in Handlers, Fail(h)
  PROVE  LedgerInv'
<1>1. /\ TypeOK /\ faults < MaxFaults /\ faults' = faults + 1
      /\ handling' = [handling EXCEPT ![h] = Null] /\ UNCHANGED <<issued, acked, ledger>>
  BY DEF LedgerInv, Fail
<1>2. TypeOK'
  BY <1>1, LedgerAssumption DEF TypeOK
<1>3. handling'[h] = Null /\ \A g \in Handlers : g # h => handling'[g] = handling[g]
  BY <1>1 DEF TypeOK
<1>4. ASSUME NEW g \in Handlers PROVE HoldsOK(g)'
  <2>1. HoldsOK(g)
    BY DEF LedgerInv
  <2> QED BY <1>1, <1>3, <2>1 DEF HoldsOK
<1>5. \A p \in Payments : RowOK(p)'
  BY <1>1 DEF LedgerInv, RowOK, Told
<1> QED BY <1>2, <1>4, <1>5 DEF LedgerInv

LEMMA LedgerStep ==
  ASSUME LedgerInv, [Next]_vars
  PROVE  LedgerInv'
<1>1. CASE UNCHANGED vars
  BY <1>1 DEF vars, LedgerInv, TypeOK, HoldsOK, RowOK, Told
<1> QED BY <1>1, HappenKeeps, DeliverKeeps, WriteKeeps, FailKeeps DEF Next

\* The tables and the deliveries keep their types.
THEOREM LedgerTyped == Spec => []TypeOK
<1>1. LedgerInv => TypeOK
  BY DEF LedgerInv
<1> QED BY <1>1, LedgerInit, LedgerStep, PTL DEF Spec

\* One step of the ledger.
LEMMA NothingLost ==
  ASSUME LedgerInv, [Next]_vars, NEW p \in Payments, ledger[p] # Null
  PROVE  /\ ledger'[p] # Null
         /\ ledger[p].amount # Null => ledger'[p].amount # Null
         /\ ledger[p].back # Null => ledger'[p].back # Null
         /\ \/ ledger[p].conclave # Null => ledger'[p].conclave # Null
            \/ \E h \in Handlers : handling[h] # Null /\ handling[h].before = Null
                                   /\ handling[h].event.pay = p
<1>1. CASE ledger' = ledger
  BY <1>1
<1>2. ASSUME NEW h \in Handlers, Write(h)
      PROVE  /\ ledger'[p] # Null
             /\ ledger[p].amount # Null => ledger'[p].amount # Null
             /\ ledger[p].back # Null => ledger'[p].back # Null
             /\ \/ ledger[p].conclave # Null => ledger'[p].conclave # Null
                \/ handling[h] # Null /\ handling[h].before = Null
                   /\ handling[h].event.pay = p
  <2>1. CASE handling[h].event.pay = p
    BY <1>2, <2>1, WriteRow
  <2>2. CASE handling[h].event.pay # p
    <3>1. ledger'[p] = ledger[p]
      BY <1>2, <2>2 DEF Write, LedgerInv, TypeOK
    <3> QED BY <3>1
  <2> QED BY <2>1, <2>2
<1> QED BY <1>1, <1>2 DEF Next, Happen, Deliver, Ignore, Begin, Fail, vars

\* What the ledger knows of a payment it never forgets, whatever the order of the
\* events, the deliveries sent again and those beside one another.
THEOREM LedgerForgetsNothing == Spec => NothingForgotten
<1>1. LedgerInv /\ [Next]_vars =>
        [\A p \in Payments : ledger[p] # Null =>
           /\ ledger'[p] # Null
           /\ ledger[p].amount # Null => ledger'[p].amount # Null
           /\ ledger[p].back # Null => ledger'[p].back # Null
           /\ \/ ledger[p].conclave # Null => ledger'[p].conclave # Null
              \/ \E h \in Handlers : handling[h] # Null /\ handling[h].before = Null
                                     /\ handling[h].event.pay = p]_vars
  BY NothingLost
<1> QED BY <1>1, LedgerInit, LedgerStep, PTL DEF Spec, NothingForgotten

-----------------------------------------------------------------------------
(* The revenue                                                             *)

\* A set of numbers has a least one: how a sum over a set is reasoned about here,
\* by the smallest case that could go wrong.
LEMMA LeastNatural ==
  ASSUME NEW T \in SUBSET Nat, T # {}
  PROVE  \E n \in T : \A m \in T : n <= m
<1> DEFINE R == OpToRel(<, Nat)
<1>1. \E n \in T : \A m \in T : <<m, n>> \notin R
  BY NatLessThanWellFounded, WFMin
<1>2. \A m, n \in Nat : m < n => <<m, n>> \in R
  BY DEF OpToRel
<1> HIDE DEF R
<1>3. PICK n \in T : \A m \in T : <<m, n>> \notin R
  BY <1>1
<1>4. ASSUME NEW m \in T
      PROVE  n <= m
  <2>1. m \in Nat /\ n \in Nat
    OBVIOUS
  <2>2. ~ (m < n)
    BY <1>2, <1>3, <2>1, Zenon
  <2> QED BY <2>1, <2>2
<1> QED BY <1>4

OneOf(s) == CHOOSE x \in s : TRUE

\* What a function g that sums the revenue over each set of D equals.
Tally(g, row, D) ==
  [s \in D |-> IF s = {} THEN 0 ELSE Net(row[OneOf(s)]) + g[s \ {OneOf(s)}]]

LEMMA Smaller ==
  ASSUME NEW S, IsFiniteSet(S), NEW s \in SUBSET S, s # {}
  PROVE  /\ OneOf(s) \in s
         /\ s \ {OneOf(s)} \in SUBSET S
         /\ Cardinality(s) \in Nat /\ Cardinality(s \ {OneOf(s)}) \in Nat
         /\ Cardinality(s) = Cardinality(s \ {OneOf(s)}) + 1
<1>1. OneOf(s) \in s
  BY DEF OneOf
<1>2. IsFiniteSet(s)
  BY FS_Subset
<1>3. /\ IsFiniteSet(s \ {OneOf(s)})
      /\ Cardinality(s \ {OneOf(s)}) = Cardinality(s) - 1
  BY <1>1, <1>2, FS_RemoveElement
<1>4. Cardinality(s) \in Nat /\ Cardinality(s \ {OneOf(s)}) \in Nat
  BY <1>2, <1>3, FS_CardinalityType
<1> QED BY <1>1, <1>3, <1>4

\* The sum is there: what sums the sets up to a size can be carried on to those
\* of one more.
LEMMA TallyExists ==
  ASSUME NEW S, IsFiniteSet(S), NEW row
  PROVE  \E g : g = Tally(g, row, SUBSET S)
<1> DEFINE Sub(n) == {s \in SUBSET S : Cardinality(s) <= n}
           Bad == {n \in Nat : ~ \E g : g = Tally(g, row, Sub(n))}
<1>1. \A s \in SUBSET S : Cardinality(s) \in Nat /\ Cardinality(s) <= Cardinality(S)
  BY FS_Subset, FS_CardinalityType
<1>2. 0 \notin Bad
  <2>1. \A s \in Sub(0) : s = {}
    BY <1>1, FS_Subset, FS_EmptySet
  <2> DEFINE g == [s \in Sub(0) |-> 0]
  <2>2. g = Tally(g, row, Sub(0))
    BY <2>1 DEF Tally
  <2> QED BY <2>2
<1>3. ASSUME NEW n \in Nat, n \notin Bad
      PROVE  n + 1 \notin Bad
  <2>1. PICK g : g = Tally(g, row, Sub(n))
    BY <1>3
  <2> DEFINE h == Tally(g, row, Sub(n + 1))
  <2>2. ASSUME NEW s \in Sub(n + 1), s # {}
        PROVE  h[s \ {OneOf(s)}] = g[s \ {OneOf(s)}]
    <3> DEFINE t == s \ {OneOf(s)}
    <3>1. t \in Sub(n) /\ t \in Sub(n + 1)
      BY <2>2, Smaller
    <3>2. g[t] = IF t = {} THEN 0 ELSE Net(row[OneOf(t)]) + g[t \ {OneOf(t)}]
      BY <2>1, <3>1 DEF Tally
    <3>3. h[t] = IF t = {} THEN 0 ELSE Net(row[OneOf(t)]) + g[t \ {OneOf(t)}]
      BY <3>1 DEF Tally
    <3> QED BY <3>2, <3>3
  <2>3. h = Tally(h, row, Sub(n + 1))
    BY <2>2 DEF Tally
  <2> QED BY <2>3
<1>4. Bad = {}
  <2>1. SUFFICES ASSUME Bad # {} PROVE FALSE
    OBVIOUS
  <2>2. PICK n \in Bad : \A m \in Bad : n <= m
    BY <2>1, LeastNatural
  <2>3. n \in Nat /\ n # 0
    BY <1>2, <2>2
  <2>4. n - 1 \in Nat /\ (n - 1) + 1 = n /\ ~ (n <= n - 1)
    BY <2>3
  <2>5. n - 1 \notin Bad
    BY <2>2, <2>4, Zenon
  <2> QED BY <1>3, <2>2, <2>4, <2>5
<1>5. SUBSET S = Sub(Cardinality(S)) /\ Cardinality(S) \in Nat
  BY <1>1
<1>6. Cardinality(S) \notin Bad
  BY <1>4
<1> QED BY <1>5, <1>6

LEMMA TallyBounded ==
  ASSUME NEW S, IsFiniteSet(S), NEW row, NEW fee \in Nat,
         \A p \in S : Net(row[p]) \in Int /\ Net(row[p]) <= fee,
         NEW g, g = Tally(g, row, SUBSET S)
  PROVE  g[S] \in Int /\ g[S] <= fee * Cardinality(S)
<1> DEFINE OK(s) == g[s] \in Int /\ g[s] <= fee * Cardinality(s)
           Bad == {n \in Nat : \E s \in SUBSET S : Cardinality(s) = n /\ ~ OK(s)}
<1>1. \A s \in SUBSET S : Cardinality(s) \in Nat
  BY FS_Subset, FS_CardinalityType
<1>2. Bad = {}
  <2>1. SUFFICES ASSUME Bad # {} PROVE FALSE
    OBVIOUS
  <2>2. PICK n \in Bad : \A m \in Bad : n <= m
    BY <2>1, LeastNatural
  <2>3. PICK s \in SUBSET S : Cardinality(s) = n /\ ~ OK(s)
    BY <2>2
  <2> DEFINE x == OneOf(s)
             t == s \ {x}
  <2>4. g[s] = IF s = {} THEN 0 ELSE Net(row[x]) + g[t]
    BY DEF Tally
  <2>5. s # {}
    BY <2>3, <2>4, FS_EmptySet
  <2>6. /\ x \in S /\ t \in SUBSET S /\ Cardinality(t) \in Nat
        /\ Cardinality(s) = Cardinality(t) + 1
    BY <2>5, Smaller
  <2>7. Cardinality(t) \notin Bad
    <3>1. n = Cardinality(t) + 1
      BY <2>3, <2>6
    <3>2. ~ (n <= Cardinality(t))
      BY <2>6, <3>1
    <3> QED BY <2>2, <3>2, Zenon
  <2>8. OK(t)
    BY <2>6, <2>7
  <2>9. Net(row[x]) \in Int /\ Net(row[x]) <= fee
    BY <2>6
  <2>10. fee * Cardinality(s) = fee * Cardinality(t) + fee
    BY <2>6
  <2>11. fee * Cardinality(t) \in Int
    BY <2>6
  <2>12. OK(s)
    BY <2>4, <2>5, <2>8, <2>9, <2>10, <2>11
  <2> QED BY <2>3, <2>12
<1>3. S \in SUBSET S /\ Cardinality(S) \notin Bad /\ Cardinality(S) \in Nat
  BY <1>1, <1>2
<1> QED BY <1>3

\* What each summand of the revenue adds: a payment that counts was captured, and
\* counts for no more than was taken for it.
LEMMA CountedIsTaken ==
  ASSUME LedgerInv, NEW p \in Payments, Counted(ledger[p])
  PROVE  Told(p, "captured") /\ Net(ledger[p]) \in Int /\ Net(ledger[p]) <= Fee
<1>1. Told(p, "captured")
  BY DEF LedgerInv, RowOK, Counted
<1>2. ledger[p] \in Row
  BY DEF LedgerInv, TypeOK, Counted
<1>3. OrZero(ledger[p].amount) \in {0, Fee}
  BY <1>2 DEF Row, OrZero
<1>4. OrZero(ledger[p].back) \in 0..Fee /\ Fee \in Nat
  <2>1. ledger[p].back \in Parts \cup {Null}
    BY <1>2 DEF Row
  <2>2. Fee \in Nat /\ \A b \in Parts : b \in 0..Fee
    BY AmountRange
  <2> QED BY <2>1, <2>2 DEF OrZero
<1> QED BY <1>1, <1>3, <1>4 DEF Net

LEMMA RevenueBounded ==
  ASSUME LedgerInv
  PROVE  RevenueIsReal
<1> DEFINE S == {p \in Payments : Counted(ledger[p])}
           C == {p \in Payments : Told(p, "captured")}
           g == CHOOSE g : g = Tally(g, ledger, SUBSET S)
<1>1. TotalRevenue = g[S]
  BY DEF TotalRevenue, MapThenSumSet, MapThenFoldSet, Tally, OneOf
<1>2. IsFiniteSet(S) /\ IsFiniteSet(C)
  BY LedgerAssumption, FS_Subset
<1>3. g = Tally(g, ledger, SUBSET S)
  BY <1>2, TallyExists
<1>4. Fee \in Nat /\ \A p \in S : Net(ledger[p]) \in Int /\ Net(ledger[p]) <= Fee
  BY LedgerAssumption, CountedIsTaken
<1> HIDE DEF g
<1>5. g[S] \in Int /\ g[S] <= Fee * Cardinality(S)
  BY <1>2, <1>3, <1>4, TallyBounded
<1>6. S \in SUBSET C
  BY CountedIsTaken
<1>7. Cardinality(S) \in Nat /\ Cardinality(C) \in Nat /\ Cardinality(S) <= Cardinality(C)
  BY <1>2, <1>6, FS_Subset, FS_CardinalityType
<1>8. Fee * Cardinality(S) <= Fee * Cardinality(C)
  <2> DEFINE d == Cardinality(C) - Cardinality(S)
  <2>1. d \in Nat /\ Cardinality(C) = Cardinality(S) + d
    BY <1>7
  <2>2. Fee * Cardinality(C) = Fee * Cardinality(S) + Fee * d
    BY <1>4, <1>7, <2>1
  <2>3. Fee * d \in Nat /\ Fee * Cardinality(S) \in Nat
    BY <1>4, <1>7, <2>1
  <2> QED BY <2>2, <2>3
<1>9. Fee * Cardinality(S) \in Int /\ Fee * Cardinality(C) \in Int
  BY <1>4, <1>7
<1>10. g[S] <= Fee * Cardinality(C)
  BY <1>5, <1>8, <1>9
<1> QED BY <1>1, <1>10 DEF RevenueIsReal

\* However the events come, and for any number of payments, the revenue shown is
\* never more than what Razorpay has taken.
THEOREM RevenueIsTaken == Spec => []RevenueIsReal
BY RevenueBounded, LedgerInit, LedgerStep, PTL DEF Spec
=============================================================================

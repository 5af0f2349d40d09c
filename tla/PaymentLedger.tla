---------------------------- MODULE PaymentLedger ----------------------------
(***************************************************************************)
(* The ledger of payments, fed by the gateway's webhook.  Razorpay sends   *)
(* an event for everything that happens to a payment, again until it is    *)
(* answered with a 2xx, sometimes twice, and in any order.                 *)
(*                                                                         *)
(* A delivery reads and locks the payment's row, then writes it and        *)
(* commits.  Before there is a row there is nothing to lock, so the first  *)
(* deliveries of a payment run beside each other; the insert of the later  *)
(* one becomes an update of the row the other has made.                    *)
(***************************************************************************)
EXTENDS Integers, FiniteSets, FiniteSetsExt

CONSTANTS Payments,
          Handlers, \* slots for deliveries in progress, on any server
          Fee,      \* what a payment costs, in the smallest amount a refund gives back
          Parts,    \* bound: the amounts a refund may give back
          MaxFaults, \* bound: deliveries that fail
          Null

ASSUME LedgerAssumption == /\ Fee \in Nat \ {0} /\ Parts \subseteq 1..Fee
                           /\ MaxFaults \in Nat /\ Null \notin Nat
                           /\ IsFiniteSet(Payments)

VARIABLES
  issued,   \* what has happened at Razorpay: the events it has to tell
  acked,    \* the events that were answered with a 2xx
  ledger,   \* the payments table
  handling, \* the deliveries in progress
  faults    \* deliveries that failed

vars == <<issued, acked, ledger, handling, faults>>

\* back is what a refund gives back.
Event == [pay : Payments, kind : {"authorized", "failed", "captured"}, back : {0}]
           \cup [pay : Payments, kind : {"refund"}, back : Parts]

\* amount, back and conclave are null until an event has told them.
Row == [status : {"authorized", "failed", "captured", "refunded"},
        amount : {Fee, Null}, back : Parts \cup {Null}, conclave : {"known", Null}]

Delivery == [event : Event, conclave : {"known", Null}, before : Row \cup {Null}]

ASSUME LedgerNullAssumption == Null \notin Row \cup Delivery

\* webhook.controller: a delivery is acknowledged by its answer.
Init ==
  /\ issued = {} /\ acked = {}
  /\ ledger = [p \in Payments |-> Null]
  /\ handling = [h \in Handlers |-> Null]
  /\ faults = 0

-----------------------------------------------------------------------------
(* At Razorpay                                                             *)

Told(p, kind) == \E e \in issued : e.pay = p /\ e.kind = kind

Refunded(p) == {e.back : e \in {e \in issued : e.pay = p /\ e.kind = "refund"}}

\* A payment is authorized, may fail and still be captured late, and may be
\* given back in parts once it was captured.
Happen(e) ==
  /\ e \notin issued
  /\ e.kind \in {"authorized", "failed"} => ~Told(e.pay, "captured")
  /\ e.kind = "refund" => /\ Told(e.pay, "captured")
                          /\ SumSet(Refunded(e.pay) \cup {e.back}) <= Fee
  /\ issued' = issued \cup {e}
  /\ UNCHANGED <<acked, ledger, handling, faults>>

-----------------------------------------------------------------------------
(* recordPaymentEvent                                                      *)

\* ledgerStatus.
Status(e) == IF e.kind = "refund" THEN "refunded" ELSE e.kind

\* Who holds the row's lock: a delivery that found the row.
Unlocked(p) == \A h \in Handlers :
                 handling[h] # Null => handling[h].event.pay # p \/ handling[h].before = Null

\* A late failure does not undo a capture.
Ignored(e) == e.kind = "failed" /\ ledger[e.pay] # Null /\ ledger[e.pay].status = "captured"

\* The order's notes name the conclave, if Razorpay can be asked; a refund's
\* event has no order.
Begin(h, e, conclave) ==
  /\ e \in issued /\ handling[h] = Null
  /\ Unlocked(e.pay)
  /\ e.kind = "refund" => conclave = Null
  /\ ~Ignored(e)
  /\ handling' = [handling EXCEPT ![h] = [event |-> e, conclave |-> conclave,
                                          before |-> ledger[e.pay]]]
  /\ UNCHANGED <<issued, acked, ledger, faults>>

Ignore(e) ==
  /\ e \in issued
  /\ Unlocked(e.pay)
  /\ Ignored(e)
  /\ acked' = acked \cup {e}
  /\ UNCHANGED <<issued, ledger, handling, faults>>

Blank == [status |-> "authorized", amount |-> Null, back |-> Null, conclave |-> Null]

\* Slip: a payment's event writes every column.
PatchedAll(row, d) ==
  IF d.event.kind = "refund"
  THEN [row EXCEPT !.status = "refunded", !.back = d.event.back]
  ELSE [status |-> Status(d.event), amount |-> Fee, back |-> Null, conclave |-> d.conclave]

\* The columns an event writes. The conclave is the order's, else the one the
\* row had when the delivery read it.
Patched(row, d) ==
  IF d.event.kind = "refund"
  THEN [row EXCEPT !.status = "refunded", !.back = d.event.back]
  ELSE [row EXCEPT !.status = Status(d.event), !.amount = Fee,
                   !.conclave = IF d.conclave # Null \/ d.before = Null THEN d.conclave
                                ELSE d.before.conclave]

\* The insert, or the update of the row there is by now, waits for its lock.
Write(h) ==
  /\ handling[h] # Null
  /\ LET d == handling[h]
         p == d.event.pay
     IN /\ d.before # Null \/ Unlocked(p)
        /\ ledger' = [ledger EXCEPT ![p] = Patched(IF @ = Null THEN Blank ELSE @, d)]
        /\ acked' = acked \cup {d.event}
  /\ handling' = [handling EXCEPT ![h] = Null]
  /\ UNCHANGED <<issued, faults>>

\* Slip: the controller answers 200 whatever happened.
FailAcked(h) ==
  /\ handling[h] # Null /\ faults < MaxFaults
  /\ acked' = acked \cup {handling[h].event}
  /\ handling' = [handling EXCEPT ![h] = Null]
  /\ faults' = faults + 1
  /\ UNCHANGED <<issued, ledger>>

\* A crash, or a database that fails: rolled back and not answered with a 2xx.
Fail(h) ==
  /\ handling[h] # Null /\ faults < MaxFaults
  /\ handling' = [handling EXCEPT ![h] = Null]
  /\ faults' = faults + 1
  /\ UNCHANGED <<issued, acked, ledger>>

-----------------------------------------------------------------------------
Deliver(e) == Ignore(e) \/ \E h \in Handlers, conclave \in {"known", Null} : Begin(h, e, conclave)

Next == \/ \E e \in Event : Happen(e) \/ Deliver(e)
        \/ \E h \in Handlers : Write(h) \/ Fail(h)

\* A delivery that has begun ends. What was not answered is sent again, and again
\* and again finds a server free.
Fairness == /\ \A h \in Handlers : WF_vars(Write(h))
            /\ \A e \in Event : SF_vars(e \notin acked /\ Deliver(e))

Spec == Init /\ [][Next]_vars /\ Fairness

-----------------------------------------------------------------------------
(* getRevenue                                                              *)

\* Slip: whatever has not failed counts.
CountedUnlessFailed(row) == row # Null /\ row.status # "failed"

Counted(row) == row # Null /\ row.status \in {"captured", "refunded"}

OrZero(x) == IF x = Null THEN 0 ELSE x

Net(row) == OrZero(row.amount) - OrZero(row.back)

TotalRevenue == MapThenSumSet(LAMBDA p : Net(ledger[p]), {p \in Payments : Counted(ledger[p])})

-----------------------------------------------------------------------------
(* Properties                                                              *)

TypeOK ==
  /\ issued \subseteq Event /\ acked \subseteq issued
  /\ ledger \in [Payments -> Row \cup {Null}]
  /\ handling \in [Handlers -> Delivery \cup {Null}]
  /\ faults \in 0..MaxFaults

\* What the ledger knows it never forgets, in whatever order the events come and
\* however often: a payment's amount, that something was given back, and (but for
\* deliveries that ran beside the first one) its conclave (payments.service.ts:
\* 56-59).
NothingForgotten ==
  [][\A p \in Payments : ledger[p] # Null =>
       /\ ledger'[p] # Null
       /\ ledger[p].amount # Null => ledger'[p].amount # Null
       /\ ledger[p].back # Null => ledger'[p].back # Null
       /\ \/ ledger[p].conclave # Null => ledger'[p].conclave # Null
          \/ \E h \in Handlers : handling[h] # Null /\ handling[h].before = Null
                                 /\ handling[h].event.pay = p]_vars

\* The revenue shown is never more than what Razorpay has taken, whatever is
\* still on its way (payments.service.ts:115-166).
RevenueIsReal == TotalRevenue <= Fee * Cardinality({p \in Payments : Told(p, "captured")})

\* A payment that was captured is in the ledger with its amount in the end, and
\* one that was given back shows that (webhook.controller.ts:29-36).
LedgerCatchesUp ==
  \A p \in Payments :
    /\ Told(p, "captured") ~> ledger[p] # Null /\ ledger[p].amount = Fee
    /\ Told(p, "refund") ~> ledger[p] # Null /\ ledger[p].back # Null

\* A capture is never demoted by a late "failed" (payments.service.ts:58).
CaptureNeverDemoted ==
  [][\A p \in Payments : ledger[p] # Null /\ ledger[p].status = "captured" =>
                           ledger'[p].status # "failed"]_vars
=============================================================================

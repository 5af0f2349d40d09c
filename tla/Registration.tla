---------------------------- MODULE Registration ----------------------------
(***************************************************************************)
(* Who takes part in one conclave: members registering and withdrawing,    *)
(* admins adding, editing and removing them, online payment, and the       *)
(* seating schedule that is generated from the roster and then locked.     *)
(*                                                                         *)
(* The database runs each transaction READ COMMITTED.  One that locks the  *)
(* conclave's row FOR UPDATE is a single step, taken while nobody shares   *)
(* the row; one that locks it FOR SHARE is a single step too, except that  *)
(* adding a member counts first and inserts later, beside other sharers.   *)
(* What is read before a transaction is a step of its own.                 *)
(***************************************************************************)
EXTENDS Integers, FiniteSets

CONSTANTS Members,
          Requests,         \* slots for requests in flight, on any server
          Limits,           \* bound: the member limits an admin may set
          PersonsPerTable,
          Additions,        \* bound: the bodies an admin may add a member with, and their rank
          Null

ASSUME RegistrationAssumption == /\ Limits \subseteq Nat \ {0}
                                 /\ PersonsPerTable \in Nat \ {0, 1}
                                 /\ IsFiniteSet(Members)
                                 /\ Additions \subseteq [role : {"member", "captain"},
                                                         paid : BOOLEAN, super : BOOLEAN]
                                 /\ Null \notin Nat

Roles      == {"member", "captain"}
RoleLocked == {"running", "completed", "cancelled"}

VARIABLES
  con,     \* the conclave's row
  reg,     \* the registrations
  charged, \* the members who paid an order for this conclave at Razorpay
  rq       \* the requests in flight

vars == <<con, reg, charged, rq>>

\* "planned" is any status before the first round; open is what both the stored
\* flag and the evaluation of overrides and dates say (module Conclave); seats
\* are the members of the stored schedule, none before there is one. A limit of 0 is
\* none, which only an imported conclave has.
ConType == [open : BOOLEAN, seats : SUBSET Members, locked : BOOLEAN,
            status : {"planned"} \cup RoleLocked, allow : BOOLEAN, limit : Limits \cup {0}]

\* Of a payment the rules tell apart whether it is paid, and whether it names
\* an order at Razorpay.
Registrations == [role : Roles, confirmed : BOOLEAN, paid : BOOLEAN, online : BOOLEAN,
                  addedBy : {"self", "admin", "super"}, table : (Nat \ {0}) \cup {Null}]

\* Beside are the members whom other additions inserted since this one counted: not
\* in the code, and kept for the properties.
Request == [op : {"register", "add", "insert"}, m : Members, role : Roles,
            paid : BOOLEAN, super : BOOLEAN, beside : SUBSET Members]

ASSUME NullAssumption == Null \notin Registrations \cup Request

Registered == {m \in Members : reg[m] # Null}

Init ==
  /\ con \in [open : BOOLEAN, seats : {{}}, locked : {FALSE}, status : {"planned"},
              allow : {FALSE}, limit : Limits \cup {0}]
  /\ reg = [m \in Members |-> Null]
  /\ charged = {}
  /\ rq = [c \in Requests |-> Null]

-----------------------------------------------------------------------------
\* The row lock: FOR UPDATE waits for every transaction that shares the row.
Unshared == \A c \in Requests : rq[c] # Null => rq[c].op # "insert"

Scheduled == con.seats # {}

\* assertOpen.
Open == con.open /\ ~con.locked

Full == con.limit # 0 /\ Cardinality(Registered) >= con.limit

Frozen == con.locked \/ con.status \in RoleLocked

MayManage(super) == super \/ con.allow

Take(c, r) == rq[c] = Null /\ rq' = [rq EXCEPT ![c] = r]
Finish(c)  == rq' = [rq EXCEPT ![c] = Null]

-----------------------------------------------------------------------------
(* Members                                                                 *)

\* createPaymentOrder, for a member whom assertRegisterable lets through, and the
\* member pays: Razorpay captures the money, then or later. Without a fee nobody
\* gets here.
PayOrder(m) ==
  /\ Open
  /\ reg[m] = Null
  /\ charged' = charged \cup {m}
  /\ UNCHANGED <<con, reg, rq>>

\* Slip: the order need not be paid.
CheckOrderUnpaid(c, m, online) ==
  /\ Open
  /\ reg[m] = Null
  /\ Take(c, [op |-> "register", m |-> m, role |-> "member", paid |-> online, super |-> FALSE,
              beside |-> {}])
  /\ UNCHANGED <<con, reg, charged>>

\* register, before its transaction: what assertRegisterable finds and what
\* Razorpay answers to verifyPayment. Otherwise there is no fee, or the member
\* says they paid offline and an admin confirms it later.
CheckRegister(c, m, online) ==
  /\ Open
  /\ reg[m] = Null
  /\ online => m \in charged
  /\ Take(c, [op |-> "register", m |-> m, role |-> "member", paid |-> online, super |-> FALSE,
              beside |-> {}])
  /\ UNCHANGED <<con, reg, charged>>

\* A request's insert does nothing when the member is registered by then.
Insert(r, confirmed, addedBy) ==
  IF reg[r.m] # Null THEN reg
  ELSE [reg EXCEPT ![r.m] = [role |-> r.role, confirmed |-> confirmed, paid |-> r.paid,
                             online |-> addedBy = "self" /\ r.paid, addedBy |-> addedBy,
                             table |-> Null]]

\* Slip: it only shares the row.
RegisterShared(c) ==
  /\ rq[c] # Null /\ rq[c].op = "register"
  /\ Open
  /\ ~Full
  /\ reg' = Insert(rq[c], rq[c].paid, "self")
  /\ Finish(c)
  /\ UNCHANGED <<con, charged>>

\* ... and its transaction, under the lock: open and not full, checked again.
Register(c) ==
  /\ rq[c] # Null /\ rq[c].op = "register"
  /\ Unshared
  /\ Open
  /\ ~Full
  /\ reg' = Insert(rq[c], rq[c].paid, "self")
  /\ Finish(c)
  /\ UNCHANGED <<con, charged>>

\* Withdrawing: before there is a schedule, and never once paid.
Deregister(m) ==
  /\ reg[m] # Null
  /\ ~Scheduled /\ con.status \notin RoleLocked
  /\ ~reg[m].paid
  /\ reg' = [reg EXCEPT ![m] = Null]
  /\ UNCHANGED <<con, charged, rq>>

-----------------------------------------------------------------------------
(* Admins                                                                  *)

\* setPermissions, for a superadmin.
SetPermissions(allow) ==
  /\ Unshared
  /\ con.allow # allow
  /\ con' = [con EXCEPT !.allow = allow]
  /\ UNCHANGED <<reg, charged, rq>>

\* addMember, before its transaction.
CheckAdd(c, m, body) ==
  /\ MayManage(body.super)
  /\ ~Frozen
  /\ Take(c, [op |-> "add", m |-> m, role |-> body.role, paid |-> body.paid, super |-> body.super,
              beside |-> {}])
  /\ UNCHANGED <<con, reg, charged>>

\* Slip: the schedule may have been locked since.
CountUnfrozen(c) ==
  /\ rq[c] # Null /\ rq[c].op = "add"
  /\ rq[c].super \/ ~Full
  /\ rq' = [rq EXCEPT ![c].op = "insert"]
  /\ UNCHANGED <<con, reg, charged>>

\* ... which shares the row, checks again and counts, ...
Count(c) ==
  /\ rq[c] # Null /\ rq[c].op = "add"
  /\ ~Frozen
  /\ rq[c].super \/ ~Full
  /\ rq' = [rq EXCEPT ![c].op = "insert"]
  /\ UNCHANGED <<con, reg, charged>>

\* ... and inserts and commits; a member who is registered by then is refused.
Add(c) ==
  /\ rq[c] # Null /\ rq[c].op = "insert"
  /\ reg' = Insert(rq[c], TRUE, IF rq[c].super THEN "super" ELSE "admin")
  /\ rq' = [d \in Requests |->
              IF d = c THEN Null
              ELSE IF rq[d] # Null /\ rq[d].op = "insert" /\ reg[rq[c].m] = Null
                THEN [rq[d] EXCEPT !.beside = @ \cup {rq[c].m}]
                ELSE rq[d]]
  /\ UNCHANGED <<con, charged>>

\* updateMember; a body that leaves a field out says what is stored.
UpdateMember(m, super, role, paid) ==
  /\ MayManage(super)
  /\ reg[m] # Null
  /\ role # reg[m].role => ~Frozen
  /\ reg' = [reg EXCEPT ![m].role = role, ![m].paid = paid, ![m].confirmed = @ \/ paid]
  /\ UNCHANGED <<con, charged, rq>>

RemoveMember(m, super) ==
  /\ MayManage(super)
  /\ ~Frozen
  /\ reg[m] # Null
  /\ reg' = [reg EXCEPT ![m] = Null]
  /\ UNCHANGED <<con, charged, rq>>

\* role.service's setRole.
SetRole(m, role) ==
  /\ con.status \notin RoleLocked
  /\ reg[m] # Null
  /\ reg' = [reg EXCEPT ![m].role = role]
  /\ UNCHANGED <<con, charged, rq>>

-----------------------------------------------------------------------------
(* The conclave                                                            *)

TablesFor(people) == (Cardinality(people) + PersonsPerTable - 1) \div PersonsPerTable

\* validate, as far as it counts heads: enough people for a table, and members left
\* beside the captains. (Business categories may refuse more.)
Seatable(people) ==
  /\ Cardinality(people) >= PersonsPerTable
  /\ Cardinality(people) > TablesFor(people)

\* One captain for each table, from the designated ones if there are any (too
\* few are refused); otherwise the system fills in.
CaptainChoices(people) ==
  LET designated == {m \in people : reg[m].role = "captain"}
  IN  {C \in SUBSET (IF designated = {} THEN people ELSE designated) :
         Cardinality(C) = TablesFor(people)}

\* The roster follows the schedule: the roles and the captains' tables of those
\* it seats.
Seated(people, tables) ==
  \E C \in CaptainChoices(people), tableOf \in [people -> tables] :
    /\ \A a, b \in C : tableOf[a] = tableOf[b] => a = b
    /\ reg' = [m \in Members |->
                 IF m \notin people THEN reg[m]
                 ELSE [reg[m] EXCEPT !.role  = IF m \in C THEN "captain" ELSE "member",
                                     !.table = IF m \in C THEN tableOf[m] ELSE Null]]

\* Slip: tables are numbered from 0.
GenerateFromZero(people) ==
  /\ Unshared
  /\ con.status \notin RoleLocked
  /\ Seatable(people)
  /\ Seated(people, 0..TablesFor(people) - 1)
  /\ con' = [con EXCEPT !.seats = people, !.open = FALSE]
  /\ UNCHANGED <<charged, rq>>

\* generateForConclave seats the registered members, or the active ones only.
GenerateSchedule(people) ==
  /\ Unshared
  /\ con.status \notin RoleLocked
  /\ Seatable(people)
  /\ Seated(people, 1..TablesFor(people))
  /\ con' = [con EXCEPT !.seats = people, !.open = FALSE]
  /\ UNCHANGED <<charged, rq>>

LockSchedule ==
  /\ Unshared
  /\ Scheduled /\ ~con.locked
  /\ con' = [con EXCEPT !.locked = TRUE, !.open = FALSE,
                        !.status = IF @ = "completed" THEN @ ELSE "planned"]
  /\ UNCHANGED <<reg, charged, rq>>

\* setRegistrationOpen, or an edit of the dates: once there is a schedule the
\* evaluation says closed whatever is asked.
SetRegistrationOpen(open) ==
  /\ Unshared
  /\ con.status \notin RoleLocked
  /\ con' = [con EXCEPT !.open = open /\ ~Scheduled /\ ~con.locked]
  /\ UNCHANGED <<reg, charged, rq>>

\* The registration window closes by the clock.
WindowEnds ==
  /\ con.open
  /\ con' = [con EXCEPT !.open = FALSE]
  /\ UNCHANGED <<reg, charged, rq>>

\* updateConclave's memberLimit, which never counts who is registered already.
UpdateLimit(limit) ==
  /\ Unshared
  /\ con.status \notin {"running", "completed"}
  /\ con' = [con EXCEPT !.limit = limit]
  /\ UNCHANGED <<reg, charged, rq>>

CancelConclave ==
  /\ Unshared
  /\ con.status = "planned"
  /\ con' = [con EXCEPT !.status = "cancelled", !.open = FALSE]
  /\ UNCHANGED <<reg, charged, rq>>

\* Round 1 starts on a locked schedule.
StartRound ==
  /\ Unshared
  /\ con.status = "planned" /\ con.locked
  /\ con' = [con EXCEPT !.status = "running"]
  /\ UNCHANGED <<reg, charged, rq>>

CompleteConclave ==
  /\ Unshared
  /\ con.status = "running"
  /\ con' = [con EXCEPT !.status = "completed"]
  /\ UNCHANGED <<reg, charged, rq>>

\* A request is refused, or dies with its server and its transaction with it.
Refuse(c) ==
  /\ rq[c] # Null
  /\ Finish(c)
  /\ UNCHANGED <<con, reg, charged>>

-----------------------------------------------------------------------------
MemberStep ==
  \E m \in Members :
    \/ PayOrder(m)
    \/ Deregister(m)
    \/ \E c \in Requests, online \in BOOLEAN : CheckRegister(c, m, online)

AdminStep ==
  \/ \E allow \in BOOLEAN : SetPermissions(allow)
  \/ \E m \in Members, super \in BOOLEAN :
       \/ RemoveMember(m, super)
       \/ \E role \in Roles, paid \in BOOLEAN : UpdateMember(m, super, role, paid)
  \/ \E m \in Members, c \in Requests, body \in Additions : CheckAdd(c, m, body)
  \/ \E m \in Members, role \in Roles : SetRole(m, role)

ConclaveStep ==
  \/ \E people \in SUBSET Registered : GenerateSchedule(people)
  \/ LockSchedule
  \/ \E open \in BOOLEAN : SetRegistrationOpen(open)
  \/ \E limit \in Limits : UpdateLimit(limit)
  \/ CancelConclave
  \/ StartRound
  \/ CompleteConclave
  \/ WindowEnds

Next ==
  \/ MemberStep
  \/ AdminStep
  \/ ConclaveStep
  \/ \E c \in Requests : Register(c) \/ Count(c) \/ Add(c) \/ Refuse(c)

Spec == Init /\ [][Next]_vars
-----------------------------------------------------------------------------
(* Properties                                                              *)

\* Type invariant.
TypeOK == /\ con \in ConType
          /\ reg \in [Members -> Registrations \cup {Null}]
          /\ charged \subseteq Members
          /\ rq \in [Requests -> Request \cup {Null}]

\* Once the schedule is locked nobody joins or leaves the roster, however early
\* the request was checked: the seating on every phone matches the member list.
LockedRosterFixed ==
  [][con.locked => Registered' = Registered]_vars

\* What an admin's addition counted stays true until it inserts, whoever registers,
\* withdraws or changes the limit meanwhile: it can take the roster beyond the limit
\* only by the members whom other additions insert beside it.
CountStillHolds ==
  \A c \in Requests :
    rq[c] # Null /\ rq[c].op = "insert" /\ ~rq[c].super /\ con.limit # 0
      => Cardinality(Registered \ rq[c].beside) < con.limit

\* A registration that names an order is backed by one that this member paid,
\* after every edit and re-registration.
OnlineIsPaid == \A m \in Registered : reg[m].online => m \in charged

\* Whom the member limit counts, but for those a superadmin added.
Limited == {m \in Registered : reg[m].addedBy # "super"}

\* "so two last-seat registrations can't both pass the member-limit check": only a
\* superadmin, and a limit that is lowered, take the roster beyond the limit.
LimitIsKept ==
  [][con.limit # 0 /\ con'.limit = con.limit /\ Cardinality(Limited) <= con.limit
       => Cardinality(Limited') <= con.limit]_vars

\* "Roster follows the schedule": no two members are captains of one table, however
\* often the schedule is generated again.
OneCaptainPerTable ==
  \A m, n \in Registered :
    (reg[m].role = "captain" /\ reg[n].role = "captain" /\ reg[m].table # Null
       /\ reg[m].table = reg[n].table) => m = n
=============================================================================

------------------------ MODULE RegistrationProofs ------------------------
(***************************************************************************)
(* Proofs about Registration: its state is well typed, and once the        *)
(* schedule is locked the roster no longer changes.  The invariant behind  *)
(* the second one is that a member about to be inserted holds the          *)
(* conclave's row, so that nobody can lock the schedule meanwhile, and     *)
(* that a locked schedule exists, so that nobody can withdraw.             *)
(***************************************************************************)
EXTENDS Registration, FiniteSetTheorems, TLAPS

\* A request that is about to insert found the schedule unlocked, and still does.
InsertsUnlocked == \A c \in Requests : rq[c] # Null /\ rq[c].op = "insert" => ~con.locked

LockedIsScheduled == con.locked => Scheduled

RosterInv == TypeOK /\ InsertsUnlocked /\ LockedIsScheduled

LEMMA RosterInit == Init => RosterInv
  BY DEF Init, RosterInv, TypeOK, ConType, InsertsUnlocked, LockedIsScheduled, RoleLocked

LEMMA TablesAreNumbers ==
  ASSUME NEW people \in SUBSET Members
  PROVE  \A t \in 1..TablesFor(people) : t \in Nat \ {0}
<1>1. Cardinality(people) \in Nat
  BY RegistrationAssumption, FS_Subset, FS_CardinalityType
<1>2. TablesFor(people) \in Int
  BY <1>1, RegistrationAssumption DEF TablesFor
<1> QED
  BY <1>2

\* Inserting adds a well typed registration, or nothing.
LEMMA InsertType ==
  ASSUME TypeOK, NEW r \in Request, NEW confirmed \in BOOLEAN,
         NEW by \in {"self", "admin", "super"}
  PROVE  Insert(r, confirmed, by) \in [Members -> Registrations \cup {Null}]
  BY DEF TypeOK, Insert, Request, Registrations

\* The seating is written to registered members, and keeps them registered.
LEMMA SeatedRoster ==
  ASSUME TypeOK, NEW people \in SUBSET Registered, Seated(people, 1..TablesFor(people))
  PROVE  reg' \in [Members -> Registrations \cup {Null}] /\ Registered' = Registered
<1>1. PICK C \in CaptainChoices(people), tableOf \in [people -> 1..TablesFor(people)] :
        reg' = [m \in Members |->
                  IF m \notin people THEN reg[m]
                  ELSE [reg[m] EXCEPT !.role  = IF m \in C THEN "captain" ELSE "member",
                                      !.table = IF m \in C THEN tableOf[m] ELSE Null]]
  BY DEF Seated
<1>2. people \in SUBSET Members
  BY DEF Registered
<1>3. ASSUME NEW m \in people
      PROVE  reg[m] \in Registrations /\ reg'[m] \in Registrations
  <2>1. m \in Members /\ reg[m] \in Registrations
    BY <1>3 DEF Registered, TypeOK
  <2>2. tableOf[m] \in Nat \ {0}
    BY <1>2, <1>3, TablesAreNumbers
  <2> DEFINE role  == IF m \in C THEN "captain" ELSE "member"
             table == IF m \in C THEN tableOf[m] ELSE Null
  <2>3. role \in Roles /\ table \in (Nat \ {0}) \cup {Null}
    BY <2>2 DEF Roles
  <2>4. reg'[m] = [reg[m] EXCEPT !.role = role, !.table = table]
    BY <1>1, <1>3, <2>1
  <2> HIDE DEF role, table
  <2>5. [reg[m] EXCEPT !.role = role, !.table = table] \in Registrations
    BY <2>1, <2>3 DEF Registrations
  <2> QED
    BY <2>1, <2>4, <2>5
<1>4. \A m \in Members \ people : reg'[m] = reg[m]
  BY <1>1
<1>5. reg' \in [Members -> Registrations \cup {Null}]
  <2>1. reg' = [m \in Members |-> reg'[m]]
    BY <1>1
  <2>2. \A m \in Members : reg'[m] \in Registrations \cup {Null}
    BY <1>3, <1>4 DEF TypeOK
  <2> QED
    BY <2>1, <2>2
<1>6. \A m \in Members : reg'[m] # Null <=> reg[m] # Null
  BY <1>3, <1>4, NullAssumption
<1> QED
  BY <1>5, <1>6 DEF Registered

\* Inserting, an addition notes itself with those beside it and changes nothing else
\* of them.
LEMMA AddTypes ==
  ASSUME TypeOK, NEW c \in Requests, Add(c)
  PROVE  /\ rq' \in [Requests -> Request \cup {Null}]
         /\ \A d \in Requests :
              rq'[d] # Null =>
                /\ d # c /\ rq[d] # Null
                /\ rq'[d].op = rq[d].op /\ rq'[d].m = rq[d].m
                /\ rq'[d].paid = rq[d].paid /\ rq'[d].super = rq[d].super
                /\ rq'[d].beside = IF rq[d].op = "insert" /\ reg[rq[c].m] = Null
                                     THEN rq[d].beside \cup {rq[c].m} ELSE rq[d].beside
<1> DEFINE new(d) == [rq[d] EXCEPT !.beside = rq[d].beside \cup {rq[c].m}]
<1>0. rq[c].m \in Members
  BY DEF Add, TypeOK, Request
<1>1. \A d \in Requests : rq[d] # Null =>
        /\ new(d) \in Request /\ new(d).beside = rq[d].beside \cup {rq[c].m}
        /\ new(d).op = rq[d].op /\ new(d).m = rq[d].m
        /\ new(d).paid = rq[d].paid /\ new(d).super = rq[d].super
  BY <1>0 DEF TypeOK, Request
<1>2. rq' = [d \in Requests |->
               IF d = c THEN Null
               ELSE IF rq[d] # Null /\ rq[d].op = "insert" /\ reg[rq[c].m] = Null
                 THEN new(d)
                 ELSE rq[d]]
  BY DEF Add
<1> HIDE DEF new
<1> QED
  BY <1>1, <1>2 DEF TypeOK

-----------------------------------------------------------------------------
\* Every step keeps the invariant, and leaves a locked roster alone.
LEMMA RosterStep ==
  ASSUME RosterInv, [Next]_vars
  PROVE  RosterInv' /\ (con.locked => Registered' = Registered)
<1> USE DEF RosterInv
<1>1. CASE UNCHANGED vars
  BY <1>1 DEF vars, TypeOK, InsertsUnlocked, LockedIsScheduled, Scheduled, Registered
<1>2. CASE MemberStep
  <2>1. ASSUME NEW m \in Members, PayOrder(m)
        PROVE  RosterInv' /\ Registered' = Registered
    BY <2>1 DEF PayOrder, TypeOK, InsertsUnlocked, LockedIsScheduled, Scheduled, Registered
  <2>2. ASSUME NEW m \in Members, Deregister(m)
        PROVE  RosterInv' /\ ~con.locked
    <3>1. ~con.locked
      BY <2>2 DEF Deregister, LockedIsScheduled
    <3>2. TypeOK'
      BY <2>2 DEF Deregister, TypeOK
    <3> QED
      BY <2>2, <3>1, <3>2 DEF Deregister, InsertsUnlocked, LockedIsScheduled, Scheduled
  <2>3. ASSUME NEW m \in Members, NEW c \in Requests, NEW online \in BOOLEAN,
               CheckRegister(c, m, online)
        PROVE  RosterInv' /\ Registered' = Registered
    <3>1. [op |-> "register", m |-> m, role |-> "member", paid |-> online,
           super |-> FALSE, beside |-> {}] \in Request
      BY DEF Request, Roles
    <3> QED
      BY <2>3, <3>1
      DEF CheckRegister, Take, TypeOK, InsertsUnlocked, LockedIsScheduled, Scheduled, Registered
  <2> QED
    BY <1>2, <2>1, <2>2, <2>3 DEF MemberStep
<1>3. CASE AdminStep
  <2>1. ASSUME NEW allow \in BOOLEAN, SetPermissions(allow)
        PROVE  RosterInv' /\ Registered' = Registered
    BY <2>1 DEF SetPermissions, TypeOK, ConType, InsertsUnlocked, LockedIsScheduled, Scheduled,
                Registered
  <2>2. ASSUME NEW m \in Members, NEW super \in BOOLEAN, RemoveMember(m, super)
        PROVE  RosterInv' /\ ~con.locked
    BY <2>2 DEF RemoveMember, Frozen, TypeOK, InsertsUnlocked, LockedIsScheduled, Scheduled
  <2>3. ASSUME NEW m \in Members, NEW super \in BOOLEAN, NEW role \in Roles,
               NEW paid \in BOOLEAN, UpdateMember(m, super, role, paid)
        PROVE  RosterInv' /\ Registered' = Registered
    <3>1. reg[m] \in Registrations
      BY <2>3 DEF UpdateMember, TypeOK
    <3> DEFINE confirmed == reg[m].confirmed \/ paid
               new == [reg[m] EXCEPT !.role = role, !.paid = paid, !.confirmed = confirmed]
    <3>2. confirmed \in BOOLEAN
      OBVIOUS
    <3>3. new \in Registrations
      <4> HIDE DEF confirmed
      <4> QED BY <3>1, <3>2 DEF Registrations
    <3>4. reg' = [reg EXCEPT ![m] = new]
      BY <2>3 DEF UpdateMember, TypeOK
    <3> HIDE DEF new
    <3>5. reg' \in [Members -> Registrations \cup {Null}] /\ UNCHANGED <<con, charged, rq>>
      <4>1. reg \in [Members -> Registrations \cup {Null}] /\ UNCHANGED <<con, charged, rq>>
        BY <2>3 DEF UpdateMember, TypeOK
      <4> QED
        BY <3>3, <3>4, <4>1
    <3>t. TypeOK'
      BY <3>5 DEF TypeOK
    <3>6. \A n \in Members : reg'[n] # Null <=> reg[n] # Null
      BY <3>1, <3>3, <3>4, NullAssumption DEF TypeOK
    <3>7. Registered' = Registered
      BY <3>6 DEF Registered
    <3> QED
      BY <3>5, <3>t, <3>7 DEF InsertsUnlocked, LockedIsScheduled, Scheduled
  <2>4. ASSUME NEW m \in Members, NEW c \in Requests, NEW body \in Additions,
               CheckAdd(c, m, body)
        PROVE  RosterInv' /\ Registered' = Registered
    <3>1. [op |-> "add", m |-> m, role |-> body.role, paid |-> body.paid,
           super |-> body.super, beside |-> {}] \in Request
      <4>1. body \in [role : {"member", "captain"}, paid : BOOLEAN, super : BOOLEAN]
        BY RegistrationAssumption
      <4> QED BY <4>1 DEF Request, Roles
    <3> QED
      BY <2>4, <3>1
      DEF CheckAdd, Take, TypeOK, InsertsUnlocked, LockedIsScheduled, Scheduled, Registered
  <2>5. ASSUME NEW m \in Members, NEW role \in Roles, SetRole(m, role)
        PROVE  RosterInv' /\ Registered' = Registered
    <3>1. reg[m] \in Registrations
      BY <2>5 DEF SetRole, TypeOK
    <3>2. [reg[m] EXCEPT !.role = role] \in Registrations
      BY <3>1 DEF Registrations
    <3>3. TypeOK'
      BY <2>5, <3>2 DEF SetRole, TypeOK
    <3>4. \A n \in Members : reg'[n] # Null <=> reg[n] # Null
      BY <2>5, <3>1, <3>2, NullAssumption DEF SetRole, TypeOK
    <3>5. Registered' = Registered
      BY <3>4 DEF Registered
    <3> QED
      BY <2>5, <3>3, <3>5 DEF SetRole, InsertsUnlocked, LockedIsScheduled, Scheduled
  <2> QED
    BY <1>3, <2>1, <2>2, <2>3, <2>4, <2>5 DEF AdminStep
<1>4. CASE ConclaveStep
  <2>1. ASSUME NEW people \in SUBSET Registered, GenerateSchedule(people)
        PROVE  RosterInv' /\ Registered' = Registered
    <3>1. reg' \in [Members -> Registrations \cup {Null}] /\ Registered' = Registered
      BY <2>1, SeatedRoster DEF GenerateSchedule
    <3>2. people \in SUBSET Members /\ people # {}
      <4>1. Cardinality({}) = 0
        BY FS_EmptySet
      <4>2. Cardinality(people) >= PersonsPerTable /\ PersonsPerTable > 0
        BY <2>1, RegistrationAssumption DEF GenerateSchedule, Seatable
      <4> QED BY <4>1, <4>2, RegistrationAssumption DEF Registered
    <3> QED
      BY <2>1, <3>1, <3>2
      DEF GenerateSchedule, TypeOK, ConType, InsertsUnlocked, LockedIsScheduled, Scheduled
  <2>2. ASSUME LockSchedule
        PROVE  RosterInv' /\ Registered' = Registered
    BY <2>2 DEF LockSchedule, Unshared, TypeOK, ConType, InsertsUnlocked, LockedIsScheduled,
                Scheduled, Registered
  <2>3. ASSUME NEW open \in BOOLEAN, SetRegistrationOpen(open)
        PROVE  RosterInv' /\ Registered' = Registered
    <3> DEFINE o == open /\ ~Scheduled /\ ~con.locked
    <3>1. o \in BOOLEAN /\ con' = [con EXCEPT !.open = o] /\ UNCHANGED <<reg, charged, rq>>
      BY <2>3 DEF SetRegistrationOpen
    <3> HIDE DEF o
    <3> QED
      BY <3>1 DEF TypeOK, ConType, InsertsUnlocked, LockedIsScheduled, Scheduled, Registered
  <2>4. ASSUME CancelConclave \/ StartRound \/ CompleteConclave
        PROVE  RosterInv' /\ Registered' = Registered
    <3>1. /\ con' \in ConType /\ UNCHANGED <<reg, charged, rq>>
          /\ con'.locked = con.locked /\ con'.seats = con.seats
      BY <2>4 DEF CancelConclave, StartRound, CompleteConclave, RoleLocked, TypeOK, ConType
    <3> QED
      BY <3>1 DEF TypeOK, InsertsUnlocked, LockedIsScheduled, Scheduled, Registered
  <2>6. ASSUME NEW limit \in Limits, UpdateLimit(limit)
        PROVE  RosterInv' /\ Registered' = Registered
    BY <2>6 DEF UpdateLimit, TypeOK, ConType, InsertsUnlocked, LockedIsScheduled, Scheduled,
                Registered
  <2>5. ASSUME WindowEnds
        PROVE  RosterInv' /\ Registered' = Registered
    BY <2>5 DEF WindowEnds, TypeOK, ConType, InsertsUnlocked, LockedIsScheduled, Scheduled,
                Registered
  <2> QED
    BY <1>4, <2>1, <2>2, <2>3, <2>4, <2>5, <2>6 DEF ConclaveStep
<1>5. ASSUME NEW c \in Requests, Register(c) \/ Count(c) \/ Add(c) \/ Refuse(c)
      PROVE  RosterInv' /\ (con.locked => Registered' = Registered)
  <2>1. rq[c] \in Request
    BY <1>5 DEF Register, Count, Add, Refuse, TypeOK
  <2>2. CASE Register(c)
    <3>1. Insert(rq[c], rq[c].paid, "self") \in [Members -> Registrations \cup {Null}]
      BY <2>1, InsertType DEF Request
    <3>2. ~con.locked
      BY <2>2 DEF Register, Open
    <3> QED
      BY <2>2, <3>1, <3>2
      DEF Register, Finish, TypeOK, InsertsUnlocked, LockedIsScheduled, Scheduled
  <2>3. CASE Count(c)
    <3>1. [rq[c] EXCEPT !.op = "insert"] \in Request
      BY <2>1 DEF Request
    <3>2. rq' = [rq EXCEPT ![c] = [rq[c] EXCEPT !.op = "insert"]]
      BY <2>3 DEF Count
    <3> QED
      BY <2>3, <3>1, <3>2
      DEF Count, Frozen, TypeOK, InsertsUnlocked, LockedIsScheduled, Scheduled, Registered
  <2>4. CASE Add(c)
    <3>1. Insert(rq[c], TRUE, IF rq[c].super THEN "super" ELSE "admin")
            \in [Members -> Registrations \cup {Null}]
      BY <2>1, InsertType
    <3>2. ~con.locked
      BY <2>4 DEF Add, InsertsUnlocked
    <3>3. rq' \in [Requests -> Request \cup {Null}]
      BY <2>4, AddTypes
    <3>4. TypeOK'
      BY <2>4, <3>1, <3>3 DEF Add, TypeOK
    <3> QED
      BY <2>4, <3>2, <3>4 DEF Add, InsertsUnlocked, LockedIsScheduled, Scheduled
  <2>5. CASE Refuse(c)
    BY <2>5 DEF Refuse, Finish, TypeOK, InsertsUnlocked, LockedIsScheduled, Scheduled, Registered
  <2> QED
    BY <1>5, <2>2, <2>3, <2>4, <2>5
<1> QED
  BY <1>1, <1>2, <1>3, <1>4, <1>5 DEF Next

\* The state is always well typed.
THEOREM RosterTyped == Spec => []TypeOK
<1>1. Spec => []RosterInv
  BY RosterInit, RosterStep, PTL DEF Spec
<1> QED
  BY <1>1, PTL DEF RosterInv

\* Whatever requests are in flight when an admin locks the schedule, nobody joins
\* or leaves the roster from then on.
THEOREM LockedRoster == Spec => LockedRosterFixed
<1>1. Spec => []RosterInv
  BY RosterInit, RosterStep, PTL DEF Spec
<1>2. RosterInv /\ [Next]_vars => [con.locked => Registered' = Registered]_vars
  BY RosterStep
<1> QED
  BY <1>1, <1>2, PTL DEF Spec, LockedRosterFixed

-----------------------------------------------------------------------------
(* Where a registration comes from                                         *)

\* m's registration is as old as before, or an admin's.
SameOrAdmins(m) ==
  reg'[m] # Null =>
    \/ reg[m] # Null /\ reg'[m].addedBy = reg[m].addedBy /\ reg'[m].online = reg[m].online
    \/ reg'[m].addedBy # "self" /\ ~reg'[m].online

LEMMA Origins ==
  ASSUME TypeOK, Next
  PROVE  (\E c \in Requests : Register(c)) \/ (\A m \in Members : SameOrAdmins(m))
<1> SUFFICES ASSUME ~\E c \in Requests : Register(c), NEW m \in Members, reg'[m] # Null
             PROVE  \/ reg[m] # Null /\ reg'[m].addedBy = reg[m].addedBy /\ reg'[m].online = reg[m].online
                    \/ reg'[m].addedBy # "self" /\ ~reg'[m].online
  BY DEF SameOrAdmins
<1>r. reg[m] # Null => reg[m] \in Registrations
  BY DEF TypeOK
<1>1. CASE MemberStep
  BY <1>1 DEF MemberStep, PayOrder, Deregister, CheckRegister, TypeOK
<1>2. CASE AdminStep
  <2>1. ASSUME NEW n \in Members, NEW super \in BOOLEAN, NEW role \in Roles, NEW paid \in BOOLEAN,
               UpdateMember(n, super, role, paid)
        PROVE  reg[m] # Null /\ reg'[m].addedBy = reg[m].addedBy /\ reg'[m].online = reg[m].online
    BY <1>r, <2>1 DEF UpdateMember, TypeOK, Registrations
  <2>2. ASSUME NEW n \in Members, NEW role \in Roles, SetRole(n, role)
        PROVE  reg[m] # Null /\ reg'[m].addedBy = reg[m].addedBy /\ reg'[m].online = reg[m].online
    BY <1>r, <2>2 DEF SetRole, TypeOK, Registrations
  <2>3. ASSUME NEW n \in Members, NEW super \in BOOLEAN, RemoveMember(n, super)
        PROVE  reg[m] # Null /\ reg'[m] = reg[m]
    BY <2>3 DEF RemoveMember, TypeOK
  <2> QED
    BY <1>2, <2>1, <2>2, <2>3 DEF AdminStep, SetPermissions, CheckAdd
<1>3. CASE ConclaveStep
  <2>1. ASSUME NEW people \in SUBSET Registered, GenerateSchedule(people)
        PROVE  reg[m] # Null /\ reg'[m].addedBy = reg[m].addedBy /\ reg'[m].online = reg[m].online
    <3>1. PICK C \in CaptainChoices(people), tableOf \in [people -> 1..TablesFor(people)] :
            reg' = [n \in Members |->
                      IF n \notin people THEN reg[n]
                      ELSE [reg[n] EXCEPT !.role  = IF n \in C THEN "captain" ELSE "member",
                                          !.table = IF n \in C THEN tableOf[n] ELSE Null]]
      BY <2>1 DEF GenerateSchedule, Seated
    <3>2. CASE m \in people
      <4> DEFINE role  == IF m \in C THEN "captain" ELSE "member"
                 table == IF m \in C THEN tableOf[m] ELSE Null
      <4>1. reg'[m] = [reg[m] EXCEPT !.role = role, !.table = table] /\ reg[m] # Null
        BY <3>1, <3>2 DEF Registered
      <4> HIDE DEF role, table
      <4> QED
        BY <1>r, <4>1 DEF Registrations
    <3> QED
      BY <3>1, <3>2
  <2> QED
    BY <1>3, <2>1 DEF ConclaveStep, LockSchedule, SetRegistrationOpen, UpdateLimit, CancelConclave,
                      StartRound, CompleteConclave, WindowEnds
<1>4. ASSUME NEW c \in Requests, Count(c) \/ Add(c) \/ Refuse(c)
      PROVE  \/ reg[m] # Null /\ reg'[m] = reg[m]
             \/ reg'[m].addedBy # "self" /\ ~reg'[m].online
  <2>1. CASE Add(c)
    <3> DEFINE by == IF rq[c].super THEN "super" ELSE "admin"
    <3>1. reg' = Insert(rq[c], TRUE, by) /\ by # "self"
      BY <2>1 DEF Add
    <3> HIDE DEF by
    <3> QED
      BY <3>1 DEF Insert, TypeOK
  <2> QED
    BY <1>4, <2>1 DEF Count, Refuse
<1> QED
  BY <1>1, <1>2, <1>3, <1>4 DEF Next

-----------------------------------------------------------------------------
(* What an addition counted                                                *)

\* While an addition is about to insert, the roster grows by other additions only,
\* and the limit stays.
LEMMA GrowsBeside ==
  ASSUME TypeOK, Next, NEW c \in Requests, rq[c] # Null, rq[c].op = "insert",
         rq'[c] # Null, rq'[c].op = "insert"
  PROVE  /\ con'.limit = con.limit
         /\ rq'[c].super = rq[c].super
         /\ Registered' \ rq'[c].beside \subseteq Registered \ rq[c].beside
<1>0. ~Unshared /\ con \in ConType
  BY DEF Unshared, TypeOK
<1>1. CASE MemberStep
  <2>1. UNCHANGED con
    BY <1>1 DEF MemberStep, PayOrder, Deregister, CheckRegister
  <2>2. rq'[c] = rq[c]
    BY <1>1 DEF MemberStep, PayOrder, Deregister, CheckRegister, Take, TypeOK
  <2>3. Registered' \subseteq Registered
    BY <1>1 DEF MemberStep, PayOrder, Deregister, CheckRegister, Registered, TypeOK
  <2> QED
    BY <2>1, <2>2, <2>3
<1>2. CASE AdminStep
  <2>1. UNCHANGED con
    BY <1>0, <1>2 DEF AdminStep, SetPermissions, RemoveMember, UpdateMember, CheckAdd, SetRole
  <2>2. rq'[c] = rq[c]
    BY <1>0, <1>2 DEF AdminStep, SetPermissions, RemoveMember, UpdateMember, CheckAdd, SetRole, Take, TypeOK
  <2>3. \A m \in Members : reg'[m] # Null => reg[m] # Null
    BY <1>0, <1>2 DEF AdminStep, SetPermissions, RemoveMember, UpdateMember, CheckAdd, SetRole, TypeOK
  <2>4. Registered' \subseteq Registered
    BY <2>3 DEF Registered
  <2> QED
    BY <2>1, <2>2, <2>4
<1>3. CASE ConclaveStep
  <2>1. WindowEnds
    BY <1>0, <1>3 DEF ConclaveStep, GenerateSchedule, LockSchedule, SetRegistrationOpen, UpdateLimit,
                      CancelConclave, StartRound, CompleteConclave
  <2> QED
    BY <1>0, <2>1 DEF WindowEnds, ConType, Registered
<1>4. ASSUME NEW d \in Requests, Register(d) \/ Count(d) \/ Refuse(d)
      PROVE  UNCHANGED con /\ rq'[c] = rq[c] /\ Registered' = Registered
  <2>1. d # c /\ ~Register(d)
    BY <1>0, <1>4 DEF Register, Count, Refuse, Finish, TypeOK
  <2> QED
    BY <1>4, <2>1 DEF Count, Refuse, Finish, TypeOK, Registered
<1>5. ASSUME NEW d \in Requests, Add(d)
      PROVE  /\ con'.limit = con.limit
             /\ rq'[c].super = rq[c].super
             /\ Registered' \ rq'[c].beside \subseteq Registered \ rq[c].beside
  <2>1. UNCHANGED con /\ reg' = Insert(rq[d], TRUE, IF rq[d].super THEN "super" ELSE "admin")
    BY <1>5 DEF Add
  <2>2. /\ rq'[c].super = rq[c].super
        /\ rq'[c].beside = IF reg[rq[d].m] = Null THEN rq[c].beside \cup {rq[d].m} ELSE rq[c].beside
    BY <1>5, AddTypes
  <2>3. CASE reg[rq[d].m] # Null
    BY <2>1, <2>2, <2>3 DEF Insert, Registered
  <2>4. CASE reg[rq[d].m] = Null
    <3>1. \A m \in Members : m # rq[d].m => reg'[m] = reg[m]
      BY <2>1, <2>4 DEF Insert, TypeOK
    <3> QED
      BY <2>1, <2>2, <2>4, <3>1 DEF Registered
  <2> QED
    BY <2>1, <2>2, <2>3, <2>4
<1> QED
  BY <1>1, <1>2, <1>3, <1>4, <1>5 DEF Next

\* An addition begins to insert by counting.
LEMMA CountsFirst ==
  ASSUME TypeOK, Next, NEW c \in Requests, rq'[c] # Null, rq'[c].op = "insert",
         rq[c] = Null \/ rq[c].op # "insert"
  PROVE  Count(c)
<1>1. CASE MemberStep
  BY <1>1 DEF MemberStep, PayOrder, Deregister, CheckRegister, Take, TypeOK
<1>2. CASE AdminStep
  <2>1. ASSUME NEW d \in Requests, NEW m \in Members, NEW body \in Additions, CheckAdd(d, m, body)
        PROVE  FALSE
    BY <2>1 DEF CheckAdd, Take, TypeOK
  <2> QED
    BY <1>2, <2>1 DEF AdminStep, SetPermissions, RemoveMember, UpdateMember, SetRole
<1>3. CASE ConclaveStep
  BY <1>3 DEF ConclaveStep, GenerateSchedule, LockSchedule, SetRegistrationOpen, UpdateLimit,
              CancelConclave, StartRound, CompleteConclave, WindowEnds
<1>4. ASSUME NEW d \in Requests, Register(d) \/ Refuse(d)
      PROVE  FALSE
  BY <1>4 DEF Register, Refuse, Finish, TypeOK
<1>5. ASSUME NEW d \in Requests, Add(d)
      PROVE  FALSE
  BY <1>5, AddTypes
<1>6. ASSUME NEW d \in Requests, Count(d)
      PROVE  d = c
  BY <1>6 DEF Count, TypeOK
<1> QED
  BY <1>1, <1>2, <1>3, <1>4, <1>5, <1>6 DEF Next

LEMMA CountStep ==
  ASSUME TypeOK, TypeOK', CountStillHolds, [Next]_vars
  PROVE  CountStillHolds'
<1> SUFFICES ASSUME NEW c \in Requests, rq'[c] # Null, rq'[c].op = "insert", ~rq'[c].super,
                    con'.limit # 0
             PROVE  Cardinality(Registered' \ rq'[c].beside) < con'.limit
  BY DEF CountStillHolds
<1>0. con.limit \in Nat /\ con'.limit \in Nat
  <2>1. \A r \in ConType : r.limit \in Nat
    <3>1. \A n \in Limits \cup {0} : n \in Nat
      BY RegistrationAssumption
    <3>2. \A r \in ConType : r.limit \in Limits \cup {0}
      BY DEF ConType
    <3> QED
      BY <3>1, <3>2
  <2>2. con \in ConType /\ con' \in ConType
    BY DEF TypeOK
  <2> QED
    BY <2>1, <2>2
<1>f. IsFiniteSet(Registered) /\ IsFiniteSet(Registered')
  BY RegistrationAssumption, FS_Subset DEF Registered
<1>1. CASE UNCHANGED vars
  <2>1. CountStillHolds => CountStillHolds'
    BY <1>1 DEF vars, CountStillHolds, Registered
  <2> QED
    BY <2>1 DEF CountStillHolds
<1>2. CASE Next /\ rq[c] # Null /\ rq[c].op = "insert"
  <2> DEFINE old == Registered \ rq[c].beside
             new == Registered' \ rq'[c].beside
  <2>1. con'.limit = con.limit /\ rq'[c].super = rq[c].super /\ new \subseteq old
    BY <1>2, GrowsBeside
  <2>2. Cardinality(old) < con.limit
    BY <1>2, <2>1 DEF CountStillHolds
  <2>3. IsFiniteSet(old) /\ IsFiniteSet(new)
    BY <1>f, FS_Difference
  <2> HIDE DEF old, new
  <2>4. Cardinality(new) <= Cardinality(old) /\ Cardinality(new) \in Nat /\ Cardinality(old) \in Nat
    BY <2>1, <2>3, FS_Subset, FS_CardinalityType
  <2>5. Cardinality(new) < con'.limit
    BY <1>0, <2>1, <2>2, <2>4
  <2> QED
    BY <2>5 DEF new
<1>3. CASE Next /\ (rq[c] = Null \/ rq[c].op # "insert")
  <2>1. Count(c)
    BY <1>3, CountsFirst
  <2>2. /\ rq'[c].super = rq[c].super
        /\ UNCHANGED <<con, reg>>
    BY <2>1 DEF Count, TypeOK, Request
  <2>3. ~Full
    BY <2>1, <2>2 DEF Count
  <2> DEFINE new == Registered' \ rq'[c].beside
             all == Registered
  <2>4. new \subseteq all /\ IsFiniteSet(new) /\ IsFiniteSet(all)
    BY <1>f, <2>2, FS_Difference DEF Registered
  <2>5. Cardinality(all) < con.limit
    <3>1. Cardinality(all) \in Nat
      BY <2>4, FS_CardinalityType
    <3>2. ~(Cardinality(all) >= con.limit)
      BY <2>2, <2>3 DEF Full
    <3> QED
      BY <1>0, <3>1, <3>2
  <2> HIDE DEF new, all
  <2>6. Cardinality(new) <= Cardinality(all) /\ Cardinality(new) \in Nat /\ Cardinality(all) \in Nat
    BY <2>4, FS_Subset, FS_CardinalityType
  <2>7. Cardinality(new) < con'.limit
    BY <1>0, <2>2, <2>5, <2>6
  <2> QED
    BY <2>7 DEF new
<1> QED
  BY <1>1, <1>2, <1>3

-----------------------------------------------------------------------------
(* Payments                                                                *)

\* A request that says it is paid online names an order its member paid.
PaidRequests == \A c \in Requests : rq[c] # Null /\ rq[c].op = "register" /\ rq[c].paid => rq[c].m \in charged

LEMMA OnlineStep ==
  ASSUME TypeOK, PaidRequests, OnlineIsPaid, [Next]_vars
  PROVE  PaidRequests' /\ OnlineIsPaid'
<1>1. CASE UNCHANGED vars
  BY <1>1 DEF vars, PaidRequests, OnlineIsPaid, Registered
<1>2. CASE Next
  <2>1. charged \subseteq charged'
    BY <1>2 DEF Next, MemberStep, AdminStep, ConclaveStep, PayOrder, Deregister, CheckRegister, SetPermissions,
                RemoveMember, UpdateMember, CheckAdd, SetRole, GenerateSchedule, LockSchedule, SetRegistrationOpen,
                UpdateLimit, CancelConclave, StartRound, CompleteConclave, WindowEnds, Register, Count, Add, Refuse
  <2>2. ASSUME NEW c \in Requests, rq'[c] # Null, rq'[c].op = "register"
        PROVE  \/ rq'[c] = rq[c]
               \/ rq[c] # Null /\ rq[c].op = "register" /\ rq'[c].m = rq[c].m /\ rq'[c].paid = rq[c].paid
               \/ rq'[c].paid => rq'[c].m \in charged
    <3>1. CASE MemberStep
      BY <2>2, <3>1 DEF MemberStep, PayOrder, Deregister, CheckRegister, Take, TypeOK
    <3>2. CASE AdminStep
      <4>1. ASSUME NEW d \in Requests, NEW m \in Members, NEW body \in Additions, CheckAdd(d, m, body)
            PROVE  rq'[c] = rq[c] \/ rq'[c].op = "add"
        BY <2>2, <4>1 DEF CheckAdd, Take, TypeOK
      <4>2. CASE UNCHANGED rq
        BY <4>2
      <4> QED
        BY <2>2, <3>2, <4>1, <4>2 DEF AdminStep, SetPermissions, RemoveMember, UpdateMember, SetRole
    <3>3. CASE ConclaveStep
      BY <3>3 DEF ConclaveStep, GenerateSchedule, LockSchedule, SetRegistrationOpen, UpdateLimit,
                  CancelConclave, StartRound, CompleteConclave, WindowEnds
    <3>4. ASSUME NEW d \in Requests, Register(d) \/ Count(d) \/ Add(d) \/ Refuse(d)
          PROVE  rq'[c] = rq[c] \/ (rq[c] # Null /\ rq[c].op = "register" /\ rq'[c].m = rq[c].m
                                       /\ rq'[c].paid = rq[c].paid)
      <4>1. CASE Count(d)
        BY <2>2, <4>1 DEF Count, TypeOK, Request
      <4>2. CASE Finish(d)
        BY <2>2, <4>2 DEF Finish, TypeOK
      <4>3. CASE Add(d)
        BY <2>2, <4>3, AddTypes
      <4> QED
        BY <3>4, <4>1, <4>2, <4>3 DEF Register, Refuse
    <3> QED
      BY <1>2, <3>1, <3>2, <3>3, <3>4 DEF Next
  <2>3. PaidRequests'
    BY <2>1, <2>2 DEF PaidRequests
  <2>4. CASE \A m \in Members : SameOrAdmins(m)
    BY <2>1, <2>3, <2>4 DEF OnlineIsPaid, Registered, SameOrAdmins
  <2>5. ASSUME NEW c \in Requests, Register(c)
        PROVE  OnlineIsPaid'
    <3>1. rq[c] \in Request /\ (rq[c].paid => rq[c].m \in charged)
      BY <2>5 DEF Register, TypeOK, PaidRequests
    <3>2. reg' = Insert(rq[c], rq[c].paid, "self")
      BY <2>5 DEF Register
    <3> QED
      BY <2>1, <3>1, <3>2 DEF Insert, OnlineIsPaid, Registered, TypeOK, Request
  <2> QED
    BY <1>2, <2>3, <2>4, <2>5, Origins
<1> QED
  BY <1>1, <1>2

\* For any members, limits and requests in flight: an addition oversells only by the
\* members inserted beside it (conclaveMembers.service.ts:190-222).
THEOREM AdditionsCountRight == Spec => []CountStillHolds
<1>1. Init => CountStillHolds
  BY DEF Init, CountStillHolds
<1>2. TypeOK /\ TypeOK' /\ CountStillHolds /\ [Next]_vars => CountStillHolds'
  BY CountStep
<1> QED
  BY <1>1, <1>2, RosterTyped, PTL DEF Spec

\* For any members and requests: who is registered as having paid online has paid
\* (registration.service.ts:120-133).
THEOREM OnlineHasPaid == Spec => []OnlineIsPaid
<1>1. Init => PaidRequests /\ OnlineIsPaid
  BY DEF Init, PaidRequests, OnlineIsPaid, Registered
<1> QED
  BY <1>1, OnlineStep, RosterTyped, PTL DEF Spec
=============================================================================

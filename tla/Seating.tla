------------------------------ MODULE Seating ------------------------------
(***************************************************************************)
(* Generating the tables of a conclave: choosing one captain per table,    *)
(* the validation gate, and the engine that seats everybody else round by  *)
(* round, one member at a time.                                            *)
(*                                                                         *)
(* The seed decides every shuffle, and a conclave without one takes the    *)
(* time of day, so a shuffle is any order.                                 *)
(***************************************************************************)
EXTENDS Integers, FiniteSets, Sequences

CONSTANTS People,     \* the participants
          Categories, \* business categories
          Rounds,     \* R
          Requests    \* bound: the rosters and options an admin generates for

\* A roster with its designated captains, the persons per table (P), the tables
\* asked for (0 leaves it to the people), and whether the system may choose.
Job == [cat : [People -> Categories], designated : SUBSET People,
        per : Nat \ {0}, tables : Nat, autoFill : BOOLEAN]

ASSUME SeatingAssumption == /\ IsFiniteSet(People) /\ People # {}
                            /\ IsFiniteSet(Categories)
                            /\ Rounds \in Nat
                            /\ Requests \subseteq Job

VARIABLES
  job,      \* what is asked for: the roster and the options
  phase,
  captains, \* one per table, in the tables' order
  used,     \* the categories this pass over the captains has taken
  waiting,  \* the members this round still has to seat
  tables,   \* the tables of this round
  order,    \* the order in which this round looks at the tables
  rounds,   \* the rounds that are complete: who sits where
  met,      \* the pairs that have shared a table
  degree,   \* how many people each one has met
  repeats   \* pairs seated together again

vars == <<job, phase, captains, used, waiting, tables, order, rounds, met, degree, repeats>>

Phases == {"resolve", "trim", "check", "next", "place", "done", "refused", "infeasible"}

-----------------------------------------------------------------------------
A == Cardinality(People)

TableCountFor(n, per) == (n + per - 1) \div per

\* T: what was asked for, or as many as the people need.
T == IF job.tables > 0 THEN job.tables ELSE TableCountFor(A, job.per)

Freq(c) == Cardinality({p \in People : job.cat[p] = c})

CatsOf(S) == {job.cat[p] : p \in S}

\* The people of a sequence.
Members(s) == {s[i] : i \in DOMAIN s}

\* The orders in which a shuffle may put a set.
Orders(S) == {s \in [1..Cardinality(S) -> S] : Members(s) = S}

-----------------------------------------------------------------------------
(* Captains                                                                *)

\* autoSelectCaptains: pass by pass every category that still has people gives
\* one, in the same order of categories. Pass(i) is the pass that took the i-th.
RoundRobin(s) ==
  LET Of(c)   == {i \in DOMAIN s : job.cat[s[i]] = c}
      Pass(i) == Cardinality(Of(job.cat[s[i]]) \cap 1..i)
  IN /\ \A i, j \in DOMAIN s : s[i] = s[j] => i = j
     /\ \A i, j \in DOMAIN s : i < j => Pass(i) <= Pass(j)
     /\ \A i \in DOMAIN s, p \in People \ Members(s) :
          Cardinality(Of(job.cat[p])) >= Pass(i) - 1
     /\ \A i, j \in DOMAIN s : Pass(i) = 1 /\ Pass(j) = 1 /\ i < j =>
          \A k \in Of(job.cat[s[i]]), l \in Of(job.cat[s[j]]) : Pass(k) = Pass(l) => k < l

\* generateForConclave wants enough captains, unless it may choose all of them.
EnoughCaptains == \/ job.autoFill /\ job.designated = {}
                  \/ Cardinality(job.designated) >= T

\* resolveCaptains. The filling of a designated set that is too small is out of
\* its only caller's reach: EnoughCaptains refuses first.
ResolveCaptains ==
  /\ phase = "resolve"
  /\ EnoughCaptains
  /\ \/ /\ job.designated = {}
        /\ \E s \in [1..TableCountFor(A, job.per) -> People] : RoundRobin(s) /\ captains' = s
        /\ phase' = "check"
     \/ /\ job.designated # {} /\ Cardinality(job.designated) = T
        /\ captains' \in Orders(job.designated)
        /\ phase' = "check"
     \/ /\ Cardinality(job.designated) > T
        /\ phase' = "trim"
        /\ UNCHANGED captains
  /\ UNCHANGED <<job, used, waiting, tables, order, rounds, met, degree, repeats>>

TooFewCaptains ==
  /\ phase = "resolve"
  /\ ~EnoughCaptains
  /\ phase' = "refused"
  /\ UNCHANGED <<job, captains, used, waiting, tables, order, rounds, met, degree, repeats>>

\* What spread has left to choose from, and what of it this pass may take.
Pool  == job.designated \ Members(captains)
Fresh == {p \in Pool : job.cat[p] \notin used}

Keep(p) ==
  /\ captains' = Append(captains, p)
  /\ phase' = IF Len(captains) + 1 = T THEN "check" ELSE phase
  /\ UNCHANGED <<job, waiting, tables, order, rounds, met, degree, repeats>>

\* Slip: takes whoever comes, of whatever category.
KeepAnyone(p) ==
  /\ phase = "trim" /\ p \in Pool
  /\ used' = used \cup {job.cat[p]}
  /\ Keep(p)

\* spread: one of a category this pass has not taken yet.
KeepFresh(p) ==
  /\ phase = "trim" /\ p \in Fresh
  /\ used' = used \cup {job.cat[p]}
  /\ Keep(p)

\* spread: when there is none, the next pass begins with anyone, whose category
\* it does not count.
KeepFirst(p) ==
  /\ phase = "trim" /\ p \in Pool /\ Fresh = {}
  /\ used' = {}
  /\ Keep(p)

-----------------------------------------------------------------------------
(* The validation gate                                                     *)

V3  == Cardinality(Members(captains)) = Len(captains) /\ Members(captains) \subseteq People
V4  == job.per >= 2
V5  == Rounds \in 2..8
V7  == A >= job.per /\ A > T
V8  == A >= job.per => Len(captains) = T
V9  == A <= T * job.per
V10 == Cardinality(CatsOf(People)) >= job.per
V11 == \A c \in Categories : Freq(c) <= T

Valid == V3 /\ V4 /\ V5 /\ V7 /\ V8 /\ V9 /\ V10 /\ V11

Validate ==
  /\ phase = "check"
  /\ phase' = IF Valid THEN "next" ELSE "refused"
  /\ UNCHANGED <<job, captains, used, waiting, tables, order, rounds, met, degree, repeats>>

-----------------------------------------------------------------------------
(* One round                                                               *)

Table == [captain : People, people : SUBSET People, cats : SUBSET Categories]

Tables == DOMAIN captains

\* buildTables, and the shuffles of a round.
StartRound ==
  /\ phase = "next" /\ Len(rounds) < Rounds
  /\ phase' = "place"
  /\ tables' = [i \in Tables |-> [captain |-> captains[i], people |-> {captains[i]},
                                  cats |-> {job.cat[captains[i]]}]]
  /\ order' \in Orders(Tables)
  /\ waiting' = People \ Members(captains)
  /\ UNCHANGED <<job, captains, used, rounds, met, degree, repeats>>

\* Members of the most frequent categories come first, otherwise in any order.
NextUp == {m \in waiting : \A n \in waiting : Freq(job.cat[m]) >= Freq(job.cat[n])}

Free(i) == job.per - Cardinality(tables[i].people)

Again(m, i) == Cardinality({o \in tables[i].people : {m, o} \in met})

\* Slip: keeps a chair free.
CandidatesBut(m) ==
  {i \in Tables : Cardinality(tables[i].people) < job.per - 1 /\ job.cat[m] \notin tables[i].cats}

\* Slip: a table may be filled beyond its seats.
CandidatesFull(m) ==
  {i \in Tables : Cardinality(tables[i].people) <= job.per /\ job.cat[m] \notin tables[i].cats}

\* placeMember: a free seat (C4), and nobody of the member's category (C1).
Candidates(m) ==
  {i \in Tables : Cardinality(tables[i].people) < job.per /\ job.cat[m] \notin tables[i].cats}

\* Fewest repeats (C2), then most free seats, then the round's order of tables.
Before(m, i, j) ==
  \/ Again(m, i) < Again(m, j)
  \/ Again(m, i) = Again(m, j) /\ Free(i) > Free(j)
  \/ Again(m, i) = Again(m, j) /\ Free(i) = Free(j)
     /\ \E k, l \in DOMAIN order : order[k] = i /\ order[l] = j /\ k < l

\* Slip: the table's categories are not brought up to date.
PlaceMemberStale(m) ==
  /\ phase = "place" /\ m \in NextUp
  /\ \E i \in Candidates(m) :
       /\ \A j \in Candidates(m) \ {i} : Before(m, i, j)
       /\ tables' = [tables EXCEPT ![i].people = @ \cup {m}]
  /\ waiting' = waiting \ {m}
  /\ UNCHANGED <<job, phase, captains, used, order, rounds, met, degree, repeats>>

PlaceMember(m) ==
  /\ phase = "place" /\ m \in NextUp
  /\ \E i \in Candidates(m) :
       /\ \A j \in Candidates(m) \ {i} : Before(m, i, j)
       /\ tables' = [tables EXCEPT ![i].people = @ \cup {m}, ![i].cats = @ \cup {job.cat[m]}]
  /\ waiting' = waiting \ {m}
  /\ UNCHANGED <<job, phase, captains, used, order, rounds, met, degree, repeats>>

\* repair, for a member without a candidate: a member of the same category who
\* holds a free table up could move to another one. Whoever could move there is
\* of the member's own category, so that table was a candidate; nobody ever moves.
Repairable(m) ==
  \E i \in Tables :
    /\ Cardinality(tables[i].people) < job.per
    /\ job.cat[m] \in tables[i].cats
    /\ \E blocker \in tables[i].people \ {tables[i].captain} :
         /\ job.cat[blocker] = job.cat[m]
         /\ \E alt \in Tables \ {i} : /\ Cardinality(tables[alt].people) < job.per
                                      /\ job.cat[blocker] \notin tables[alt].cats

\* InfeasibleRoundError.
GiveUp(m) ==
  /\ phase = "place" /\ m \in NextUp
  /\ Candidates(m) = {}
  /\ ~Repairable(m)
  /\ phase' = "infeasible"
  /\ UNCHANGED <<job, captains, used, waiting, tables, order, rounds, met, degree, repeats>>

PairsOf(seated) == {pair \in SUBSET seated : Cardinality(pair) = 2}

\* The pairs that share one of the tables.
Together(seating) == UNION {PairsOf(seating[i]) : i \in DOMAIN seating}

Met(p, pairs) == {q \in People : {p, q} \in pairs /\ p # q}

\* The pairings of a complete round.
RecordRound ==
  /\ phase = "place" /\ waiting = {}
  /\ LET seating == [i \in Tables |-> tables[i].people]
         pairs   == Together(seating)
     IN /\ rounds' = Append(rounds, seating)
        /\ met' = met \cup pairs
        /\ degree' = [p \in People |-> degree[p] + Cardinality(Met(p, pairs \ met))]
        /\ repeats' = repeats + Cardinality(pairs \cap met)
  /\ phase' = "next"
  /\ tables' = <<>> /\ order' = <<>>
  /\ UNCHANGED <<job, captains, used, waiting>>

Deliver ==
  /\ phase = "next" /\ Len(rounds) = Rounds
  /\ phase' = "done"
  /\ UNCHANGED <<job, captains, used, waiting, tables, order, rounds, met, degree, repeats>>

-----------------------------------------------------------------------------
(* The audit                                                               *)

\* auditSchedule, which verifies a schedule from scratch, of one round: no table
\* with two of a category (C1) or beyond its seats (C4), everybody seated at exactly
\* one table (C3), each captain at their own (C5).
AuditRound(seating) ==
  /\ \A i \in DOMAIN seating : /\ \A p, q \in seating[i] : job.cat[p] = job.cat[q] => p = q
                               /\ Cardinality(seating[i]) <= job.per
                               /\ captains[i] \in seating[i]
  /\ \A p \in People : \E i \in DOMAIN seating : p \in seating[i]
  /\ \A i, j \in DOMAIN seating : seating[i] \cap seating[j] # {} => i = j

-----------------------------------------------------------------------------
Init ==
  /\ job \in Requests
  /\ phase = "resolve"
  /\ captains = <<>> /\ used = {}
  /\ waiting = {} /\ tables = <<>> /\ order = <<>>
  /\ rounds = <<>> /\ met = {}
  /\ degree = [p \in People |-> 0]
  /\ repeats = 0

Choose == ResolveCaptains \/ TooFewCaptains \/ \E p \in People : KeepFresh(p) \/ KeepFirst(p)

Seat == StartRound \/ RecordRound \/ Deliver \/ \E m \in People : PlaceMember(m) \/ GiveUp(m)

Next == Choose \/ Validate \/ Seat

Spec == Init /\ [][Next]_vars

-----------------------------------------------------------------------------
(* Properties                                                              *)

\* A table's cached categories are those of its people.
CatsCurrent == \A i \in DOMAIN tables : tables[i].cats = {job.cat[p] : p \in tables[i].people}

\* The values are of their types, and the cached categories are right
\* (matcher.ts: WorkingTable).
TypeOK ==
  /\ job \in Job /\ phase \in Phases
  /\ captains \in Seq(People) /\ used \subseteq Categories /\ waiting \subseteq People
  /\ tables \in Seq(Table) /\ rounds \in Seq(Seq(SUBSET People))
  /\ met \subseteq SUBSET People /\ degree \in [People -> Nat] /\ repeats \in Nat
  /\ CatsCurrent

\* Every round the engine completes passes the audit of engine/audit.ts.
AuditClean == \A r \in DOMAIN rounds : DOMAIN rounds[r] = Tables /\ AuditRound(rounds[r])

\* The captains that were chosen from the designated ones, or from everybody,
\* span as many categories as that many people can (engine/captains.ts:11,
\* domain/captains.ts:66-98).
CaptainsSpread ==
  phase \in {"check", "next", "place", "done", "infeasible"} =>
    LET from == IF job.designated = {} THEN People ELSE job.designated
    IN /\ Members(captains) \subseteq from
       /\ Cardinality(Members(captains)) = Len(captains)
       /\ \/ Cardinality(CatsOf(Members(captains))) = Len(captains)
          \/ CatsOf(Members(captains)) = CatsOf(from)

\* The engine gives up only where seats are scarce: with (f - 1)(P - 1) spare
\* seats, f people in the largest category, it seats every roster that passed
\* the gate (matcher.ts:147-196, docs/API.md:198).
RoomySeats ==
  phase = "infeasible" =>
    \E c \in Categories : T * job.per - A < (Freq(c) - 1) * (job.per - 1)

\* What the refusal says: no category-safe seating exists for the roster
\* (schedule.service.ts:129).
NoSeatingExists ==
  phase = "infeasible" =>
    ~\E at \in [People -> Tables] : AuditRound([i \in Tables |-> {p \in People : at[p] = i}])
=============================================================================

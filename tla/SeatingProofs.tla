--------------------------- MODULE SeatingProofs ---------------------------
(***************************************************************************)
(* Proofs about Seating: every round the engine completes passes the       *)
(* audit, whatever the roster and the shuffles.  It rests on what is true  *)
(* of a round half seated: everybody waits or sits at exactly one table,   *)
(* and a table's cached categories are those of its people.  Then that     *)
(* captains span as many categories as they can, and that the greedy       *)
(* placement succeeds where enough chairs are spare: whoever finds no      *)
(* table has his category at each table that has room, and there are not   *)
(* that many of it.                                                        *)
(***************************************************************************)
EXTENDS Seating, FiniteSetTheorems, TLAPS

Settled == {"next", "place", "done", "infeasible"}

CaptainsDiffer == \A i, j \in DOMAIN captains : captains[i] = captains[j] => i = j

NoneBeforeSettled == phase \notin Settled => rounds = <<>>

\* A round half seated.
HalfSeated ==
  /\ DOMAIN tables = Tables
  /\ \A i \in Tables : /\ captains[i] \in tables[i].people
                       /\ Cardinality(tables[i].people) <= job.per
                       /\ \A p, q \in tables[i].people : job.cat[p] = job.cat[q] => p = q
  /\ \A i, j \in Tables, p \in People :
       p \in tables[i].people /\ p \in tables[j].people => i = j
  /\ \A p \in People : p \in waiting <=> \A i \in Tables : p \notin tables[i].people

SeatingInv == /\ TypeOK
              /\ CaptainsDiffer
              /\ NoneBeforeSettled
              /\ phase = "place" => HalfSeated
              /\ AuditClean

-----------------------------------------------------------------------------
LEMMA PeopleCounted ==
  /\ A \in Nat
  /\ \A S \in SUBSET People : IsFiniteSet(S) /\ Cardinality(S) \in Nat
  BY SeatingAssumption, FS_Subset, FS_CardinalityType DEF A

LEMMA TablesNeeded ==
  ASSUME NEW n \in Nat, NEW per \in Nat \ {0}
  PROVE  TableCountFor(n, per) \in Nat
  BY DEF TableCountFor

\* A shuffle lists every member of a set once.
LEMMA ShufflesDiffer ==
  ASSUME NEW S \in SUBSET People, NEW s \in Orders(S)
  PROVE  s \in Seq(People) /\ \A i, j \in DOMAIN s : s[i] = s[j] => i = j
<1> DEFINE n == Cardinality(S)
<1>1. n \in Nat /\ IsFiniteSet(S)
  BY PeopleCounted
<1>2. s \in [1..n -> S] /\ \A p \in S : \E i \in 1..n : s[i] = p
  BY DEF Orders, Members
<1>3. s \in Surjection(1..n, S)
  BY <1>2 DEF Surjection
<1>4. IsFiniteSet(1..n) /\ Cardinality(1..n) = n
  BY <1>1, FS_Interval
<1>5. s \in Injection(1..n, S)
  BY <1>3, <1>4, <1>1, FS_SurjSameCardinalityImpliesInj
<1> QED
  BY <1>1, <1>2, <1>5 DEF Injection, IsInjective

LEMMA SeatingInit == Init => SeatingInv
<1> SUFFICES ASSUME Init PROVE SeatingInv
  OBVIOUS
<1>1. TypeOK
  BY SeatingAssumption DEF Init, TypeOK, CatsCurrent, Phases
<1>2. rounds = <<>> /\ captains = <<>> /\ phase = "resolve"
  BY DEF Init
<1> QED
  BY <1>1, <1>2 DEF SeatingInv, CaptainsDiffer, NoneBeforeSettled, AuditClean

-----------------------------------------------------------------------------
(* Choosing the captains                                                   *)

\* What the choice of captains leaves alone.
Untouched == UNCHANGED <<job, waiting, tables, order, rounds, met, degree, repeats>>

LEMMA BeforeSettling ==
  ASSUME SeatingInv, phase \notin Settled, phase' # "place", phase' \in Phases, Untouched,
         captains' \in Seq(People), used' \subseteq Categories, CaptainsDiffer'
  PROVE  SeatingInv'
<1>1. TypeOK'
  BY DEF SeatingInv, TypeOK, CatsCurrent, Untouched
<1>2. rounds' = <<>>
  BY DEF SeatingInv, NoneBeforeSettled, Untouched
<1> QED
  BY <1>1, <1>2 DEF SeatingInv, NoneBeforeSettled, AuditClean

LEMMA ResolveStep ==
  ASSUME SeatingInv, ResolveCaptains
  PROVE  SeatingInv'
<1>1. job \in Job /\ job.per \in Nat \ {0} /\ job.designated \in SUBSET People
  BY DEF SeatingInv, TypeOK, Job
<1>2. captains' \in Seq(People) /\ CaptainsDiffer'
  <2>1. CASE \E s \in [1..TableCountFor(A, job.per) -> People] : RoundRobin(s) /\ captains' = s
    <3>1. TableCountFor(A, job.per) \in Nat
      BY <1>1, PeopleCounted, TablesNeeded
    <3> QED
      BY <2>1, <3>1 DEF RoundRobin, CaptainsDiffer
  <2>2. CASE captains' \in Orders(job.designated)
    BY <2>2, <1>1, ShufflesDiffer DEF CaptainsDiffer
  <2>3. CASE captains' = captains
    BY <2>3 DEF SeatingInv, TypeOK, CaptainsDiffer
  <2> QED
    BY <2>1, <2>2, <2>3 DEF ResolveCaptains
<1>3. phase \notin Settled /\ phase' \in {"check", "trim"} /\ used' \subseteq Categories
  BY DEF ResolveCaptains, Settled, SeatingInv, TypeOK
<1>4. Untouched
  BY DEF ResolveCaptains, Untouched
<1> QED
  BY <1>2, <1>3, <1>4, BeforeSettling DEF Phases

LEMMA KeepStep ==
  ASSUME SeatingInv, NEW p \in People, KeepFresh(p) \/ KeepFirst(p)
  PROVE  SeatingInv'
<1>1. phase = "trim" /\ p \in Pool /\ Keep(p)
  BY DEF KeepFresh, KeepFirst, Fresh
<1>2. captains' = Append(captains, p) /\ captains \in Seq(People)
  BY <1>1 DEF Keep, SeatingInv, TypeOK
<1>3. captains' \in Seq(People)
  BY <1>2
<1>4. \A i \in DOMAIN captains : captains[i] # p
  BY <1>1 DEF Pool, Members
<1>5. CaptainsDiffer'
  BY <1>2, <1>4 DEF SeatingInv, CaptainsDiffer
<1>6. job.cat[p] \in Categories
  BY DEF SeatingInv, TypeOK, Job
<1>7. used' \subseteq Categories
  BY <1>6 DEF KeepFresh, KeepFirst, SeatingInv, TypeOK
<1>8. phase' \in {"check", "trim"} /\ phase \notin Settled /\ Untouched
  BY <1>1 DEF Keep, Settled, Untouched
<1> QED
  BY <1>3, <1>5, <1>7, <1>8, BeforeSettling DEF Phases

\* A step that only moves on to another phase.
LEMMA PhaseStep ==
  ASSUME SeatingInv, phase' \in Phases \ {"place"},
         phase \in Settled => phase' \in Settled,
         UNCHANGED <<job, captains, used, waiting, tables, order, rounds, met, degree, repeats>>
  PROVE  SeatingInv'
<1>1. TypeOK'
  BY DEF SeatingInv, TypeOK, CatsCurrent
<1>2. AuditClean'
  BY DEF SeatingInv, AuditClean, AuditRound, Tables
<1> QED
  BY <1>1, <1>2 DEF SeatingInv, CaptainsDiffer, NoneBeforeSettled

-----------------------------------------------------------------------------
(* A round                                                                 *)

LEMMA StartStep ==
  ASSUME SeatingInv, StartRound
  PROVE  SeatingInv'
<1> DEFINE row(i) == [captain |-> captains[i], people |-> {captains[i]},
                      cats |-> {job.cat[captains[i]]}]
<1>1. /\ captains \in Seq(People) /\ job \in Job
      /\ tables' = [i \in Tables |-> row(i)]
      /\ waiting' = People \ Members(captains)
      /\ UNCHANGED <<job, captains, used, rounds, met, degree, repeats>>
      /\ phase' = "place" /\ phase = "next"
  BY DEF StartRound, SeatingInv, TypeOK
<1>2. \A i \in Tables : captains[i] \in People
  BY <1>1 DEF Tables
<1>3. \A i \in Tables : row(i) \in Table
  BY <1>1, <1>2 DEF Table, Job
<1>5. \A i \in Tables : /\ tables'[i].people = {captains[i]}
                        /\ tables'[i].cats = {job.cat[captains[i]]}
  BY <1>1
<1> HIDE DEF row
<1>4. tables' \in Seq(Table)
  <2>1. Tables = 1..Len(captains) /\ Len(captains) \in Nat
    BY <1>1 DEF Tables
  <2>2. tables' \in [1..Len(captains) -> Table]
    BY <1>1, <1>3, <2>1
  <2> QED
    BY <2>1, <2>2
<1>6. TypeOK'
  <2>1. CatsCurrent'
    <3>1. \A i \in Tables : {job.cat[p] : p \in {captains[i]}} = {job.cat[captains[i]]}
      OBVIOUS
    <3>2. DOMAIN tables' = Tables /\ job' = job
      BY <1>1
    <3> QED
      BY <1>5, <3>1, <3>2 DEF CatsCurrent
  <2>2. waiting' \subseteq People
    BY <1>1
  <2> QED
    BY <1>1, <1>4, <2>1, <2>2 DEF SeatingInv, TypeOK, Phases
<1>7. HalfSeated'
  <2>1. \A i \in Tables : Cardinality({captains[i]}) = 1
    BY FS_Singleton
  <2>2. 1 <= job.per
    BY <1>1 DEF Job
  <2>3. Tables' = Tables /\ DOMAIN tables' = Tables
    BY <1>1 DEF Tables
  <2>4. \A i, j \in Tables : captains[i] = captains[j] => i = j
    BY DEF SeatingInv, CaptainsDiffer, Tables
  <2>5. \A p \in People : p \in waiting' <=> \A i \in Tables : p # captains[i]
    BY <1>1 DEF Members, Tables
  <2> QED
    BY <1>1, <1>5, <2>1, <2>2, <2>3, <2>4, <2>5 DEF HalfSeated
<1>8. AuditClean'
  BY <1>1 DEF SeatingInv, AuditClean, AuditRound, Tables
<1> QED
  BY <1>1, <1>6, <1>7, <1>8 DEF SeatingInv, CaptainsDiffer, NoneBeforeSettled, Settled

\* Seating one more member at a candidate table.
LEMMA PlaceStep ==
  ASSUME SeatingInv, NEW m \in People, PlaceMember(m)
  PROVE  SeatingInv'
<1>1. PICK i \in Candidates(m) :
        tables' = [tables EXCEPT ![i].people = @ \cup {m}, ![i].cats = @ \cup {job.cat[m]}]
  BY DEF PlaceMember
<1>2. /\ phase = "place" /\ m \in waiting /\ waiting' = waiting \ {m}
      /\ UNCHANGED <<job, phase, captains, used, order, rounds, met, degree, repeats>>
  BY DEF PlaceMember, NextUp
<1>3. /\ tables \in Seq(Table) /\ job \in Job /\ DOMAIN tables = Tables /\ i \in Tables
      /\ HalfSeated /\ TypeOK
  BY <1>1, <1>2 DEF SeatingInv, TypeOK, HalfSeated, Candidates
<1> DEFINE row == [tables[i] EXCEPT !.people = @ \cup {m}, !.cats = @ \cup {job.cat[m]}]
<1>4. tables[i] \in Table /\ job.cat[m] \in Categories
  BY <1>3 DEF Job
<1>5. row \in Table /\ row.people = tables[i].people \cup {m}
      /\ row.cats = tables[i].cats \cup {job.cat[m]}
  BY <1>4 DEF Table
<1>6. tables' = [tables EXCEPT ![i] = row]
  BY <1>1, <1>3
<1> HIDE DEF row
<1>7. tables' \in Seq(Table) /\ DOMAIN tables' = Tables
  BY <1>3, <1>5, <1>6
<1>8. /\ tables'[i] = row
      /\ \A j \in Tables \ {i} : tables'[j] = tables[j]
  BY <1>3, <1>6
<1>9. Tables' = Tables
  BY <1>2 DEF Tables
<1>10. TypeOK'
  <2>1. row.cats = {job.cat[p] : p \in row.people}
    BY <1>3, <1>5 DEF TypeOK, CatsCurrent
  <2>2. CatsCurrent'
    <3>1. job' = job /\ tables'[i] = row
      BY <1>2, <1>8
    <3>2. tables'[i].cats = {job'.cat[p] : p \in tables'[i].people}
      BY <2>1, <3>1
    <3>3. \A j \in Tables \ {i} : tables'[j].cats = {job'.cat[p] : p \in tables'[j].people}
      <4> TAKE j \in Tables \ {i}
      <4>1. tables'[j] = tables[j] /\ tables[j].cats = {job.cat[p] : p \in tables[j].people}
        BY <1>3, <1>8 DEF TypeOK, CatsCurrent
      <4> QED
        BY <3>1, <4>1
    <3>4. \A j \in DOMAIN tables' : tables'[j].cats = {job'.cat[p] : p \in tables'[j].people}
      BY <3>2, <3>3, <1>7
    <3> QED
      BY <3>4 DEF CatsCurrent
  <2>3. waiting' \subseteq People
    BY <1>2, <1>3 DEF TypeOK
  <2> QED
    BY <1>2, <1>3, <1>7, <2>2, <2>3 DEF TypeOK
<1>11. HalfSeated'
  <2>1. \A j \in Tables : m \notin tables[j].people
    BY <1>2, <1>3 DEF HalfSeated
  <2>2. \A p \in tables[i].people : job.cat[p] # job.cat[m]
    BY <1>1, <1>3 DEF Candidates, TypeOK, CatsCurrent
  <2>3. Cardinality(row.people) <= job.per
    <3>1. tables[i].people \in SUBSET People /\ Cardinality(tables[i].people) < job.per
      BY <1>1, <1>4 DEF Candidates, Table
    <3>2. Cardinality(tables[i].people \cup {m}) = Cardinality(tables[i].people) + 1
      BY <3>1, <2>1, <1>3, PeopleCounted, FS_AddElement
    <3> QED
      BY <3>1, <3>2, <1>3, <1>5, PeopleCounted DEF Job
  <2>4. \A j \in Tables : /\ captains[j] \in tables'[j].people
                          /\ Cardinality(tables'[j].people) <= job.per
    BY <1>3, <1>5, <1>8, <2>3 DEF HalfSeated
  <2>5. \A j \in Tables : \A p, q \in tables'[j].people : job.cat[p] = job.cat[q] => p = q
    BY <1>3, <1>5, <1>8, <2>2 DEF HalfSeated
  <2>6. \A j, k \in Tables, p \in People :
          p \in tables'[j].people /\ p \in tables'[k].people => j = k
    BY <1>3, <1>5, <1>8, <2>1 DEF HalfSeated
  <2>7. \A p \in People : p \in waiting' <=> \A j \in Tables : p \notin tables'[j].people
    BY <1>2, <1>3, <1>5, <1>8 DEF HalfSeated
  <2> QED
    BY <1>2, <1>7, <1>9, <2>4, <2>5, <2>6, <2>7 DEF HalfSeated
<1>12. AuditClean'
  BY <1>2 DEF SeatingInv, AuditClean, AuditRound, Tables
<1> QED
  BY <1>2, <1>10, <1>11, <1>12 DEF SeatingInv, CaptainsDiffer, NoneBeforeSettled

LEMMA PairsCounted ==
  ASSUME NEW S \in SUBSET SUBSET People
  PROVE  /\ Cardinality(S) \in Nat
         /\ \A p \in People : Cardinality(Met(p, S)) \in Nat
<1>1. IsFiniteSet(SUBSET People)
  BY SeatingAssumption, FS_SUBSET
<1>2. Cardinality(S) \in Nat
  BY <1>1, FS_Subset, FS_CardinalityType
<1> QED
  BY <1>2, PeopleCounted DEF Met

\* The round that is recorded is the one that was seated.
LEMMA RecordStep ==
  ASSUME SeatingInv, RecordRound
  PROVE  SeatingInv'
<1> DEFINE seating == [i \in Tables |-> tables[i].people]
           pairs   == Together(seating)
<1>1. /\ phase = "place" /\ waiting = {} /\ phase' = "next"
      /\ rounds' = Append(rounds, seating)
      /\ met' = met \cup pairs
      /\ degree' = [p \in People |-> degree[p] + Cardinality(Met(p, pairs \ met))]
      /\ repeats' = repeats + Cardinality(pairs \cap met)
      /\ tables' = <<>>
      /\ UNCHANGED <<job, captains, used, waiting>>
  BY DEF RecordRound
<1>2. /\ HalfSeated /\ TypeOK /\ CaptainsDiffer /\ tables \in Seq(Table)
      /\ captains \in Seq(People) /\ rounds \in Seq(Seq(SUBSET People))
  BY <1>1 DEF SeatingInv, TypeOK
<1>3. \A i \in Tables : tables[i].people \in SUBSET People
  <2>1. \A i \in Tables : tables[i] \in Table
    BY <1>2 DEF HalfSeated
  <2> QED
    BY <2>1 DEF Table
<1>4. seating \in Seq(SUBSET People)
  BY <1>2, <1>3 DEF Tables
<1>5. pairs \in SUBSET SUBSET People
  BY <1>3 DEF Together, PairsOf
<1>6. AuditRound(seating)
  <2>1. \A i \in Tables : seating[i] = tables[i].people
    OBVIOUS
  <2>2. \A p \in People : \E i \in Tables : p \in tables[i].people
    BY <1>1, <1>2 DEF HalfSeated
  <2>3. \A i, j \in Tables : tables[i].people \cap tables[j].people # {} => i = j
    BY <1>2, <1>3 DEF HalfSeated
  <2> QED
    BY <1>2, <2>1, <2>2, <2>3 DEF HalfSeated, AuditRound
<1> HIDE DEF seating, pairs
<1>7. DOMAIN seating = Tables
  BY DEF seating
<1>8. AuditClean'
  <2>1. \A r \in DOMAIN rounds : DOMAIN rounds[r] = Tables /\ AuditRound(rounds[r])
    BY DEF SeatingInv, AuditClean
  <2>2. \A r \in DOMAIN rounds' : DOMAIN rounds'[r] = Tables /\ AuditRound(rounds'[r])
    BY <1>1, <1>2, <1>4, <1>6, <1>7, <2>1
  <2> QED
    BY <1>1, <2>2 DEF AuditClean, AuditRound, Tables
<1>9. TypeOK'
  <2>1. rounds' \in Seq(Seq(SUBSET People))
    BY <1>1, <1>2, <1>4
  <2>2. degree' \in [People -> Nat] /\ repeats' \in Nat /\ met' \subseteq SUBSET People
    <3>1. pairs \ met \in SUBSET SUBSET People /\ pairs \cap met \in SUBSET SUBSET People
      BY <1>5
    <3>2. \A p \in People : Cardinality(Met(p, pairs \ met)) \in Nat
      BY <3>1, PairsCounted
    <3>3. Cardinality(pairs \cap met) \in Nat
      BY <3>1, PairsCounted
    <3>4. degree \in [People -> Nat] /\ repeats \in Nat /\ met \subseteq SUBSET People
      BY <1>2 DEF TypeOK
    <3>5. degree' \in [People -> Nat]
      <4> DEFINE more(p) == Cardinality(Met(p, pairs \ met))
      <4>1. degree' = [p \in People |-> degree[p] + more(p)]
        BY <1>1
      <4>2. \A p \in People : more(p) \in Nat
        BY <3>2
      <4> HIDE DEF more
      <4>3. \A p \in People : degree[p] + more(p) \in Nat
        BY <3>4, <4>2
      <4> QED
        BY <4>1, <4>3
    <3>6. repeats' \in Nat
      BY <1>1, <3>3, <3>4
    <3>7. met' \subseteq SUBSET People
      BY <1>1, <1>5, <3>4
    <3> QED
      BY <3>5, <3>6, <3>7
  <2>3. tables' \in Seq(Table) /\ CatsCurrent'
    BY <1>1 DEF CatsCurrent
  <2>4. job' \in Job /\ phase' \in Phases
    BY <1>1, <1>2 DEF TypeOK, Phases
  <2>5. captains' \in Seq(People) /\ used' \subseteq Categories /\ waiting' \subseteq People
    BY <1>1, <1>2 DEF TypeOK
  <2> QED
    BY <2>1, <2>2, <2>3, <2>4, <2>5 DEF TypeOK
<1> QED
  BY <1>1, <1>2, <1>8, <1>9 DEF SeatingInv, CaptainsDiffer, NoneBeforeSettled, Settled

-----------------------------------------------------------------------------
LEMMA SeatingStep ==
  ASSUME SeatingInv, [Next]_vars
  PROVE  SeatingInv'
<1>1. CASE ResolveCaptains
  BY <1>1, ResolveStep
<1>2. CASE TooFewCaptains
  BY <1>2, PhaseStep DEF TooFewCaptains, Phases, Settled
<1>3. ASSUME NEW p \in People, KeepFresh(p) \/ KeepFirst(p)
      PROVE  SeatingInv'
  BY <1>3, KeepStep
<1>4. CASE Validate
  BY <1>4, PhaseStep DEF Validate, Phases, Settled
<1>5. CASE StartRound
  BY <1>5, StartStep
<1>6. CASE RecordRound
  BY <1>6, RecordStep
<1>7. CASE Deliver
  BY <1>7, PhaseStep DEF Deliver, Phases, Settled
<1>8. ASSUME NEW m \in People, PlaceMember(m)
      PROVE  SeatingInv'
  BY <1>8, PlaceStep
<1>9. ASSUME NEW m \in People, GiveUp(m)
      PROVE  SeatingInv'
  BY <1>9, PhaseStep DEF GiveUp, Phases, Settled
<1>10. CASE UNCHANGED vars
  BY <1>10 DEF vars, SeatingInv, TypeOK, CaptainsDiffer, NoneBeforeSettled, HalfSeated,
               AuditClean, AuditRound, Tables, CatsCurrent
<1> QED
  BY <1>1, <1>2, <1>3, <1>4, <1>5, <1>6, <1>7, <1>8, <1>9, <1>10 DEF Next, Choose, Seat

LEMMA SeatingSafe == Spec => []SeatingInv
  BY SeatingInit, SeatingStep, PTL DEF Spec

\* The values are of their types in every behaviour, and the categories cached at
\* a table are those of its people (matcher.ts, WorkingTable).
THEOREM SeatingTyped == Spec => []TypeOK
<1>1. SeatingInv => TypeOK
  BY DEF SeatingInv
<1> QED
  BY <1>1, SeatingSafe, PTL

\* For every roster, table size and shuffle, every complete round passes the audit
\* of engine/audit.ts: C1, C3, C4 and C5.
THEOREM RoundsAuditClean == Spec => []AuditClean
<1>1. SeatingInv => AuditClean
  BY DEF SeatingInv
<1> QED
  BY <1>1, SeatingSafe, PTL

-----------------------------------------------------------------------------
(* How far the captains spread                                             *)

\* A list without repetitions has as many members as places.
LEMMA DistinctCount ==
  ASSUME NEW n \in Nat, NEW f, DOMAIN f = 1..n, \A i, j \in 1..n : f[i] = f[j] => i = j
  PROVE  Cardinality({f[i] : i \in 1..n}) = n
<1> DEFINE S == {f[i] : i \in 1..n}
           g == [i \in 1..n |-> f[i]]
<1>1. g \in [1..n -> S] /\ \A i, j \in 1..n : g[i] = g[j] => i = j
  OBVIOUS
<1>2. g \in Injection(1..n, S)
  BY <1>1 DEF Injection, IsInjective
<1>3. g \in Surjection(1..n, S)
  BY <1>1 DEF Surjection
<1>4. ExistsBijection(1..n, S)
  BY <1>2, <1>3 DEF ExistsBijection, Bijection
<1> HIDE DEF S
<1>5. Cardinality(S) = n
  BY <1>4, FS_CountingElements
<1> QED BY <1>5 DEF S

\* The captains are of different categories.
CatsDiffer(cat, s) == \A i, j \in DOMAIN s : cat[s[i]] = cat[s[j]] => i = j

Cats(cat, S) == {cat[p] : p \in S}

\* They span their categories, or those of all they are chosen from.
Spread(cat, s, from) ==
  /\ Members(s) \subseteq from
  /\ CatsDiffer(cat, s) \/ Cats(cat, Members(s)) = Cats(cat, from)

From(j) == IF j.designated = {} THEN People ELSE j.designated

\* While the designated ones are thinned out, the pass over the categories is
\* the first, or all of them are spanned already.
SpreadInv ==
  /\ phase = "resolve" => captains = <<>> /\ used = {}
  /\ phase = "trim" =>
       /\ job.designated # {}
       /\ Spread(job.cat, captains, job.designated)
       /\ used = Cats(job.cat, Members(captains)) \/ Cats(job.cat, Members(captains)) = Cats(job.cat, job.designated)
  /\ phase \in {"check"} \cup Settled => Spread(job.cat, captains, From(job))

\* One pass takes every category once; a second one begins when all are taken.
LEMMA RoundRobinSpreads ==
  ASSUME job \in Job, NEW n \in Nat, NEW s \in [1..n -> People], RoundRobin(s)
  PROVE  Spread(job.cat, s, People)
<1> DEFINE Of(c)   == {i \in 1..n : job.cat[s[i]] = c}
           Pass(i) == Cardinality(Of(job.cat[s[i]]) \cap 1..i)
<1>1. \A i \in 1..n, p \in People \ Members(s) : Cardinality(Of(job.cat[p])) >= Pass(i) - 1
  BY DEF RoundRobin
<1>2. Members(s) \subseteq People
  BY DEF Members
<1>3. IsFiniteSet(1..n)
  BY FS_Interval
<1>4. \A i \in 1..n : Pass(i) \in Nat
  <2>1. \A i \in 1..n : Of(job.cat[s[i]]) \cap 1..i \in SUBSET (1..n)
    OBVIOUS
  <2> HIDE DEF Of
  <2> QED BY <1>3, <2>1, FS_Subset, FS_CardinalityType
<1>5. CASE \E i \in 1..n : Pass(i) >= 2
  <2>1. PICK i \in 1..n : Pass(i) >= 2
    BY <1>5
  <2>2. ASSUME NEW p \in People PROVE \E k \in 1..n : job.cat[s[k]] = job.cat[p]
    <3>1. CASE p \in Members(s)
      BY <3>1 DEF Members
    <3>2. CASE p \notin Members(s)
      <4>1. Cardinality(Of(job.cat[p])) >= Pass(i) - 1
        BY <1>1, <2>1, <3>2
      <4>2. Of(job.cat[p]) \in SUBSET (1..n)
        OBVIOUS
      <4> HIDE DEF Of
      <4>3. Cardinality(Of(job.cat[p])) \in Nat
        BY <1>3, <4>2, FS_Subset, FS_CardinalityType
      <4> HIDE DEF Pass
      <4>4. Cardinality(Of(job.cat[p])) # 0
        BY <1>4, <2>1, <4>1, <4>3
      <4>5. Of(job.cat[p]) # {}
        BY <4>4, FS_EmptySet
      <4> QED BY <4>5 DEF Of
    <3> QED BY <3>1, <3>2
  <2>3. Cats(job.cat, Members(s)) = Cats(job.cat, People)
    BY <1>2, <2>2 DEF Cats, Members
  <2> QED BY <1>2, <2>3 DEF Spread
<1>6. CASE \A i \in 1..n : ~(Pass(i) >= 2)
  <2>1. ASSUME NEW i \in 1..n, NEW j \in 1..n, i < j, job.cat[s[i]] = job.cat[s[j]]
        PROVE  FALSE
    <3> DEFINE both == Of(job.cat[s[j]]) \cap 1..j
    <3>1. {i} \cup {j} \in SUBSET both /\ i # j /\ both \in SUBSET (1..n)
      BY <2>1
    <3>2. Cardinality({i} \cup {j}) = 2
      <4>1. IsFiniteSet({i}) /\ Cardinality({i}) = 1 /\ j \notin {i}
        BY <3>1, FS_Singleton
      <4>2. Cardinality({i} \cup {j}) = IF j \in {i} THEN Cardinality({i}) ELSE Cardinality({i}) + 1
        BY <4>1, FS_AddElement
      <4> QED BY <4>1, <4>2
    <3>3. Pass(j) = Cardinality(both) /\ Pass(j) \in Nat
      BY <1>4
    <3> HIDE DEF both, Pass, Of
    <3>4. IsFiniteSet(both)
      BY <1>3, <3>1, FS_Subset
    <3>5. Cardinality({i} \cup {j}) <= Cardinality(both)
      BY <3>1, <3>4, FS_Subset
    <3> QED BY <1>6, <3>2, <3>3, <3>5
  <2>2. CatsDiffer(job.cat, s)
    <3>1. SUFFICES ASSUME NEW i \in 1..n, NEW j \in 1..n, job.cat[s[i]] = job.cat[s[j]], i # j
                   PROVE  FALSE
      BY DEF CatsDiffer
    <3>2. i < j \/ j < i
      BY <3>1
    <3> QED BY <2>1, <3>1, <3>2
  <2> QED BY <1>2, <2>2 DEF Spread
<1> QED BY <1>5, <1>6

LEMMA ResolveSpreads ==
  ASSUME SeatingInv, SpreadInv, ResolveCaptains
  PROVE  SpreadInv'
<1>1. job \in Job /\ job' = job /\ job.per \in Nat \ {0} /\ phase = "resolve"
      /\ used' = used
  BY DEF SeatingInv, TypeOK, Job, ResolveCaptains
<1>2. captains = <<>> /\ used = {}
  BY <1>1 DEF SpreadInv
<1>3. ASSUME job.designated = {},
             NEW s \in [1..TableCountFor(A, job.per) -> People], RoundRobin(s), captains' = s
      PROVE  Spread(job'.cat, captains', From(job'))
  <2>1. TableCountFor(A, job.per) \in Nat
    BY <1>1, PeopleCounted, TablesNeeded
  <2>2. Spread(job.cat, s, People)
    BY <1>1, <1>3, <2>1, RoundRobinSpreads
  <2> QED BY <1>1, <1>3, <2>2 DEF From
<1>4. ASSUME job.designated # {}, captains' \in Orders(job.designated)
      PROVE  Spread(job'.cat, captains', From(job'))
  <2>1. Members(captains') = job.designated
    BY <1>4 DEF Orders
  <2> QED BY <1>1, <1>4, <2>1 DEF Spread, From, Cats
<1>5. ASSUME Cardinality(job.designated) > T, phase' = "trim", captains' = captains
      PROVE  SpreadInv'
  <2>1. job.designated # {}
    <3>1. T \in Nat
      BY <1>1, PeopleCounted, TablesNeeded DEF T, Job
    <3> QED BY <1>5, <3>1, FS_EmptySet
  <2>2. Members(captains') = {} /\ DOMAIN captains' = {}
    BY <1>2, <1>5 DEF Members
  <2> QED BY <1>1, <1>2, <1>5, <2>1, <2>2 DEF SpreadInv, Settled, Spread, CatsDiffer, Cats
<1>6. phase' = "check" /\ Spread(job'.cat, captains', From(job')) => SpreadInv'
  BY DEF SpreadInv, Settled
<1> QED BY <1>3, <1>4, <1>5, <1>6 DEF ResolveCaptains

LEMMA AppendMembers ==
  ASSUME NEW s \in Seq(People), NEW p \in People
  PROVE  Members(Append(s, p)) = Members(s) \cup {p}
<1> DEFINE x == Append(s, p)
<1>1. Len(s) \in Nat /\ DOMAIN s = 1..Len(s) /\ DOMAIN x = 1..(Len(s) + 1)
      /\ x[Len(s) + 1] = p /\ \A i \in 1..Len(s) : x[i] = s[i]
  OBVIOUS
<1> HIDE DEF x
<1>2. Members(x) = Members(s) \cup {p}
  BY <1>1 DEF Members
<1> QED BY <1>2 DEF x

LEMMA KeepSpreads ==
  ASSUME SeatingInv, SpreadInv, NEW p \in People, KeepFresh(p) \/ KeepFirst(p)
  PROVE  SpreadInv'
<1>1. phase = "trim" /\ p \in Pool /\ Keep(p) /\ job' = job /\ p \in job.designated
  BY DEF KeepFresh, KeepFirst, Fresh, Keep, Pool
<1>2. captains' = Append(captains, p) /\ captains \in Seq(People)
  BY <1>1 DEF Keep, SeatingInv, TypeOK
<1>3. Members(captains') = Members(captains) \cup {p}
  BY <1>2, AppendMembers
<1>4. /\ Spread(job.cat, captains, job.designated) /\ job.designated # {}
      /\ used = Cats(job.cat, Members(captains)) \/ Cats(job.cat, Members(captains)) = Cats(job.cat, job.designated)
  BY <1>1 DEF SpreadInv
<1>5. phase' \in {"check", "trim"}
  BY <1>1 DEF Keep
<1>6. Members(captains') \subseteq job.designated
  BY <1>1, <1>3, <1>4 DEF Spread
<1>7. CASE Cats(job.cat, Members(captains)) = Cats(job.cat, job.designated)
  <2>1. Cats(job.cat, Members(captains')) = Cats(job.cat, job.designated)
    BY <1>1, <1>3, <1>6, <1>7 DEF Cats
  <2>2. Spread(job.cat, captains', job.designated)
    BY <1>4, <1>6, <2>1 DEF Spread, Cats
  <2>3. From(job) = job.designated
    BY <1>4 DEF From
  <2> QED BY <1>1, <1>4, <1>5, <2>1, <2>2, <2>3 DEF SpreadInv, Settled
<1>8. CASE used = Cats(job.cat, Members(captains)) /\ KeepFresh(p)
           /\ Cats(job.cat, Members(captains)) # Cats(job.cat, job.designated)
  <2>1. used' = used \cup {job.cat[p]} /\ job.cat[p] \notin used
    BY <1>8 DEF KeepFresh, Fresh
  <2>2. used' = Cats(job.cat, Members(captains'))
    BY <1>3, <1>8, <2>1 DEF Cats
  <2>3. CatsDiffer(job.cat, captains)
    BY <1>4, <1>8 DEF Spread
  <2>4. \A i \in DOMAIN captains : job.cat[captains[i]] # job.cat[p]
    BY <1>8, <2>1 DEF Cats, Members
  <2>5. CatsDiffer(job.cat, captains')
    BY <1>2, <2>3, <2>4 DEF CatsDiffer
  <2> QED BY <1>1, <1>4, <1>5, <1>6, <2>2, <2>5
          DEF SpreadInv, Spread, From, Cats, CatsDiffer, Settled
<1>9. CASE used = Cats(job.cat, Members(captains)) /\ KeepFirst(p)
           /\ Cats(job.cat, Members(captains)) # Cats(job.cat, job.designated)
  <2>1. \A q \in job.designated : q \in Members(captains) \/ job.cat[q] \in used
    BY <1>9 DEF KeepFirst, Fresh, Pool
  <2>2. Members(captains) \subseteq job.designated
    BY <1>4 DEF Spread
  <2>3. Cats(job.cat, Members(captains)) = Cats(job.cat, job.designated)
    BY <1>9, <2>1, <2>2 DEF Cats
  <2> QED BY <1>9, <2>3
<1> QED BY <1>4, <1>7, <1>8, <1>9

LEMMA SpreadStep ==
  ASSUME SeatingInv, SpreadInv, [Next]_vars
  PROVE  SpreadInv'
<1>1. ASSUME UNCHANGED <<job, captains>>, phase \in {"check"} \cup Settled \cup {"refused"},
             phase' \in Settled \cup {"refused"}, phase = "refused" => phase' = "refused"
      PROVE  SpreadInv'
  BY <1>1 DEF SpreadInv, Settled
<1>2. CASE ResolveCaptains
  BY <1>2, ResolveSpreads
<1>3. CASE TooFewCaptains
  BY <1>3 DEF TooFewCaptains, SpreadInv, Settled
<1>4. ASSUME NEW p \in People, KeepFresh(p) \/ KeepFirst(p)
      PROVE  SpreadInv'
  BY <1>4, KeepSpreads
<1>5. CASE Validate
  BY <1>1, <1>5 DEF Validate, Settled
<1>6. CASE StartRound
  BY <1>1, <1>6 DEF StartRound, Settled
<1>7. CASE RecordRound
  BY <1>1, <1>7 DEF RecordRound, Settled
<1>8. CASE Deliver
  BY <1>1, <1>8 DEF Deliver, Settled
<1>9. ASSUME NEW m \in People, PlaceMember(m) \/ GiveUp(m)
      PROVE  SpreadInv'
  BY <1>1, <1>9 DEF PlaceMember, GiveUp, Settled
<1>10. CASE UNCHANGED vars
  BY <1>10 DEF vars, SpreadInv, Settled
<1> QED BY <1>2, <1>3, <1>4, <1>5, <1>6, <1>7, <1>8, <1>9, <1>10 DEF Next, Choose, Seat

\* The captains chosen span as many categories as that many of the designated, or
\* of all, people can, for every roster and every shuffle.
THEOREM CaptainsAreSpread == Spec => []CaptainsSpread
<1>1. Init => SpreadInv
  BY DEF Init, SpreadInv, Settled
<1>2. ASSUME SeatingInv, SpreadInv, phase \in {"check"} \cup Settled
      PROVE  /\ Members(captains) \subseteq From(job)
             /\ Cardinality(Members(captains)) = Len(captains)
             /\ \/ Cardinality(Cats(job.cat, Members(captains))) = Len(captains)
                \/ Cats(job.cat, Members(captains)) = Cats(job.cat, From(job))
  <2>1. captains \in Seq(People) /\ Spread(job.cat, captains, From(job)) /\ CaptainsDiffer
    BY <1>2 DEF SeatingInv, TypeOK, SpreadInv
  <2>2. Len(captains) \in Nat /\ DOMAIN captains = 1..Len(captains)
    BY <2>1
  <2>3. Cardinality(Members(captains)) = Len(captains)
    BY <2>1, <2>2, DistinctCount DEF CaptainsDiffer, Members
  <2>4. ASSUME CatsDiffer(job.cat, captains)
        PROVE  Cardinality(Cats(job.cat, Members(captains))) = Len(captains)
    <3> DEFINE f == [i \in 1..Len(captains) |-> job.cat[captains[i]]]
    <3>1. DOMAIN f = 1..Len(captains)
          /\ \A i, j \in 1..Len(captains) : f[i] = f[j] => i = j
      BY <2>2, <2>4 DEF CatsDiffer
    <3>2. {f[i] : i \in 1..Len(captains)} = Cats(job.cat, Members(captains))
      BY <2>2 DEF Cats, Members
    <3> HIDE DEF f
    <3>3. Cardinality({f[i] : i \in 1..Len(captains)}) = Len(captains)
      BY <2>2, <3>1, DistinctCount
    <3> QED BY <3>2, <3>3
  <2> QED BY <2>1, <2>3, <2>4 DEF Spread
<1>3. SeatingInv /\ SpreadInv => CaptainsSpread
  BY <1>2 DEF CaptainsSpread, Settled, From, Cats, CatsOf
<1> QED BY <1>1, <1>3, SpreadStep, SeatingSafe, PTL DEF Spec

-----------------------------------------------------------------------------
(* Why the engine gives up                                                 *)

\* What the gate has admitted is still so, and it has given up only for want of
\* room.
GateInv ==
  /\ phase \in Settled => Valid
  /\ RoomySeats

LEMMA CountUpTo ==
  ASSUME NEW n \in Nat
  PROVE  IsFiniteSet(1..n) /\ Cardinality(1..n) = n
BY FS_Interval

\* A set with a distinct person for each of n things has n people, at least.
LEMMA PeopleAtLeast ==
  ASSUME NEW S, NEW P \in SUBSET People, NEW f \in [S -> P],
         \A x, y \in S : f[x] = f[y] => x = y
  PROVE  /\ IsFiniteSet(S) /\ Cardinality(S) \in Nat
         /\ Cardinality(S) <= Cardinality(P)
<1>1. f \in Injection(S, P)
  BY DEF Injection, IsInjective
<1>2. IsFiniteSet(P)
  BY PeopleCounted
<1>3. IsFiniteSet(S) /\ Cardinality(S) <= Cardinality(P)
  BY <1>1, <1>2, FS_Injection
<1> QED BY <1>3, FS_CardinalityType

\* The members that are not seated yet when one has no candidate: F are the full
\* tables, K those with a free seat and somebody of the member's category.
LEMMA ChairsTaken ==
  ASSUME SeatingInv, phase = "place", NEW m \in waiting, Candidates(m) = {}, Valid,
         NEW F \in SUBSET Tables, NEW K \in SUBSET Tables,
         F = {i \in Tables : Cardinality(tables[i].people) >= job.per},
         K = Tables \ F
  PROVE  /\ Cardinality(F) \in Nat /\ Cardinality(K) \in Nat
         /\ Cardinality(F) + Cardinality(K) = T
         /\ Cardinality(K) <= Freq(job.cat[m]) - 1
         /\ Cardinality(F) * job.per + Cardinality(K) <= A - 1
<1>1. /\ HalfSeated /\ TypeOK /\ job \in Job /\ captains \in Seq(People) /\ tables \in Seq(Table)
      /\ DOMAIN tables = Tables /\ m \in People /\ job.per \in Nat \ {0} /\ CatsCurrent
  BY DEF SeatingInv, TypeOK, HalfSeated, Job
<1>2. \A i \in Tables : /\ tables[i].people \in SUBSET People
                        /\ m \notin tables[i].people
  <2>1. \A i \in Tables : tables[i] \in Table
    BY <1>1
  <2> QED BY <1>1, <2>1 DEF Table, HalfSeated
<1>3. \A i, j \in Tables, p \in People :
        p \in tables[i].people /\ p \in tables[j].people => i = j
  BY <1>1 DEF HalfSeated
<1>4. Len(captains) \in Nat /\ Tables = 1..Len(captains)
  BY <1>1 DEF Tables
<1>5. IsFiniteSet(Tables) /\ Cardinality(Tables) = Len(captains)
  BY <1>4, CountUpTo
<1>6. Len(captains) = T
  BY DEF Valid, V7, V8
<1>7. /\ IsFiniteSet(F) /\ IsFiniteSet(K) /\ Cardinality(F) \in Nat /\ Cardinality(K) \in Nat
      /\ Cardinality(F) + Cardinality(K) = T
  <2>1. IsFiniteSet(F) /\ IsFiniteSet(K)
    BY <1>5, FS_Subset
  <2>2. Cardinality(F) \in Nat /\ Cardinality(K) \in Nat
    BY <2>1, FS_CardinalityType
  <2>3. F \cup K = Tables /\ F \cap K = {}
    OBVIOUS
  <2>4. Cardinality(F \cup K) = Cardinality(F) + Cardinality(K) - Cardinality(F \cap K)
    BY <2>1, FS_Union
  <2>5. Cardinality(F \cap K) = 0
    BY <2>3, FS_EmptySet
  <2>6. Cardinality(F \cup K) = T
    BY <1>5, <1>6, <2>3
  <2> QED BY <2>1, <2>2, <2>4, <2>5, <2>6
<1> DEFINE Same == {p \in People : job.cat[p] = job.cat[m]}
<1>8. \A i \in K : \E p \in tables[i].people : p \in Same
  <2> SUFFICES ASSUME NEW i \in K PROVE \E p \in tables[i].people : p \in Same
    OBVIOUS
  <2>1. i \in Tables /\ Cardinality(tables[i].people) \in Nat
        /\ ~(Cardinality(tables[i].people) >= job.per)
    BY <1>2, PeopleCounted
  <2>2. Cardinality(tables[i].people) < job.per
    BY <1>1, <2>1
  <2>3. job.cat[m] \in tables[i].cats
    BY <2>1, <2>2 DEF Candidates
  <2>4. tables[i].cats = {job.cat[p] : p \in tables[i].people}
    BY <1>1, <2>1 DEF CatsCurrent
  <2> QED BY <1>2, <2>1, <2>3, <2>4
<1> DEFINE w == [i \in K |-> CHOOSE p \in tables[i].people : p \in Same]
<1>9. \A i \in K : w[i] \in tables[i].people /\ w[i] \in Same /\ w[i] \in Same \ {m}
  BY <1>2, <1>8
<1>10. Cardinality(K) <= Freq(job.cat[m]) - 1
  <2>1. w \in [K -> Same \ {m}]
    BY <1>9
  <2>2. \A i, j \in K : w[i] = w[j] => i = j
    <3>1. \A i \in K : w[i] \in tables[i].people /\ w[i] \in People /\ i \in Tables
      BY <1>2, <1>9
    <3> HIDE DEF w
    <3> QED BY <1>3, <3>1
  <2>3. Same \ {m} \in SUBSET People
    OBVIOUS
  <2> HIDE DEF w, Same
  <2>4. Cardinality(K) <= Cardinality(Same \ {m})
    BY <2>1, <2>2, <2>3, PeopleAtLeast
  <2>5. m \in Same /\ Same \in SUBSET People /\ Freq(job.cat[m]) = Cardinality(Same)
    BY <1>1 DEF Same, Freq
  <2>6. Cardinality(Same \ {m}) = Cardinality(Same) - 1 /\ Cardinality(Same) \in Nat
    BY <2>5, PeopleCounted, FS_RemoveElement
  <2> QED BY <1>7, <2>4, <2>5, <2>6
<1>11. \A i \in F : \E b \in [1..job.per -> tables[i].people] :
         \A x, y \in 1..job.per : b[x] = b[y] => x = y
  <2> SUFFICES ASSUME NEW i \in F
               PROVE  \E b \in [1..job.per -> tables[i].people] :
                        \A x, y \in 1..job.per : b[x] = b[y] => x = y
    OBVIOUS
  <2>1. Cardinality(tables[i].people) = job.per /\ IsFiniteSet(tables[i].people)
    <3>1. Cardinality(tables[i].people) <= job.per
      BY <1>1 DEF HalfSeated
    <3> QED BY <1>1, <1>2, <3>1, PeopleCounted
  <2>2. ExistsBijection(1..job.per, tables[i].people)
    BY <2>1, FS_CardinalityType
  <2> QED BY <2>2 DEF ExistsBijection, Bijection, Injection, IsInjective
<1> DEFINE b == [i \in F |-> CHOOSE g \in [1..job.per -> tables[i].people] :
                               \A x, y \in 1..job.per : g[x] = g[y] => x = y]
<1>12. \A i \in F : /\ b[i] \in [1..job.per -> tables[i].people]
                    /\ \A x, y \in 1..job.per : b[i][x] = b[i][y] => x = y
  BY <1>11
<1> DEFINE full == F \X (1..job.per)
           some == K \X {1}
           D == full \cup some
           seat == [x \in D |-> IF x[1] \in F THEN b[x[1]][x[2]] ELSE w[x[1]]]
<1> HIDE DEF b, w, Same
<1>13. \A x \in D : x[1] \in Tables /\ seat[x] \in tables[x[1]].people /\ seat[x] \in People \ {m}
  <2> SUFFICES ASSUME NEW x \in D
               PROVE  /\ x[1] \in Tables /\ seat[x] \in tables[x[1]].people
                      /\ seat[x] \in People \ {m}
    OBVIOUS
  <2>1. x[1] \in Tables
    OBVIOUS
  <2>2. CASE x[1] \in F
    <3>1. x[2] \in 1..job.per /\ seat[x] = b[x[1]][x[2]]
      BY <2>2
    <3>2. PICK i \in F : i = x[1]
      BY <2>2
    <3>3. PICK j \in 1..job.per : j = x[2]
      BY <3>1
    <3>4. seat[x] = b[i][j] /\ b[i] \in [1..job.per -> tables[i].people]
      BY <1>12, <3>1, <3>2, <3>3
    <3>5. seat[x] \in tables[i].people
      BY <3>4
    <3> HIDE DEF seat, D
    <3> QED BY <1>2, <2>1, <3>2, <3>5
  <2>3. CASE x[1] \notin F
    <3>1. x[1] \in K /\ seat[x] = w[x[1]]
      BY <2>3
    <3> QED BY <1>2, <1>9, <2>1, <3>1
  <2> QED BY <2>2, <2>3
<1>14. \A x, y \in D : seat[x] = seat[y] => x = y
  <2> SUFFICES ASSUME NEW x \in D, NEW y \in D, seat[x] = seat[y] PROVE x = y
    OBVIOUS
  <2>1. x[1] = y[1]
    <3>1. /\ x[1] \in Tables /\ y[1] \in Tables /\ seat[x] \in People
          /\ seat[x] \in tables[x[1]].people /\ seat[x] \in tables[y[1]].people
      BY <1>13
    <3> HIDE DEF seat, D
    <3> QED BY <1>3, <3>1
  <2>2. x = <<x[1], x[2]>> /\ y = <<y[1], y[2]>>
    OBVIOUS
  <2>3. x[2] = y[2]
    <3>1. CASE x[1] \in F
      <4>1. x[2] \in 1..job.per /\ y[2] \in 1..job.per
            /\ seat[x] = b[x[1]][x[2]] /\ seat[y] = b[x[1]][y[2]]
        BY <2>1, <3>1
      <4>2. PICK i \in F : i = x[1]
        BY <3>1
      <4>3. x[2] \in 1..job.per /\ y[2] \in 1..job.per /\ b[i][x[2]] = b[i][y[2]]
        BY <4>1, <4>2
      <4> HIDE DEF seat, D
      <4> QED BY <1>12, <4>3
    <3>2. CASE x[1] \notin F
      BY <2>1, <3>2
    <3> QED BY <3>1, <3>2
  <2> QED BY <2>1, <2>2, <2>3
<1>15. seat \in [D -> People \ {m}]
  <2>1. seat = [x \in D |-> seat[x]]
    OBVIOUS
  <2> HIDE DEF seat, D
  <2> QED BY <1>13, <2>1
<1> HIDE DEF seat
<1>16. Cardinality(D) <= Cardinality(People \ {m})
  BY <1>14, <1>15, PeopleAtLeast
<1>17. Cardinality(People \ {m}) = A - 1 /\ A \in Nat
  BY <1>1, PeopleCounted, FS_RemoveElement DEF A
<1>18. Cardinality(D) = Cardinality(F) * job.per + Cardinality(K)
  <2>1. IsFiniteSet(1..job.per) /\ Cardinality(1..job.per) = job.per
    BY <1>1, CountUpTo
  <2>2. IsFiniteSet({1}) /\ Cardinality({1}) = 1
    BY FS_Singleton
  <2>3. full \cap some = {}
    OBVIOUS
  <2>4. Cardinality(F) * job.per \in Nat
    BY <1>1, <1>7
  <2> DEFINE I == 1..job.per
             one == {1}
  <2> HIDE DEF I, one
  <2>5. IsFiniteSet(full) /\ Cardinality(full) = Cardinality(F) * job.per
    <3>1. IsFiniteSet(F \X I) /\ Cardinality(F \X I) = Cardinality(F) * Cardinality(I)
      BY <1>7, <2>1, FS_Product DEF I
    <3> QED BY <2>1, <3>1 DEF I
  <2>6. IsFiniteSet(some) /\ Cardinality(some) = Cardinality(K)
    <3>1. IsFiniteSet(K \X one) /\ Cardinality(K \X one) = Cardinality(K) * Cardinality(one)
      BY <1>7, <2>2, FS_Product DEF one
    <3> QED BY <1>7, <2>2, <3>1 DEF one
  <2> HIDE DEF full, some
  <2>7. Cardinality(D) = Cardinality(full) + Cardinality(some) - Cardinality(full \cap some)
    BY <2>5, <2>6, FS_Union
  <2>8. Cardinality(full \cap some) = 0
    BY <2>3, FS_EmptySet
  <2> QED BY <1>7, <2>5, <2>6, <2>7, <2>8, <2>4
<1> HIDE DEF D
<1> QED BY <1>7, <1>10, <1>16, <1>17, <1>18

LEMMA TimesMonotone ==
  ASSUME NEW k \in Nat, NEW f \in Nat, NEW c \in Nat, k <= f
  PROVE  k * c <= f * c
<1>1. PICK d \in Nat : f = k + d
  <2>1. f - k \in Nat /\ f = k + (f - k)
    OBVIOUS
  <2> QED BY <2>1
<1>2. f * c = k * c + d * c
  BY <1>1
<1>3. d * c \in Nat /\ k * c \in Nat
  OBVIOUS
<1> QED BY <1>2, <1>3

\* When a member has no candidate, chairs are scarce.
LEMMA ChairsScarce ==
  ASSUME SeatingInv, phase = "place", NEW m \in waiting, Candidates(m) = {}, Valid
  PROVE  /\ job.cat[m] \in Categories
         /\ T * job.per - A < (Freq(job.cat[m]) - 1) * (job.per - 1)
<1> DEFINE F == {i \in Tables : Cardinality(tables[i].people) >= job.per}
           K == Tables \ F
           P == job.per
           f == Cardinality(F)
           k == Cardinality(K)
           q == Freq(job.cat[m])
<1>1. /\ f \in Nat /\ k \in Nat /\ f + k = T /\ k <= q - 1 /\ f * P + k <= A - 1
  BY ChairsTaken
<1>2. P \in Nat \ {0} /\ A \in Nat /\ job.cat[m] \in Categories /\ m \in People
  BY PeopleCounted DEF SeatingInv, TypeOK, Job
<1>3. q \in Nat
  BY PeopleCounted DEF Freq
<1> HIDE DEF f, k, q, P, F, K
<1>4. PICK c \in Nat : c = P - 1
  BY <1>2
<1>5. PICK g \in Nat : g = q - 1
  BY <1>1, <1>3
<1>6. k * c <= g * c
  BY <1>1, <1>4, <1>5, TimesMonotone
<1>7. T * P = f * P + k * c + k
  <2>1. T * P = (f + k) * P
    BY <1>1
  <2>2. (f + k) * P = f * P + k * P
    BY <1>1, <1>2
  <2>3. k * P = k * (c + 1) /\ k * (c + 1) = k * c + k
    BY <1>1, <1>2, <1>4
  <2>4. f * P \in Nat /\ k * c \in Nat
    BY <1>1, <1>2, <1>4
  <2> QED BY <1>1, <2>1, <2>2, <2>3, <2>4
<1>8. f * P \in Nat /\ k * c \in Nat /\ g * c \in Nat
  BY <1>1, <1>2, <1>4, <1>5
<1>9. T * P - A < g * c
  BY <1>1, <1>2, <1>6, <1>7, <1>8
<1> QED BY <1>2, <1>4, <1>5, <1>9 DEF P, q

LEMMA GateStep ==
  ASSUME SeatingInv, GateInv, [Next]_vars
  PROVE  GateInv'
<1>1. ASSUME UNCHANGED <<job, captains>>, phase' = phase \/ phase' # "infeasible",
             phase' \in Settled => phase \in Settled
      PROVE  GateInv'
  <2>1. Valid' <=> Valid
    BY <1>1 DEF Valid, V3, V4, V5, V7, V8, V9, V10, V11, T, Freq, CatsOf
  <2>2. RoomySeats'
    BY <1>1 DEF GateInv, RoomySeats, T, Freq
  <2> QED BY <1>1, <2>1, <2>2 DEF GateInv
<1>2. ASSUME phase' \notin Settled
      PROVE  GateInv'
  BY <1>2 DEF GateInv, RoomySeats, Settled
<1>3. CASE ResolveCaptains \/ TooFewCaptains
  BY <1>2, <1>3 DEF ResolveCaptains, TooFewCaptains, Settled
<1>4. ASSUME NEW p \in People, KeepFresh(p) \/ KeepFirst(p)
      PROVE  GateInv'
  BY <1>2, <1>4 DEF KeepFresh, KeepFirst, Keep, Settled
<1>5. CASE Validate
  <2>1. UNCHANGED <<job, captains>> /\ phase' = IF Valid THEN "next" ELSE "refused"
    BY <1>5 DEF Validate
  <2>2. Valid' <=> Valid
    BY <2>1 DEF Valid, V3, V4, V5, V7, V8, V9, V10, V11, T, Freq, CatsOf
  <2> QED BY <2>1, <2>2 DEF GateInv, RoomySeats, Settled
<1>6. CASE StartRound \/ RecordRound \/ Deliver
  BY <1>1, <1>6 DEF StartRound, RecordRound, Deliver, Settled
<1>7. ASSUME NEW m \in People, PlaceMember(m)
      PROVE  GateInv'
  BY <1>1, <1>7 DEF PlaceMember, Settled
<1>8. ASSUME NEW m \in People, GiveUp(m)
      PROVE  GateInv'
  <2>1. /\ phase = "place" /\ m \in waiting /\ Candidates(m) = {}
        /\ UNCHANGED <<job, captains>>
    BY <1>8 DEF GiveUp, NextUp
  <2>2. Valid
    BY <2>1 DEF GateInv, Settled
  <2>3. /\ job.cat[m] \in Categories
        /\ T * job.per - A < (Freq(job.cat[m]) - 1) * (job.per - 1)
    BY <2>1, <2>2, ChairsScarce
  <2>4. PICK c \in Categories : T * job.per - A < (Freq(c) - 1) * (job.per - 1)
    BY <2>3
  <2>5. RoomySeats'
    BY <2>1, <2>4 DEF RoomySeats, T, Freq
  <2>6. Valid'
    BY <2>1, <2>2 DEF Valid, V3, V4, V5, V7, V8, V9, V10, V11, T, Freq, CatsOf
  <2> QED BY <2>5, <2>6 DEF GateInv
<1>9. CASE UNCHANGED vars
  BY <1>1, <1>9 DEF vars
<1> QED BY <1>3, <1>4, <1>5, <1>6, <1>7, <1>8, <1>9 DEF Next, Choose, Seat

\* A roster that passed the gate is seated unless chairs are scarce: with (f - 1)(P - 1)
\* of them spare, f the size of the largest category, the greedy seating never gives
\* up, whatever the order it takes members and tables in.
THEOREM RoomSuffices == Spec => []RoomySeats
<1>1. Init => GateInv
  BY DEF Init, GateInv, RoomySeats, Settled
<1>2. GateInv => RoomySeats
  BY DEF GateInv
<1> QED BY <1>1, <1>2, GateStep, SeatingSafe, PTL DEF Spec
=============================================================================

--------------------------- MODULE ProfilesProofs ---------------------------
(***************************************************************************)
(* Proofs about Profiles, for any conclaves, files and requests in flight: *)
(* files match, copies stay in step, and only edits can be part of a       *)
(* deadlock.                                                               *)
(***************************************************************************)
EXTENDS Profiles, TLAPS

Busy(s) == work[s] # Null

-----------------------------------------------------------------------------
(* The invariants                                                          *)

\* A request of each kind goes through stages of its own; only a save holds the
\* profile, from its lock to its commit; only a save at its registrations and an
\* edit at the profile hold registrations.
Shape(r) ==
  /\ r.kind \in {"save", "register", "edit", "add"} => r.data \in Given
  /\ r.kind = "add"      => r.data \in Told
  /\ r.kind \in {"register", "edit", "add"} => r.conclave \in Conclaves
  /\ r.kind = "save"     => r.stage \in {"user", "insert", "start", "rows"}
  /\ r.kind = "register" => r.stage = "user"
  /\ r.kind = "edit"     => r.stage \in {"row", "user"}
  /\ r.kind = "add"      => r.stage = "add"
  /\ r.kind = "agenda"   => r.stage \in {"set", "unlink"}
  /\ r.kind \in {"photo", "nophoto"} => r.stage \in {"user", "unlink"}
  /\ r.user <=> r.stage \in {"start", "rows"}
  /\ r.held # {} => r.stage = "rows" \/ (r.kind = "edit" /\ r.stage = "user")
  /\ r.file # Null => r.kind \in {"photo", "agenda"}
  /\ r.prev # Null => r.stage \in {"set", "unlink"}
  /\ r.stage = "unlink" => r.prev # Null

LockInv ==
  /\ \A s \in Slots : Busy(s) => Shape(work[s])
  /\ \A s, t \in Slots : Busy(s) /\ Busy(t) /\ work[s].user /\ work[t].user => s = t

\* A save at its registrations that is to write to them has locked, or has yet to get
\* to, every one of which a field is in step.
CopyInv ==
  /\ \A c \in Conclaves, f \in Fields :
       <<c, f>> \in step => profile # Null /\ rows[c] # Null /\ rows[c][f] = profile.data[f]
  /\ \A s \in Slots : Busy(s) /\ work[s].stage = "rows" /\ Copied(work[s].data) # {} =>
       \A c \in Conclaves, f \in Fields : <<c, f>> \in step => c \in work[s].todo \cup work[s].held

\* What a request has uploaded and no row refers to yet.
Waiting(s) == Busy(s) /\ work[s].stage \in {"user", "set"} /\ work[s].file # Null

\* What a request is about to delete.
Doomed(s) == Busy(s) /\ work[s].stage = "unlink"

Photo == IF profile = Null THEN Null ELSE profile.photo

\* A row's file is there, and another row's is another.
RowFiles ==
  /\ Photo # Null => Photo \in stored
  /\ agenda # Null => agenda \in stored
  /\ Photo # Null => Photo # agenda

\* What a request has uploaded is new to rows and to other requests.
NewFiles ==
  \A s \in Slots : Waiting(s) =>
    /\ work[s].file \in stored /\ work[s].file # Photo /\ work[s].file # agenda
    /\ \A t \in Slots : /\ Busy(t) => work[t].prev # work[s].file
                        /\ Waiting(t) /\ work[t].file = work[s].file => t = s

\* What a request is about to delete no row refers to any more.
OldFiles ==
  \A s \in Slots : Busy(s) /\ work[s].prev # Null =>
    /\ work[s].prev # Photo
    /\ work[s].stage = "unlink" => work[s].prev # agenda

\* Nothing else is in storage but what is left.
AllFiles ==
  \A f \in stored : \/ f \in {Photo, agenda} \/ f \in left
                    \/ \E s \in Slots : \/ Waiting(s) /\ work[s].file = f
                                        \/ Doomed(s) /\ work[s].prev = f

FileInv == RowFiles /\ NewFiles /\ OldFiles /\ AllFiles

\* Every file spoken of has been uploaded.
UsedInv ==
  /\ Photo # Null => Photo \in used
  /\ agenda # Null => agenda \in used
  /\ \A s \in Slots : Busy(s) => /\ work[s].file # Null => work[s].file \in used
                                 /\ work[s].prev # Null => work[s].prev \in used

Inv == TypeOK /\ LockInv /\ UsedInv

-----------------------------------------------------------------------------
(* What is given and what is said                                          *)

LEMMA ToldIsGiven == Told \subseteq Given
  BY DEF Told, Given

LEMMA OnlyIs ==
  ASSUME NEW p \in Given, NEW F
  PROVE  /\ Only(p, F) \in Given
         /\ \A f \in Fields : Only(p, F)[f] = IF f \in F THEN p[f] ELSE Null
  BY DEF Only, Given

LEMMA PatchedIs ==
  ASSUME NEW t \in Told \cup {Null}, NEW p \in Given
  PROVE  /\ Patched(t, p) \in Told /\ Patched(t, p) # Null
         /\ \A f \in Fields :
              Patched(t, p)[f] = IF p[f] # Null THEN p[f] ELSE IF t = Null THEN Empty ELSE t[f]
<1>1. Patched(t, p) \in Told
  BY DEF Patched, Told, Given
<1> QED
  BY <1>1, ProfilesAssumption DEF Patched

\* What is copied or shared is given.
LEMMA CopiedNamed ==
  ASSUME NEW p \in Given
  PROVE  Copied(p) \subseteq Named(p) /\ Filled(p) \subseteq Named(p) /\ Named(p) \subseteq Fields
  BY ProfilesAssumption DEF Copied, Filled, Named, Given

-----------------------------------------------------------------------------
(* How requests move                                                       *)

\* A new request holds nothing.
Newcomer(r) == r \in Request /\ Shape(r) /\ ~r.user /\ r.held = {} /\ r.stage \notin {"rows", "unlink"}

LEMMA AsksSave ==
  ASSUME NEW d \in Given
  PROVE  LET r == [Asks("save", "user") EXCEPT !.data = d]
         IN  Newcomer(r) /\ r.file = Null /\ r.prev = Null
<1> DEFINE r == [Asks("save", "user") EXCEPT !.data = d]
<1>1. r \in Request
  BY DEF Asks, Request, Kinds, Stages
<1>2. /\ r.kind = "save" /\ r.stage = "user" /\ r.conclave = Null /\ r.data = d
      /\ r.file = Null /\ r.prev = Null /\ r.user = FALSE /\ r.held = {}
  BY DEF Asks
<1> HIDE DEF r
<1>3. Newcomer(r) /\ r.file = Null /\ r.prev = Null
  BY <1>1, <1>2 DEF Newcomer, Shape
<1> QED
  BY <1>3 DEF r

LEMMA AsksRegister ==
  ASSUME NEW c \in Conclaves, NEW d \in Given
  PROVE  LET r == [Asks("register", "user") EXCEPT !.conclave = c, !.data = d]
         IN  Newcomer(r) /\ r.file = Null /\ r.prev = Null
<1> DEFINE r == [Asks("register", "user") EXCEPT !.conclave = c, !.data = d]
<1>1. r \in Request
  BY DEF Asks, Request, Kinds, Stages
<1>2. /\ r.kind = "register" /\ r.stage = "user" /\ r.conclave = c /\ r.data = d
      /\ r.file = Null /\ r.prev = Null /\ r.user = FALSE /\ r.held = {}
  BY DEF Asks
<1> HIDE DEF r
<1>3. Newcomer(r) /\ r.file = Null /\ r.prev = Null
  BY <1>1, <1>2 DEF Newcomer, Shape
<1> QED
  BY <1>3 DEF r

LEMMA AsksEdit ==
  ASSUME NEW c \in Conclaves, NEW d \in Given
  PROVE  LET r == [Asks("edit", "row") EXCEPT !.conclave = c, !.data = d]
         IN  Newcomer(r) /\ r.file = Null /\ r.prev = Null
<1> DEFINE r == [Asks("edit", "row") EXCEPT !.conclave = c, !.data = d]
<1>1. r \in Request
  BY DEF Asks, Request, Kinds, Stages
<1>2. /\ r.kind = "edit" /\ r.stage = "row" /\ r.conclave = c /\ r.data = d
      /\ r.file = Null /\ r.prev = Null /\ r.user = FALSE /\ r.held = {}
  BY DEF Asks
<1> HIDE DEF r
<1>3. Newcomer(r) /\ r.file = Null /\ r.prev = Null
  BY <1>1, <1>2 DEF Newcomer, Shape
<1> QED
  BY <1>3 DEF r

LEMMA AsksAdd ==
  ASSUME NEW c \in Conclaves, NEW d \in Told
  PROVE  LET r == [Asks("add", "add") EXCEPT !.conclave = c, !.data = d]
         IN  Newcomer(r) /\ r.file = Null /\ r.prev = Null
<1> DEFINE r == [Asks("add", "add") EXCEPT !.conclave = c, !.data = d]
<1>1. r \in Request /\ d \in Given
  BY ToldIsGiven DEF Asks, Request, Kinds, Stages
<1>2. /\ r.kind = "add" /\ r.stage = "add" /\ r.conclave = c /\ r.data = d
      /\ r.file = Null /\ r.prev = Null /\ r.user = FALSE /\ r.held = {}
  BY DEF Asks
<1> HIDE DEF r
<1>3. Newcomer(r) /\ r.file = Null /\ r.prev = Null
  BY <1>1, <1>2 DEF Newcomer, Shape
<1> QED
  BY <1>3 DEF r

LEMMA AsksNophoto ==
  LET r == Asks("nophoto", "user")
  IN  Newcomer(r) /\ r.file = Null /\ r.prev = Null
<1> DEFINE r == Asks("nophoto", "user")
<1>1. r \in Request
  BY DEF Asks, Request, Kinds, Stages
<1>2. /\ r.kind = "nophoto" /\ r.stage = "user" /\ r.conclave = Null /\ r.data = Null
      /\ r.file = Null /\ r.prev = Null /\ r.user = FALSE /\ r.held = {}
  BY DEF Asks
<1> HIDE DEF r
<1>3. Newcomer(r) /\ r.file = Null /\ r.prev = Null
  BY <1>1, <1>2 DEF Newcomer, Shape
<1> QED
  BY <1>3 DEF r

LEMMA AsksPhoto ==
  ASSUME NEW f \in Files
  PROVE  LET r == [Asks("photo", "user") EXCEPT !.file = f]
         IN  Newcomer(r) /\ r.file = f /\ r.prev = Null
<1> DEFINE r == [Asks("photo", "user") EXCEPT !.file = f]
<1>1. r \in Request
  BY DEF Asks, Request, Kinds, Stages
<1>2. /\ r.kind = "photo" /\ r.stage = "user" /\ r.conclave = Null /\ r.data = Null
      /\ r.file = f /\ r.prev = Null /\ r.user = FALSE /\ r.held = {}
  BY DEF Asks
<1> HIDE DEF r
<1>3. Newcomer(r) /\ r.file = f /\ r.prev = Null
  BY <1>1, <1>2 DEF Newcomer, Shape
<1> QED
  BY <1>3 DEF r

LEMMA AsksAgenda ==
  ASSUME NEW f \in Files \cup {Null}, NEW p \in Files \cup {Null}
  PROVE  LET r == [Asks("agenda", "set") EXCEPT !.file = f, !.prev = p]
         IN  Newcomer(r) /\ r.file = f /\ r.prev = p
<1> DEFINE r == [Asks("agenda", "set") EXCEPT !.file = f, !.prev = p]
<1>1. r \in Request
  BY DEF Asks, Request, Kinds, Stages
<1>2. /\ r.kind = "agenda" /\ r.stage = "set" /\ r.conclave = Null /\ r.data = Null
      /\ r.file = f /\ r.prev = p /\ r.user = FALSE /\ r.held = {}
  BY DEF Asks
<1> HIDE DEF r
<1>3. Newcomer(r) /\ r.file = f /\ r.prev = p
  BY <1>1, <1>2 DEF Newcomer, Shape
<1> QED
  BY <1>3 DEF r

LEMMA BeginLocks ==
  ASSUME TypeOK, LockInv, NEW s \in Slots, NEW r, Newcomer(r), Begins(s, r)
  PROVE  /\ work' \in [Slots -> Request \cup {Null}] /\ LockInv'
         /\ work[s] = Null /\ work'[s] = r /\ r # Null
         /\ \A t \in Slots : t # s => work'[t] = work[t]
<1>1. work' = [work EXCEPT ![s] = r] /\ work[s] = Null
  BY DEF Begins
<1>2. r # Null /\ r \in Request
  BY ProfilesAssumption DEF Newcomer
<1>3. work'[s] = r /\ \A t \in Slots : t # s => work'[t] = work[t]
  BY <1>1 DEF TypeOK
<1>4. LockInv'
  BY <1>3 DEF LockInv, Busy, Newcomer
<1> QED
  BY <1>1, <1>2, <1>3, <1>4 DEF TypeOK

LEMMA EndLocks ==
  ASSUME TypeOK, LockInv, NEW s \in Slots, Ends(s)
  PROVE  /\ work' \in [Slots -> Request \cup {Null}] /\ LockInv'
         /\ work'[s] = Null
         /\ \A t \in Slots : t # s => work'[t] = work[t]
<1>1. work' = [work EXCEPT ![s] = Null]
  BY DEF Ends
<1>2. work'[s] = Null /\ \A t \in Slots : t # s => work'[t] = work[t]
  BY <1>1 DEF TypeOK
<1>3. LockInv'
  BY <1>2 DEF LockInv, Busy
<1> QED
  BY <1>1, <1>2, <1>3 DEF TypeOK

\* A request goes on, with the profile's lock if nobody else has it.
LEMMA MoveLocks ==
  ASSUME TypeOK, LockInv, NEW s \in Slots, NEW r, r \in Request, Shape(r),
         r.user => UserFree \/ work[s].user, Busy(s),
         work' = [work EXCEPT ![s] = r]
  PROVE  /\ work' \in [Slots -> Request \cup {Null}] /\ LockInv'
         /\ work'[s] = r /\ r # Null
         /\ \A t \in Slots : t # s => work'[t] = work[t]
<1>1. r # Null
  BY ProfilesAssumption
<1>2. work'[s] = r /\ \A t \in Slots : t # s => work'[t] = work[t]
  BY DEF TypeOK
<1>3. LockInv'
  BY <1>1, <1>2 DEF LockInv, Busy, UserFree
<1> QED
  BY <1>1, <1>2, <1>3 DEF TypeOK

LEMMA WithIs ==
  ASSUME NEW u \in Profile \cup {Null}, NEW p \in Given
  PROVE  /\ With(u, p) \in Profile /\ With(u, p) # Null
         /\ With(u, p).data = Patched(IF u = Null THEN Null ELSE u.data, p)
         /\ With(u, p).photo = IF u = Null THEN Null ELSE u.photo
<1>1. u # Null => u.data \in Told
  BY DEF Profile
<1>2. Patched(IF u = Null THEN Null ELSE u.data, p) \in Told
  BY <1>1, PatchedIs
<1> QED
  BY <1>2, ProfilesAssumption DEF With, Profile

-----------------------------------------------------------------------------
(* What is not about files                                                 *)

Fileless(s) == Busy(s) => work[s].file = Null /\ work[s].prev = Null

\* A step of s that leaves the files alone.
Aside(s) ==
  /\ Fileless(s) /\ Fileless(s)' /\ \A t \in Slots : t # s => work'[t] = work[t]
  /\ Photo' = Photo /\ UNCHANGED <<agenda, stored, used, left>>

\* Where only the requests change, the rest keeps its type.
LEMMA RestTyped ==
  ASSUME TypeOK, work' \in [Slots -> Request \cup {Null}],
         profile' \in Profile \cup {Null}, rows' \in [Conclaves -> Told \cup {Null}],
         step' \subseteq Conclaves \X Fields, UNCHANGED <<login, agenda, stored, used, left>>
  PROVE  TypeOK'
  BY DEF TypeOK

LEMMA AddIs ==
  ASSUME TypeOK, NEW s \in Slots, NEW c \in Conclaves, NEW d \in Patches, Add(s, c, d)
  PROVE  \E e \in Told : Begins(s, [Asks("add", "add") EXCEPT !.conclave = c, !.data = e])
<1> DEFINE typed == Only(d, Filled(d))
<1>1. typed \in Given
  BY OnlyIs, ProfilesAssumption
<1> HIDE DEF typed
<1>2. Patched(Null, typed) \in Told
  BY <1>1, PatchedIs
<1>3. profile # Null => Patched(profile.data, typed) \in Told
  BY <1>1, PatchedIs DEF TypeOK, Profile
<1> QED
  BY <1>2, <1>3 DEF Add, typed

LEMMA Starts ==
  ASSUME TypeOK, LockInv, NEW s \in Slots,
         \/ \E d \in Patches : Save(s, d)
         \/ \E c \in Conclaves, d \in Patches : Register(s, c, d) \/ Edit(s, c, d) \/ Add(s, c, d)
         \/ RemovePhoto(s)
  PROVE  TypeOK' /\ LockInv' /\ Aside(s)
<1> SUFFICES ASSUME NEW r, Newcomer(r), Begins(s, r), r.file = Null, r.prev = Null,
                    profile' \in Profile \cup {Null}, Photo' = Photo,
                    UNCHANGED <<login, rows, agenda, stored, used, left, step>>
             PROVE  TypeOK' /\ LockInv' /\ Aside(s)
  <2>1. CASE \E d \in Patches : Save(s, d)
    BY <2>1, AsksSave, ProfilesAssumption DEF Save, TypeOK, Photo
  <2>2. CASE \E c \in Conclaves, d \in Patches : Register(s, c, d)
    <3>1. PICK c \in Conclaves, d \in Patches : Register(s, c, d)
      BY <2>2
    <3>2. Patched(Null, d) \in Given
      BY PatchedIs, ToldIsGiven, ProfilesAssumption
    <3> QED
      BY <3>1, <3>2, AsksRegister DEF Register, TypeOK, Photo
  <2>3. CASE \E c \in Conclaves, d \in Patches : Edit(s, c, d)
    BY <2>3, AsksEdit, ProfilesAssumption DEF Edit, TypeOK, Photo
  <2>4. ASSUME NEW c \in Conclaves, NEW d \in Patches, Add(s, c, d)
        PROVE  TypeOK' /\ LockInv' /\ Aside(s)
    <3>1. PICK e \in Told : Begins(s, [Asks("add", "add") EXCEPT !.conclave = c, !.data = e])
      BY <2>4, AddIs
    <3>2a. Only(d, Filled(d)) \in Given
      BY OnlyIs, ProfilesAssumption
    <3>a. /\ With(Null, Only(d, Filled(d))) \in Profile /\ With(Null, Only(d, Filled(d))) # Null
          /\ With(Null, Only(d, Filled(d))).photo = Null
      BY <3>2a, WithIs
    <3>b. profile' = profile \/ (profile = Null /\ profile' = With(Null, Only(d, Filled(d))))
      BY <2>4 DEF Add
    <3>2. profile' \in Profile \cup {Null} /\ Photo' = Photo
      BY <3>a, <3>b DEF TypeOK, Photo
    <3> QED
      BY <2>4, <3>1, <3>2, AsksAdd DEF Add
  <2>5. CASE RemovePhoto(s)
    BY <2>5, AsksNophoto DEF RemovePhoto, TypeOK, Photo
  <2> QED
    BY <2>1, <2>2, <2>3, <2>4, <2>5
<1>1. /\ work' \in [Slots -> Request \cup {Null}] /\ LockInv'
      /\ work[s] = Null /\ work'[s] = r /\ r # Null
      /\ \A t \in Slots : t # s => work'[t] = work[t]
  BY BeginLocks
<1>2. TypeOK'
  BY <1>1, RestTyped DEF TypeOK
<1> QED
  BY <1>1, <1>2 DEF Aside, Fileless, Busy

\* What a move keeps.
Like(r, q) == r \in Request /\ r.kind = q.kind /\ r.data = q.data /\ r.conclave = q.conclave
              /\ r.file = q.file /\ r.prev = q.prev

LEMMA Moves ==
  ASSUME TypeOK, LockInv, NEW s \in Slots,
         LockProfile(s) \/ InsertProfile(s) \/ StartRows(s) \/ (\E c \in Conclaves : NextRow(s, c)) \/ LockRow(s)
  PROVE  /\ UNCHANGED <<profile, rows, step>>
         /\ Ends(s) \/ \E r : /\ work' = [work EXCEPT ![s] = r] /\ Like(r, work[s]) /\ Shape(r)
                              /\ r.user => UserFree \/ work[s].user
<1> USE DEF In, Busy
<1> DEFINE Goal == Ends(s) \/ \E r : /\ work' = [work EXCEPT ![s] = r] /\ Like(r, work[s]) /\ Shape(r)
                                     /\ r.user => UserFree \/ work[s].user
<1>1. CASE LockProfile(s)
  <2>1. work[s] \in Request /\ Shape(work[s]) /\ work[s].stage = "user" /\ work[s].kind = "save"
    BY <1>1 DEF LockProfile, TypeOK, LockInv
  <2>2. CASE Goes(s, "insert")
    <3> DEFINE r == [work[s] EXCEPT !.stage = "insert"]
    <3>1. work' = [work EXCEPT ![s] = r]
      BY <2>2 DEF Goes
    <3>2. r \in Request /\ r.kind = "save" /\ r.stage = "insert" /\ r.data = work[s].data /\ r.conclave = work[s].conclave
          /\ r.file = work[s].file /\ r.prev = work[s].prev /\ r.user = work[s].user /\ r.held = work[s].held
      BY <2>1 DEF Request, Stages
    <3> HIDE DEF r
    <3>3. Like(r, work[s]) /\ Shape(r) /\ ~r.user
      BY <2>1, <3>2 DEF Like, Shape
    <3> QED
      BY <1>1, <3>1, <3>3 DEF LockProfile
  <2>3. CASE UserFree /\ work' = [work EXCEPT ![s].user = TRUE, ![s].stage = "start"]
    <3> DEFINE r == [work[s] EXCEPT !.user = TRUE, !.stage = "start"]
    <3>1. work' = [work EXCEPT ![s] = r]
      BY <2>3
    <3>2. r \in Request /\ r.kind = "save" /\ r.stage = "start" /\ r.data = work[s].data /\ r.conclave = work[s].conclave
          /\ r.file = work[s].file /\ r.prev = work[s].prev /\ r.user = TRUE /\ r.held = work[s].held
      BY <2>1 DEF Request, Stages
    <3> HIDE DEF r
    <3>3. Like(r, work[s]) /\ Shape(r)
      BY <2>1, <3>2 DEF Like, Shape
    <3> QED
      BY <1>1, <2>3, <3>1, <3>3 DEF LockProfile
  <2> QED
    BY <1>1, <2>2, <2>3 DEF LockProfile
<1>2. CASE InsertProfile(s)
  <2>1. CASE UserFree /\ work' = [work EXCEPT ![s].user = TRUE, ![s].stage = "start"]
    <3> DEFINE r == [work[s] EXCEPT !.user = TRUE, !.stage = "start"]
    <3>1. work' = [work EXCEPT ![s] = r]
      BY <2>1
    <3>0. work[s] \in Request /\ Shape(work[s]) /\ work[s].stage = "insert"
      BY <1>2 DEF InsertProfile, TypeOK, LockInv
    <3>2. r \in Request /\ r.kind = work[s].kind /\ r.stage = "start" /\ r.data = work[s].data /\ r.conclave = work[s].conclave
          /\ r.file = work[s].file /\ r.prev = work[s].prev /\ r.user = TRUE /\ r.held = work[s].held
      BY <3>0 DEF Request, Stages
    <3>k. work[s].kind = "save" /\ work[s].held = {} /\ work[s].prev = Null /\ work[s].file = Null
      BY <3>0 DEF Shape, Request, Kinds
    <3> HIDE DEF r
    <3>3. Like(r, work[s]) /\ Shape(r)
      BY <3>0, <3>k, <3>2 DEF Like, Shape
    <3> QED
      BY <1>2, <2>1, <3>1, <3>3 DEF InsertProfile
  <2> QED
    BY <1>2, <2>1 DEF InsertProfile
<1>3. CASE StartRows(s)
  <2> DEFINE r == [work[s] EXCEPT !.stage = "rows", !.todo = {c \in Conclaves : rows[c] # Null /\ Copied(work[s].data) # {}}]
  <2>1. work' = [work EXCEPT ![s] = r]
    BY <1>3 DEF StartRows
  <2>2. work[s] \in Request /\ Shape(work[s]) /\ work[s].stage = "start"
    BY <1>3 DEF StartRows, TypeOK, LockInv
  <2>3. r \in Request /\ r.kind = work[s].kind /\ r.stage = "rows" /\ r.data = work[s].data /\ r.conclave = work[s].conclave
        /\ r.file = work[s].file /\ r.prev = work[s].prev /\ r.user = work[s].user /\ r.held = work[s].held
    BY <2>2 DEF Request, Stages
  <2>k. work[s].kind = "save" /\ work[s].held = {} /\ work[s].prev = Null /\ work[s].file = Null
    BY <2>2 DEF Shape, Request, Kinds
  <2> HIDE DEF r
  <2>4. Like(r, work[s]) /\ Shape(r) /\ (r.user => work[s].user)
    BY <2>2, <2>k, <2>3 DEF Like, Shape
  <2> QED
    BY <1>3, <2>1, <2>4 DEF StartRows
<1>4. ASSUME NEW c \in Conclaves, NextRow(s, c)
      PROVE  UNCHANGED <<profile, rows, step>> /\ Goal
  <2> DEFINE h == IF rows[c] = Null THEN work[s].held ELSE work[s].held \cup {c}
             r == [work[s] EXCEPT !.todo = work[s].todo \ {c}, !.held = h]
  <2>1. work' = [work EXCEPT ![s] = r]
    BY <1>4 DEF NextRow
  <2>2. work[s] \in Request /\ Shape(work[s]) /\ work[s].stage = "rows"
    BY <1>4 DEF NextRow, TypeOK, LockInv
  <2>3. r \in Request /\ r.kind = work[s].kind /\ r.stage = "rows" /\ r.data = work[s].data /\ r.conclave = work[s].conclave
        /\ r.file = work[s].file /\ r.prev = work[s].prev /\ r.user = work[s].user
    BY <2>2 DEF Request, Stages
  <2> HIDE DEF r
  <2>4. Like(r, work[s]) /\ Shape(r) /\ (r.user => work[s].user)
    BY <2>2, <2>3 DEF Like, Shape
  <2> QED
    BY <1>4, <2>1, <2>4 DEF NextRow
<1>5. CASE LockRow(s)
  <2>1. CASE Ends(s)
    BY <1>5, <2>1 DEF LockRow
  <2>2. CASE work' = [work EXCEPT ![s].held = {work[s].conclave}, ![s].stage = "user"]
    <3> DEFINE r == [work[s] EXCEPT !.held = {work[s].conclave}, !.stage = "user"]
    <3>1. work' = [work EXCEPT ![s] = r]
      BY <2>2
    <3>0. work[s] \in Request /\ Shape(work[s]) /\ work[s].stage = "row"
      BY <1>5 DEF LockRow, TypeOK, LockInv
    <3>k. work[s].kind = "edit" /\ work[s].user = FALSE /\ work[s].conclave \in Conclaves
      BY <3>0 DEF Shape, Request, Kinds
    <3>2. r \in Request /\ r.kind = work[s].kind /\ r.stage = "user" /\ r.data = work[s].data /\ r.conclave = work[s].conclave
          /\ r.file = work[s].file /\ r.prev = work[s].prev /\ r.user = work[s].user
      BY <3>0, <3>k DEF Request, Stages
    <3> HIDE DEF r
    <3>3. Like(r, work[s]) /\ Shape(r) /\ ~r.user
      BY <3>0, <3>k, <3>2 DEF Like, Shape
    <3> QED
      BY <1>5, <3>1, <3>3 DEF LockRow
  <2> QED
    BY <1>5, <2>1, <2>2 DEF LockRow
<1> QED
  BY <1>1, <1>2, <1>3, <1>4, <1>5

Works(s) ==
  \/ \E d \in Patches : Save(s, d)
  \/ \E c \in Conclaves, d \in Patches : Register(s, c, d) \/ Edit(s, c, d) \/ Add(s, c, d)
  \/ RemovePhoto(s)
  \/ LockProfile(s) \/ InsertProfile(s) \/ StartRows(s) \/ (\E c \in Conclaves : NextRow(s, c)) \/ LockRow(s)
  \/ CommitSave(s) \/ CommitCopy(s) \/ AddRow(s)

LEMMA NoFile ==
  ASSUME TypeOK, LockInv, NEW s \in Slots, Busy(s),
         work[s].kind \in {"save", "register", "edit", "add"}
  PROVE  /\ work[s].file = Null /\ work[s].prev = Null /\ work[s].data \in Given
         /\ work[s].kind = "add" => work[s].data \in Told
  BY DEF LockInv, Shape, TypeOK

LEMMA WhoMoves ==
  ASSUME TypeOK, LockInv, NEW s \in Slots, Busy(s)
  PROVE  /\ work[s] \in Request /\ Shape(work[s])
         /\ work[s].stage \in {"insert", "start", "rows", "row", "add"} =>
              work[s].kind \in {"save", "edit", "add"}
         /\ work[s].stage \in {"start", "rows"} => work[s].kind = "save"
         /\ work[s].stage = "add" => work[s].kind = "add"
         /\ work[s].stage = "row" => work[s].kind = "edit"
  BY DEF TypeOK, LockInv, Shape, Busy, Request, Kinds

LEMMA WorksStep ==
  ASSUME TypeOK, LockInv, NEW s \in Slots, Works(s)
  PROVE  TypeOK' /\ LockInv' /\ Aside(s)
<1>1. CASE \/ \E d \in Patches : Save(s, d)
           \/ \E c \in Conclaves, d \in Patches : Register(s, c, d) \/ Edit(s, c, d) \/ Add(s, c, d)
           \/ RemovePhoto(s)
  BY <1>1, Starts
<1>2. CASE LockProfile(s) \/ InsertProfile(s) \/ StartRows(s) \/ (\E c \in Conclaves : NextRow(s, c)) \/ LockRow(s)
  <2>1. /\ UNCHANGED <<profile, rows, step>>
        /\ Ends(s) \/ \E r : /\ work' = [work EXCEPT ![s] = r] /\ Like(r, work[s]) /\ Shape(r)
                             /\ r.user => UserFree \/ work[s].user
    BY <1>2, Moves
  <2>2. /\ Busy(s) /\ UNCHANGED <<login, agenda, stored, used, left>>
        /\ work[s].stage \in {"insert", "start", "rows", "row", "add"} \/ work[s].kind = "save"
    BY <1>2 DEF LockProfile, InsertProfile, StartRows, NextRow, LockRow, In, Busy
  <2>3. work[s].file = Null /\ work[s].prev = Null
    BY <2>2, NoFile, WhoMoves
  <2>4. Photo' = Photo
    BY <2>1 DEF Photo
  <2>5. CASE Ends(s)
    <3>1. work' \in [Slots -> Request \cup {Null}] /\ LockInv' /\ work'[s] = Null
          /\ \A t \in Slots : t # s => work'[t] = work[t]
      BY <2>5, EndLocks
    <3>2. TypeOK'
      BY <2>1, <2>2, <3>1, RestTyped DEF TypeOK
    <3> QED
      BY <2>2, <2>3, <2>4, <3>1, <3>2 DEF Aside, Fileless, Busy
  <2>6. ASSUME NEW r, work' = [work EXCEPT ![s] = r], Like(r, work[s]), Shape(r),
               r.user => UserFree \/ work[s].user
        PROVE  TypeOK' /\ LockInv' /\ Aside(s)
    <3>1. /\ work' \in [Slots -> Request \cup {Null}] /\ LockInv' /\ work'[s] = r
          /\ \A t \in Slots : t # s => work'[t] = work[t]
      BY <2>2, <2>6, MoveLocks DEF Like
    <3>2. TypeOK'
      BY <2>1, <2>2, <3>1, RestTyped DEF TypeOK
    <3>3. work'[s].file = Null /\ work'[s].prev = Null
      BY <2>3, <2>6, <3>1 DEF Like
    <3> QED
      BY <2>2, <2>3, <2>4, <3>1, <3>2, <3>3 DEF Aside, Fileless, Busy
  <2> QED
    BY <2>1, <2>5, <2>6
<1>3. CASE CommitSave(s) \/ CommitCopy(s) \/ AddRow(s)
  <2>1. /\ Busy(s) /\ Ends(s) /\ UNCHANGED <<login, agenda, stored, used, left>>
        /\ work[s].kind \in {"register", "edit"} \/ work[s].stage \in {"rows", "add"}
    BY <1>3 DEF CommitSave, CommitCopy, AddRow, In, Busy
  <2>2. /\ work[s].file = Null /\ work[s].prev = Null /\ work[s].data \in Given
        /\ work[s].kind = "add" => work[s].data \in Told
        /\ work[s] \in Request /\ (work[s].stage = "add" => work[s].kind = "add")
    BY <2>1, NoFile, WhoMoves
  <2>p. \A F : Only(work[s].data, F) \in Given
    BY <2>2, OnlyIs
  <2>3. /\ profile' \in Profile \cup {Null} /\ Photo' = Photo
    <3>1. \A p \in Given : /\ With(profile, p) \in Profile /\ With(profile, p) # Null
                           /\ With(profile, p).photo = Photo
      BY WithIs DEF TypeOK, Photo
    <3>2. profile' = profile \/ \E p \in Given : profile' = With(profile, p)
      BY <1>3, <2>2, <2>p DEF CommitSave, CommitCopy, AddRow
    <3> QED
      BY <3>1, <3>2 DEF TypeOK, Photo
  <2>4. rows' \in [Conclaves -> Told \cup {Null}] /\ step' \subseteq Conclaves \X Fields
    <3>0. /\ Copied(work[s].data) \subseteq Fields /\ Filled(work[s].data) \subseteq Fields
          /\ \A c \in Conclaves, p \in Given : Patched(rows[c], p) \in Told
      BY <2>2, PatchedIs, CopiedNamed DEF TypeOK
    <3>1. CASE CommitSave(s)
      <4>1. work[s].held \subseteq Conclaves
        BY <2>2 DEF Request
      <4>2. Only(work[s].data, Copied(work[s].data)) \in Given
        BY <2>p
      <4> QED
        BY <3>0, <3>1, <4>1, <4>2 DEF CommitSave, TypeOK
    <3>2. CASE CommitCopy(s)
      <4>1. work[s].conclave \in Conclaves
        BY <3>2, <2>1, WhoMoves DEF CommitCopy, Shape
      <4>2. Shared(work[s]) \subseteq Fields
        BY <3>0 DEF Shared
      <4> QED
        BY <2>2, <3>0, <3>2, <4>1, <4>2 DEF CommitCopy, TypeOK
    <3>3. CASE AddRow(s)
      BY <3>3, <2>2 DEF AddRow, In, TypeOK
    <3> QED
      BY <1>3, <3>1, <3>2, <3>3
  <2>5. /\ work' \in [Slots -> Request \cup {Null}] /\ LockInv' /\ work'[s] = Null
        /\ \A t \in Slots : t # s => work'[t] = work[t]
    BY <2>1, EndLocks
  <2>6. TypeOK'
    BY <2>1, <2>3, <2>4, <2>5, RestTyped
  <2> QED
    BY <2>1, <2>2, <2>3, <2>5, <2>6 DEF Aside, Fileless, Busy
<1> QED
  BY <1>1, <1>2, <1>3 DEF Works

\* A step of a request that leaves the files alone keeps what is true of them.
LEMMA AsideFiles ==
  ASSUME TypeOK, LockInv, UsedInv, FileInv, NEW s \in Slots, Aside(s)
  PROVE  UsedInv' /\ FileInv'
<1>1. \A t \in Slots : Waiting(t)' <=> Waiting(t)
  BY DEF Waiting, Aside, Fileless, Busy
<1>2. \A t \in Slots : (Busy(t) /\ work[t].prev # Null)' <=> (Busy(t) /\ work[t].prev # Null)
  BY DEF Aside, Fileless, Busy
<1>3. \A t \in Slots : t # s => work'[t] = work[t]
  BY DEF Aside
<1>4. ~Waiting(s) /\ (Busy(s) => work[s].prev = Null) /\ (Busy(s)' => work'[s].prev = Null /\ work'[s].file = Null)
  BY DEF Aside, Fileless, Waiting, Busy
<1>5. Photo' = Photo /\ agenda' = agenda /\ stored' = stored /\ used' = used /\ left' = left
  BY DEF Aside
<1>6. UsedInv'
  BY <1>3, <1>4, <1>5 DEF UsedInv, Busy
<1>7. RowFiles'
  BY <1>5 DEF FileInv, RowFiles
<1>8. NewFiles'
  BY <1>3, <1>4, <1>5 DEF FileInv, NewFiles, Busy, Waiting
<1>9. OldFiles'
  BY <1>2, <1>3, <1>4, <1>5 DEF FileInv, OldFiles, Busy
<1>10. AllFiles'
  <2>1. \A t \in Slots : Waiting(t) \/ Doomed(t) => t # s
    BY <1>4 DEF Doomed, LockInv, Shape
  <2> QED
    <3> SUFFICES ASSUME NEW f \in stored, f \notin {Photo, agenda}, f \notin left
                 PROVE  (\E t \in Slots : (Waiting(t) /\ work[t].file = f) \/ (Doomed(t) /\ work[t].prev = f))'
      BY <1>5 DEF AllFiles
    <3>1. PICK t \in Slots : (Waiting(t) /\ work[t].file = f) \/ (Doomed(t) /\ work[t].prev = f)
      BY DEF FileInv, AllFiles
    <3>2. work'[t] = work[t]
      BY <1>3, <2>1, <3>1
    <3> QED
      BY <3>1, <3>2 DEF Waiting, Doomed, Busy
<1> QED
  BY <1>6, <1>7, <1>8, <1>9, <1>10 DEF FileInv

-----------------------------------------------------------------------------
(* The copies                                                              *)

\* A request that is not at the registrations, beside the others as they were.
LEMMA CopyKept ==
  ASSUME CopyInv, NEW s \in Slots, \A t \in Slots : t # s => work'[t] = work[t],
         Busy(s)' => work'[s].stage # "rows",
         profile' = profile, rows' = rows, step' = step
  PROVE  CopyInv'
  BY DEF CopyInv, Busy

LEMMA StartsCopies ==
  ASSUME TypeOK, LockInv, CopyInv, NEW s \in Slots,
         \/ \E d \in Patches : Save(s, d)
         \/ \E c \in Conclaves, d \in Patches : Register(s, c, d) \/ Edit(s, c, d) \/ Add(s, c, d)
         \/ RemovePhoto(s)
  PROVE  CopyInv'
<1> SUFFICES ASSUME NEW r, Newcomer(r), Begins(s, r), rows' = rows, step' = step,
                    profile' = profile \/ profile = Null
             PROVE  CopyInv'
  <2>1. CASE \E d \in Patches : Save(s, d)
    BY <2>1, AsksSave, ProfilesAssumption DEF Save
  <2>2. CASE \E c \in Conclaves, d \in Patches : Register(s, c, d)
    <3>1. PICK c \in Conclaves, d \in Patches : Register(s, c, d)
      BY <2>2
    <3>2. Patched(Null, d) \in Given
      BY PatchedIs, ToldIsGiven, ProfilesAssumption
    <3> QED
      BY <3>1, <3>2, AsksRegister DEF Register
  <2>3. CASE \E c \in Conclaves, d \in Patches : Edit(s, c, d)
    BY <2>3, AsksEdit, ProfilesAssumption DEF Edit
  <2>4. ASSUME NEW c \in Conclaves, NEW d \in Patches, Add(s, c, d)
        PROVE  CopyInv'
    <3>1. PICK e \in Told : Begins(s, [Asks("add", "add") EXCEPT !.conclave = c, !.data = e])
      BY <2>4, AddIs
    <3> QED
      BY <2>4, <3>1, AsksAdd DEF Add
  <2>5. CASE RemovePhoto(s)
    BY <2>5, AsksNophoto DEF RemovePhoto
  <2> QED
    BY <2>1, <2>2, <2>3, <2>4, <2>5
<1>1. work[s] = Null /\ work'[s] = r /\ \A t \in Slots : t # s => work'[t] = work[t]
  BY BeginLocks
<1>2. CASE profile' = profile
  BY <1>1, <1>2, CopyKept DEF Newcomer
<1>3. CASE profile = Null
  BY <1>1, <1>3 DEF CopyInv, Newcomer, Busy
<1> QED
  BY <1>2, <1>3

LEMMA MovesCopies ==
  ASSUME TypeOK, LockInv, CopyInv, NEW s \in Slots,
         LockProfile(s) \/ InsertProfile(s) \/ StartRows(s) \/ (\E c \in Conclaves : NextRow(s, c)) \/ LockRow(s)
  PROVE  CopyInv'
<1>0. /\ UNCHANGED <<profile, rows, step>>
      /\ \A t \in Slots : t # s => work'[t] = work[t]
  BY Moves, WorksStep DEF Works, Aside
<1>1. CASE StartRows(s)
  <2>1. /\ work'[s].todo = {c \in Conclaves : rows[c] # Null /\ Copied(work[s].data) # {}}
        /\ work'[s].data = work[s].data
    BY <1>1 DEF StartRows, In, TypeOK, Request
  <2> QED
    BY <1>0, <2>1 DEF CopyInv, Busy
<1>2. ASSUME NEW c \in Conclaves, NextRow(s, c)
      PROVE  CopyInv'
  <2>1. /\ work'[s].todo = work[s].todo \ {c} /\ work[s].stage = "rows" /\ Busy(s)
        /\ work'[s].data = work[s].data
        /\ work'[s].held = IF rows[c] = Null THEN work[s].held ELSE work[s].held \cup {c}
    BY <1>2 DEF NextRow, In, TypeOK, Request, Busy
  <2>2. \A t \in Slots : t # s => work'[t] = work[t]
    BY <1>0
  <2>3. Copied(work'[s].data) # {} =>
          \A e \in Conclaves, f \in Fields : <<e, f>> \in step => e \in work'[s].todo \cup work'[s].held
    BY <2>1 DEF CopyInv
  <2> QED
    BY <1>0, <2>2, <2>3 DEF CopyInv, Busy
<1>3. CASE LockProfile(s) \/ InsertProfile(s) \/ LockRow(s)
  <2>1. work'[s] # Null => work'[s].stage # "rows"
    <3>1. work[s] \in Request /\ work[s] # Null
      BY <1>3 DEF LockProfile, InsertProfile, LockRow, In, TypeOK
    <3> QED
      BY <1>3, <3>1 DEF LockProfile, InsertProfile, LockRow, TypeOK, Request, Ends, Goes
  <2> QED
    BY <1>0, <2>1, CopyKept DEF Busy
<1> QED
  BY <1>1, <1>2, <1>3

LEMMA NobodyAtRows ==
  ASSUME TypeOK, LockInv, UserFree, NEW t \in Slots, Busy(t)
  PROVE  work[t].stage # "rows"
  BY DEF UserFree, LockInv, Shape, Busy

LEMMA EndsCopies ==
  ASSUME TypeOK, LockInv, CopyInv, NEW s \in Slots, CommitSave(s) \/ CommitCopy(s) \/ AddRow(s)
  PROVE  CopyInv'
<1>0. /\ Busy(s) /\ work'[s] = Null /\ \A t \in Slots : t # s => work'[t] = work[t]
  BY EndLocks DEF CommitSave, CommitCopy, AddRow, In, Busy
<1>d. CASE CommitSave(s)
  <2> DEFINE p == work[s].data
             C == Copied(p)
             q == Only(p, C)
  <2>1. work[s].kind = "save" /\ work[s].stage = "rows" /\ work[s].todo = {} /\ work[s].user
    BY <1>d, <1>0, WhoMoves DEF CommitSave, In, Shape
  <2>2. p \in Given /\ work[s].held \subseteq Conclaves
    BY <1>0, <2>1, NoFile, WhoMoves DEF Request
  <2>3. q \in Given /\ C \subseteq Named(p) /\ \A f \in Fields : q[f] = IF f \in C THEN p[f] ELSE Null
    BY <2>2, OnlyIs, CopiedNamed
  <2>4. /\ profile' # Null
        /\ \A f \in Fields : profile'.data[f] = IF p[f] # Null THEN p[f]
                                                ELSE IF profile = Null THEN Empty ELSE profile.data[f]
    <3>1. profile # Null => profile.data \in Told
      BY DEF TypeOK, Profile
    <3>2. /\ With(profile, p) # Null
          /\ With(profile, p).data = Patched(IF profile = Null THEN Null ELSE profile.data, p)
      BY <2>2, WithIs DEF TypeOK
    <3>3. profile' = With(profile, p)
      BY <1>d DEF CommitSave
    <3>4. profile # Null => profile.data # Null
      BY <3>1, ProfilesAssumption
    <3> HIDE DEF p
    <3>5. CASE profile = Null
      <4>1. profile'.data = Patched(Null, p)
        BY <3>2, <3>3, <3>5
      <4>2. \A f \in Fields : Patched(Null, p)[f] = IF p[f] # Null THEN p[f] ELSE Empty
        BY <2>2, PatchedIs
      <4> QED
        BY <3>2, <3>3, <3>5, <4>1, <4>2
    <3>6. CASE profile # Null
      <4>1. profile'.data = Patched(profile.data, p)
        BY <3>2, <3>3, <3>6
      <4> QED
        BY <2>2, <3>1, <3>2, <3>3, <3>4, <3>6, <4>1, PatchedIs
    <3> QED
      BY <3>5, <3>6
  <2>5. \A c \in Conclaves :
          /\ c \in work[s].held =>
               rows'[c] # Null /\ \A f \in Fields : rows'[c][f] = IF f \in C THEN p[f]
                                                 ELSE IF rows[c] = Null THEN Empty ELSE rows[c][f]
          /\ c \notin work[s].held => rows'[c] = rows[c]
    <3>1. \A c \in Conclaves : rows'[c] = IF c \in work[s].held THEN Patched(rows[c], q) ELSE rows[c]
      BY <1>d DEF CommitSave
    <3>2. \A f \in C : p[f] # Null
      BY <2>3 DEF Named
    <3> HIDE DEF p, C, q
    <3> QED
      BY <2>3, <3>1, <3>2, PatchedIs DEF TypeOK
  <2>6. ASSUME NEW c \in Conclaves, NEW f \in Fields, <<c, f>> \in step'
        PROVE  profile' # Null /\ rows'[c] # Null /\ rows'[c][f] = profile'.data[f]
    <3>1. (<<c, f>> \in step /\ (f \in C \/ p[f] = Null)) \/ (c \in work[s].held /\ f \in C)
      BY <1>d, <2>6 DEF CommitSave, Named
    <3>2. \A g \in C : p[g] # Null
      BY <2>3 DEF Named
    <3>3. CASE c \in work[s].held /\ f \in C
      BY <2>4, <2>5, <3>2, <3>3
    <3>4. CASE <<c, f>> \in step /\ f \in C
      <4>1. c \in work[s].held
        BY <1>0, <2>1, <3>4 DEF CopyInv
      <4> QED
        BY <2>4, <2>5, <3>2, <3>4, <4>1
    <3>5. CASE <<c, f>> \in step /\ p[f] = Null
      <4>1. profile # Null /\ rows[c] # Null /\ rows[c][f] = profile.data[f] /\ f \notin C
        BY <3>2, <3>5 DEF CopyInv
      <4> QED
        BY <2>4, <2>5, <3>5, <4>1
    <3> QED
      BY <3>1, <3>3, <3>4, <3>5
  <2>7. \A t \in Slots : t # s => ~(Busy(t) /\ work[t].stage = "rows")
    BY <1>0, <2>1 DEF LockInv, Shape, Busy
  <2> QED
    BY <1>0, <2>6, <2>7 DEF CopyInv, Busy
<1>e. CASE CommitCopy(s)
  <2> DEFINE p == work[s].data
             k == work[s].conclave
             F == Shared(work[s])
  <2>1. k \in Conclaves /\ p \in Given
    BY <1>e, <1>0, NoFile, WhoMoves DEF CommitCopy, Shape
  <2>2. /\ rows'[k] # Null
        /\ \A f \in Fields : rows'[k][f] = IF p[f] # Null THEN p[f]
                                            ELSE IF rows[k] = Null THEN Empty ELSE rows[k][f]
        /\ \A c \in Conclaves : c # k => rows'[c] = rows[c]
    <3>1. rows' = [rows EXCEPT ![k] = Patched(rows[k], p)]
      BY <1>e DEF CommitCopy
    <3> HIDE DEF p, k
    <3> QED
      BY <2>1, <3>1, PatchedIs DEF TypeOK
  <2>3. CASE profile' = profile /\ step' = step \ ({k} \X Named(p))
    <3>1. ASSUME NEW c \in Conclaves, NEW f \in Fields, <<c, f>> \in step'
          PROVE  profile' # Null /\ rows'[c] # Null /\ rows'[c][f] = profile'.data[f]
      <4>1. <<c, f>> \in step /\ (c = k => p[f] = Null)
        BY <2>3, <3>1 DEF Named
      <4>2. profile # Null /\ rows[c] # Null /\ rows[c][f] = profile.data[f]
        BY <4>1 DEF CopyInv
      <4> QED
        BY <2>2, <2>3, <4>1, <4>2
    <3> QED
      BY <1>0, <2>3, <3>1 DEF CopyInv, Busy
  <2>4. CASE /\ profile # Null /\ UserFree /\ profile' = With(profile, Only(p, F))
             /\ step' = (step \ ((Conclaves \X F) \cup ({k} \X Named(p)))) \cup ({k} \X F)
    <3>1. Only(p, F) \in Given /\ F \subseteq Named(p)
          /\ \A f \in Fields : Only(p, F)[f] = IF f \in F THEN p[f] ELSE Null
      BY <2>1, OnlyIs, CopiedNamed DEF Shared
    <3>2. \A f \in F : p[f] # Null
      BY <3>1 DEF Named
    <3>3. /\ profile' # Null
          /\ \A f \in Fields : profile'.data[f] = IF f \in F THEN p[f] ELSE profile.data[f]
      <4>1. profile.data \in Told /\ profile.data # Null /\ profile \in Profile
        BY <2>4, ProfilesAssumption DEF TypeOK, Profile
      <4>2. profile' # Null /\ profile'.data = Patched(profile.data, Only(p, F))
        BY <2>4, <3>1, <4>1, WithIs
      <4> HIDE DEF p, F
      <4> QED
        BY <3>1, <3>2, <4>1, <4>2, PatchedIs
    <3>4. ASSUME NEW c \in Conclaves, NEW f \in Fields, <<c, f>> \in step'
          PROVE  rows'[c] # Null /\ rows'[c][f] = profile'.data[f]
      <4>1. (c = k /\ f \in F) \/ (<<c, f>> \in step /\ f \notin F /\ (c = k => p[f] = Null))
        BY <2>4, <3>4 DEF Named
      <4>2. CASE c = k /\ f \in F
        BY <2>2, <3>2, <3>3, <4>2
      <4>3. CASE <<c, f>> \in step /\ f \notin F /\ (c = k => p[f] = Null)
        <5>1. rows[c] # Null /\ rows[c][f] = profile.data[f]
          BY <4>3 DEF CopyInv
        <5> QED
          BY <2>2, <3>3, <4>3, <5>1
      <4> QED
        BY <4>1, <4>2, <4>3
    <3>5. \A t \in Slots : ~(Busy(t) /\ work[t].stage = "rows")
      BY <2>4, NobodyAtRows
    <3> QED
      BY <1>0, <3>3, <3>4, <3>5 DEF CopyInv, Busy
  <2> QED
    BY <1>e, <2>3, <2>4 DEF CommitCopy
<1>f. CASE AddRow(s)
  <2>1. \A c \in Conclaves, f \in Fields : <<c, f>> \in step => rows'[c] = rows[c]
    BY <1>f DEF AddRow, CopyInv, TypeOK
  <2> QED
    BY <1>f, <1>0, <2>1 DEF AddRow, CopyInv, Busy
<1> QED
  BY <1>d, <1>e, <1>f

LEMMA RemoveStep ==
  ASSUME TypeOK, CopyInv, NEW c \in Conclaves, Remove(c)
  PROVE  CopyInv'
<1>1. \A d \in Conclaves, f \in Fields : <<d, f>> \in step' => <<d, f>> \in step /\ rows'[d] = rows[d]
  BY DEF Remove, TypeOK
<1> QED
  BY <1>1 DEF Remove, CopyInv, Busy

LEMMA DeleteCopies ==
  ASSUME TypeOK, CopyInv, DeleteAccount
  PROVE  CopyInv'
  BY DEF DeleteAccount, CopyInv, Busy

-----------------------------------------------------------------------------
(* What is about files                                                     *)

\* A file that is uploaded is new to everyone.
LEMMA UploadStep ==
  ASSUME Inv, CopyInv, FileInv, NEW s \in Slots, NEW f \in Files, UploadPhoto(s, f) \/ Agenda(s, f)
  PROVE  Inv' /\ CopyInv' /\ FileInv'
<1>1. PICK r : /\ Newcomer(r) /\ Begins(s, r) /\ r.file = f /\ r.prev \in {Null, agenda}
  <2>1. CASE UploadPhoto(s, f)
    BY <2>1, AsksPhoto DEF UploadPhoto
  <2>2. CASE Agenda(s, f)
    <3> DEFINE r == [Asks("agenda", "set") EXCEPT !.file = f, !.prev = agenda]
    <3>1. Newcomer(r) /\ r.file = f /\ r.prev = agenda
      BY AsksAgenda DEF Inv, TypeOK
    <3>2. Begins(s, r)
      BY <2>2 DEF Agenda
    <3> QED
      BY <3>1, <3>2
  <2> QED
    BY <2>1, <2>2
<1>2. /\ work' \in [Slots -> Request \cup {Null}] /\ LockInv'
      /\ work[s] = Null /\ work'[s] = r /\ r # Null
      /\ \A t \in Slots : t # s => work'[t] = work[t]
  BY <1>1, BeginLocks DEF Inv
<1>3. /\ f \notin used /\ used' = used \cup {f} /\ stored' = stored \cup {f}
      /\ UNCHANGED <<profile, login, rows, agenda, left, step>>
  BY ProfilesAssumption DEF UploadPhoto, Agenda, Uploads
<1>4. TypeOK'
  BY <1>2, <1>3 DEF Inv, TypeOK
<1>5. Photo' = Photo
  BY <1>3 DEF Photo
<1>6. UsedInv'
  BY <1>1, <1>2, <1>3, <1>5 DEF Inv, UsedInv, Busy
<1>7. CopyInv'
  BY <1>1, <1>2, <1>3, CopyKept DEF Newcomer
<1>8. RowFiles'
  BY <1>3, <1>5 DEF FileInv, RowFiles
<1>n. Photo # f /\ agenda # f /\ f # Null
  BY <1>3, ProfilesAssumption DEF Inv, UsedInv
<1>9. NewFiles'
  <2> SUFFICES ASSUME NEW t \in Slots, Waiting(t)'
               PROVE  (/\ work[t].file \in stored /\ work[t].file # Photo /\ work[t].file # agenda
                       /\ \A u \in Slots : /\ Busy(u) => work[u].prev # work[t].file
                                           /\ Waiting(u) /\ work[u].file = work[t].file => u = t)'
    BY DEF NewFiles
  <2>1. CASE t = s
    <3>1. \A u \in Slots : u # s /\ Busy(u) => work[u].prev # f /\ work[u].file # f
      BY <1>3, <1>n DEF Inv, UsedInv
    <3> QED
      BY <1>1, <1>2, <1>3, <1>5, <1>n, <2>1, <3>1 DEF Waiting, Busy
  <2>2. CASE t # s
    <3>1. Waiting(t) /\ work'[t] = work[t]
      BY <1>2, <2>2 DEF Waiting, Busy
    <3>2. work[t].file # f
      BY <1>3, <3>1 DEF Inv, UsedInv, Waiting
    <3> QED
      BY <1>1, <1>2, <1>3, <1>5, <1>n, <2>2, <3>1, <3>2 DEF FileInv, NewFiles, Waiting, Busy
  <2> QED
    BY <2>1, <2>2
<1>10. OldFiles'
  BY <1>1, <1>2, <1>3, <1>5 DEF FileInv, OldFiles, RowFiles, Busy, Newcomer, Shape
<1>11. AllFiles'
  <2>1. Waiting(s)' /\ work'[s].file = f
    BY <1>1, <1>2, <1>n DEF Waiting, Busy, Newcomer, Shape, Request, Kinds
  <2> SUFFICES ASSUME NEW g \in stored, g \notin {Photo, agenda}, g \notin left
               PROVE  (\E t \in Slots : (Waiting(t) /\ work[t].file = g) \/ (Doomed(t) /\ work[t].prev = g))'
    BY <1>3, <1>5, <2>1 DEF AllFiles
  <2>2. PICK t \in Slots : (Waiting(t) /\ work[t].file = g) \/ (Doomed(t) /\ work[t].prev = g)
    BY DEF FileInv, AllFiles
  <2>3. work'[t] = work[t]
    BY <1>2, <2>2 DEF Waiting, Doomed, Busy
  <2> QED
    BY <2>2, <2>3 DEF Waiting, Doomed, Busy
<1> QED
  BY <1>2, <1>4, <1>6, <1>7, <1>8, <1>9, <1>10, <1>11 DEF Inv, FileInv

\* No file is uploaded where the agenda is to be taken away.
LEMMA ClearStep ==
  ASSUME Inv, CopyInv, FileInv, NEW s \in Slots, Agenda(s, Null)
  PROVE  Inv' /\ CopyInv' /\ FileInv'
<1>1. PICK r : /\ Newcomer(r) /\ Begins(s, r) /\ r.file = Null /\ r.prev = agenda
  BY AsksAgenda DEF Agenda, Inv, TypeOK
<1>2. /\ work' \in [Slots -> Request \cup {Null}] /\ LockInv'
      /\ work[s] = Null /\ work'[s] = r /\ r # Null
      /\ \A t \in Slots : t # s => work'[t] = work[t]
  BY <1>1, BeginLocks DEF Inv
<1>3. UNCHANGED <<profile, login, rows, agenda, stored, used, left, step>>
  BY ProfilesAssumption DEF Agenda, Uploads
<1>4. TypeOK'
  BY <1>2, <1>3 DEF Inv, TypeOK
<1>5. Photo' = Photo
  BY <1>3 DEF Photo
<1>6. UsedInv'
  BY <1>1, <1>2, <1>3, <1>5 DEF Inv, UsedInv, Busy
<1>7. CopyInv'
  BY <1>1, <1>2, <1>3, CopyKept DEF Newcomer
<1>8. RowFiles'
  BY <1>3, <1>5 DEF FileInv, RowFiles
<1>9. NewFiles'
  BY <1>1, <1>2, <1>3, <1>5 DEF FileInv, NewFiles, Waiting, Busy
<1>10. OldFiles'
  BY <1>1, <1>2, <1>3, <1>5 DEF FileInv, OldFiles, RowFiles, Busy, Newcomer, Shape
<1>11. AllFiles'
  <2> SUFFICES ASSUME NEW g \in stored, g \notin {Photo, agenda}, g \notin left
               PROVE  (\E t \in Slots : (Waiting(t) /\ work[t].file = g) \/ (Doomed(t) /\ work[t].prev = g))'
    BY <1>3, <1>5 DEF AllFiles
  <2>2. PICK t \in Slots : (Waiting(t) /\ work[t].file = g) \/ (Doomed(t) /\ work[t].prev = g)
    BY DEF FileInv, AllFiles
  <2>3. work'[t] = work[t]
    BY <1>2, <2>2 DEF Waiting, Doomed, Busy
  <2> QED
    BY <2>2, <2>3 DEF Waiting, Doomed, Busy
<1> QED
  BY <1>2, <1>4, <1>6, <1>7, <1>8, <1>9, <1>10, <1>11 DEF Inv, FileInv

\* A request is done, or goes on to delete what there was.
LEMMA UnlinksIs ==
  ASSUME TypeOK, LockInv, NEW s \in Slots, Busy(s), work[s].stage \in {"user", "set"},
         work[s].kind \in {"photo", "nophoto", "agenda"},
         NEW prev \in Files \cup {Null}, Unlinks(s, prev)
  PROVE  /\ work' \in [Slots -> Request \cup {Null}] /\ LockInv'
         /\ \A t \in Slots : t # s => work'[t] = work[t]
         /\ \/ prev = Null /\ work'[s] = Null
            \/ /\ prev # Null /\ work'[s] # Null
               /\ work'[s].stage = "unlink" /\ work'[s].prev = prev /\ work'[s].file = work[s].file
<1>1. CASE prev = Null
  BY <1>1, EndLocks DEF Unlinks
<1>2. CASE prev # Null
  <2> DEFINE r == [work[s] EXCEPT !.stage = "unlink", !.prev = prev]
  <2>1. work' = [work EXCEPT ![s] = r]
    BY <1>2 DEF Unlinks
  <2>2. work[s] \in Request /\ Shape(work[s]) /\ work[s].user = FALSE /\ work[s].held = {}
    BY DEF TypeOK, LockInv, Busy, Shape, Request
  <2>3. /\ r \in Request /\ r.kind = work[s].kind /\ r.stage = "unlink" /\ r.prev = prev
        /\ r.file = work[s].file /\ r.user = FALSE /\ r.held = {}
    BY <2>2 DEF Request, Stages
  <2> HIDE DEF r
  <2>4. Shape(r) /\ ~r.user
    BY <1>2, <2>2, <2>3 DEF Shape
  <2>5. /\ work' \in [Slots -> Request \cup {Null}] /\ LockInv' /\ work'[s] = r /\ r # Null
        /\ \A t \in Slots : t # s => work'[t] = work[t]
    BY <2>1, <2>3, <2>4, MoveLocks
  <2> QED
    BY <1>2, <2>3, <2>5
<1> QED
  BY <1>1, <1>2

\* The photo is the new one, and the old one is about to be deleted.
LEMMA PhotoStep ==
  ASSUME Inv, CopyInv, FileInv, NEW s \in Slots, SetPhoto(s)
  PROVE  Inv' /\ CopyInv' /\ FileInv'
<1>1. /\ Busy(s) /\ work[s].stage = "user" /\ work[s].kind \in {"photo", "nophoto"}
      /\ profile # Null /\ profile \in Profile /\ Photo = profile.photo /\ Photo \in Files \cup {Null}
      /\ work[s].file \in Files \cup {Null} /\ work[s].prev = Null
  BY ProfilesAssumption DEF SetPhoto, In, Busy, Photo, Inv, TypeOK, LockInv, Shape, Request, Profile
<1>2. /\ profile' \in Profile /\ profile' # Null /\ profile'.data = profile.data /\ Photo' = work[s].file
      /\ UNCHANGED <<login, rows, agenda, stored, used, left, step>>
  <2>1. profile' \in Profile /\ profile'.data = profile.data /\ profile'.photo = work[s].file
    BY <1>1 DEF SetPhoto, Profile
  <2> QED
    BY <2>1, ProfilesAssumption DEF SetPhoto, Photo
<1>3. /\ work' \in [Slots -> Request \cup {Null}] /\ LockInv'
      /\ \A t \in Slots : t # s => work'[t] = work[t]
      /\ \/ Photo = Null /\ work'[s] = Null
         \/ /\ Photo # Null /\ work'[s] # Null
            /\ work'[s].stage = "unlink" /\ work'[s].prev = Photo /\ work'[s].file = work[s].file
  BY <1>1, UnlinksIs DEF SetPhoto, Inv
<1>4. TypeOK'
  BY <1>2, <1>3 DEF Inv, TypeOK
<1>5. UsedInv'
  BY <1>1, <1>2, <1>3 DEF Inv, UsedInv, Busy
<1>6. CopyInv'
  BY <1>2, <1>3 DEF CopyInv, Busy
<1>w. work[s].file # Null => Waiting(s)
  BY <1>1 DEF Waiting
<1>7. RowFiles'
  BY <1>2, <1>w DEF FileInv, RowFiles, NewFiles
<1>8. NewFiles'
  <2> SUFFICES ASSUME NEW t \in Slots, Waiting(t)'
               PROVE  (/\ work[t].file \in stored /\ work[t].file # Photo /\ work[t].file # agenda
                       /\ \A u \in Slots : /\ Busy(u) => work[u].prev # work[t].file
                                           /\ Waiting(u) /\ work[u].file = work[t].file => u = t)'
    BY DEF NewFiles
  <2>1. t # s /\ work'[t] = work[t] /\ Waiting(t)
    BY <1>3 DEF Waiting, Busy
  <2>2. /\ work[t].file \in stored /\ work[t].file # Photo /\ work[t].file # agenda
        /\ \A u \in Slots : Busy(u) => work[u].prev # work[t].file
    BY <2>1 DEF FileInv, NewFiles
  <2>3. work[t].file # work[s].file
    BY <1>w, <2>1 DEF FileInv, NewFiles, Waiting
  <2>4. \A u \in Slots : u # t /\ (Busy(u) /\ work[u].stage \in {"user", "set"} /\ work[u].file # Null)
          => work[u].file # work[t].file
    BY <2>1 DEF FileInv, NewFiles, Waiting
  <2>5. \A u \in Slots : work'[u] # Null => work'[u].prev # work[t].file
    BY <1>3, <2>2 DEF Busy
  <2>6. \A u \in Slots : work'[u] # Null /\ work'[u].stage \in {"user", "set"} /\ work'[u].file # Null
          => u # s /\ work'[u] = work[u]
    BY <1>3
  <2> QED
    BY <1>2, <2>1, <2>2, <2>3, <2>4, <2>5, <2>6 DEF Waiting, Busy
<1>9. OldFiles'
  <2> SUFFICES ASSUME NEW t \in Slots, (Busy(t) /\ work[t].prev # Null)'
               PROVE  (/\ work[t].prev # Photo
                       /\ work[t].stage = "unlink" => work[t].prev # agenda)'
    BY DEF OldFiles
  <2>1. CASE t = s
    BY <1>1, <1>2, <1>3, <1>w, <2>1 DEF FileInv, NewFiles, RowFiles, Waiting, Busy
  <2>2. CASE t # s
    BY <1>1, <1>2, <1>3, <1>w, <2>2 DEF FileInv, NewFiles, OldFiles, Waiting, Busy
  <2> QED
    BY <2>1, <2>2
<1>10. AllFiles'
  <2> SUFFICES ASSUME NEW g \in stored, g \notin {work[s].file, agenda}, g \notin left
               PROVE  (\E t \in Slots : (Waiting(t) /\ work[t].file = g) \/ (Doomed(t) /\ work[t].prev = g))'
    BY <1>2 DEF AllFiles
  <2>1. CASE g = Photo
    <3>1. g # Null
      BY ProfilesAssumption DEF Inv, TypeOK
    <3> QED
      BY <1>3, <2>1, <3>1 DEF Doomed, Busy
  <2>2. CASE g # Photo
    <3>1. PICK t \in Slots : (Waiting(t) /\ work[t].file = g) \/ (Doomed(t) /\ work[t].prev = g)
      BY <2>2 DEF FileInv, AllFiles
    <3>2. t # s /\ work'[t] = work[t]
      BY <1>1, <1>3, <3>1 DEF Waiting, Doomed, Busy
    <3> QED
      BY <3>1, <3>2 DEF Waiting, Doomed, Busy
  <2> QED
    BY <2>1, <2>2
<1> QED
  BY <1>3, <1>4, <1>5, <1>6, <1>7, <1>8, <1>9, <1>10 DEF Inv, FileInv

\* The agenda is the new one; the file the request has read of is about to be
\* deleted, and another that was there by now is left.
LEMMA AgendaStep ==
  ASSUME Inv, CopyInv, FileInv, NEW s \in Slots, SetAgenda(s)
  PROVE  Inv' /\ CopyInv' /\ FileInv'
<1>1. /\ Busy(s) /\ work[s].stage = "set" /\ work[s].kind = "agenda"
      /\ work[s].file \in Files \cup {Null} /\ work[s].prev \in Files \cup {Null}
  BY DEF SetAgenda, In, Busy, Inv, TypeOK, LockInv, Shape, Request, Kinds
<1>2. /\ agenda' = work[s].file /\ left' = left \cup ({agenda} \ {work[s].prev, Null})
      /\ UNCHANGED <<profile, login, rows, stored, used, step>> /\ Photo' = Photo
  BY DEF SetAgenda, Photo
<1>3. /\ work' \in [Slots -> Request \cup {Null}] /\ LockInv'
      /\ \A t \in Slots : t # s => work'[t] = work[t]
      /\ \/ work[s].prev = Null /\ work'[s] = Null
         \/ /\ work[s].prev # Null /\ work'[s] # Null
            /\ work'[s].stage = "unlink" /\ work'[s].prev = work[s].prev /\ work'[s].file = work[s].file
  <2>1. Unlinks(s, work[s].prev)
    BY DEF SetAgenda
  <2> QED
    BY <1>1, <2>1, UnlinksIs DEF Inv
<1>4. TypeOK'
  BY <1>1, <1>2, <1>3 DEF Inv, TypeOK, UsedInv
<1>5. UsedInv'
  BY <1>1, <1>2, <1>3 DEF Inv, UsedInv, Busy
<1>6. CopyInv'
  BY <1>2, <1>3 DEF CopyInv, Busy
<1>w. work[s].file # Null => Waiting(s)
  BY <1>1 DEF Waiting
<1>7. RowFiles'
  BY <1>2, <1>w DEF FileInv, RowFiles, NewFiles
<1>8. NewFiles'
  <2> SUFFICES ASSUME NEW t \in Slots, Waiting(t)'
               PROVE  (/\ work[t].file \in stored /\ work[t].file # Photo /\ work[t].file # agenda
                       /\ \A u \in Slots : /\ Busy(u) => work[u].prev # work[t].file
                                           /\ Waiting(u) /\ work[u].file = work[t].file => u = t)'
    BY DEF NewFiles
  <2>1. t # s /\ work'[t] = work[t] /\ Waiting(t)
    BY <1>3 DEF Waiting, Busy
  <2>2. /\ work[t].file \in stored /\ work[t].file # Photo
        /\ \A u \in Slots : Busy(u) => work[u].prev # work[t].file
    BY <2>1 DEF FileInv, NewFiles
  <2>3. work[t].file # work[s].file
    BY <1>w, <2>1 DEF FileInv, NewFiles, Waiting
  <2>4. \A u \in Slots : u # t /\ (Busy(u) /\ work[u].stage \in {"user", "set"} /\ work[u].file # Null)
          => work[u].file # work[t].file
    BY <2>1 DEF FileInv, NewFiles, Waiting
  <2>5. \A u \in Slots : work'[u] # Null => work'[u].prev # work[t].file
    BY <1>1, <1>3, <2>2 DEF Busy
  <2>6. \A u \in Slots : work'[u] # Null /\ work'[u].stage \in {"user", "set"} /\ work'[u].file # Null
          => u # s /\ work'[u] = work[u]
    BY <1>3
  <2> QED
    BY <1>2, <2>1, <2>2, <2>3, <2>4, <2>5, <2>6 DEF Waiting, Busy
<1>9. OldFiles'
  <2> SUFFICES ASSUME NEW t \in Slots, (Busy(t) /\ work[t].prev # Null)'
               PROVE  (/\ work[t].prev # Photo
                       /\ work[t].stage = "unlink" => work[t].prev # agenda)'
    BY DEF OldFiles
  <2>1. CASE t = s
    BY <1>1, <1>2, <1>3, <1>w, <2>1 DEF FileInv, NewFiles, OldFiles, Busy
  <2>2. CASE t # s
    BY <1>1, <1>2, <1>3, <1>w, <2>2 DEF FileInv, NewFiles, OldFiles, Busy
  <2> QED
    BY <2>1, <2>2
<1>10. AllFiles'
  <2> SUFFICES ASSUME NEW g \in stored, g \notin {Photo, work[s].file}, g \notin left'
               PROVE  (\E t \in Slots : (Waiting(t) /\ work[t].file = g) \/ (Doomed(t) /\ work[t].prev = g))'
    BY <1>2 DEF AllFiles
  <2>0. g # Null /\ g \notin left
    BY <1>2, ProfilesAssumption DEF Inv, TypeOK
  <2>1. CASE g = agenda
    <3>1. g = work[s].prev
      BY <1>2, <2>0, <2>1
    <3> QED
      BY <1>3, <2>0, <3>1 DEF Doomed, Busy
  <2>2. CASE g # agenda
    <3>1. PICK t \in Slots : (Waiting(t) /\ work[t].file = g) \/ (Doomed(t) /\ work[t].prev = g)
      BY <2>0, <2>2 DEF FileInv, AllFiles
    <3>2. t # s /\ work'[t] = work[t]
      BY <1>1, <1>3, <3>1 DEF Waiting, Doomed, Busy
    <3> QED
      BY <3>1, <3>2 DEF Waiting, Doomed, Busy
  <2> QED
    BY <2>1, <2>2
<1> QED
  BY <1>3, <1>4, <1>5, <1>6, <1>7, <1>8, <1>9, <1>10 DEF Inv, FileInv

\* The old file is gone, or what a request had in hand is left.
LEMMA LastStep ==
  ASSUME Inv, CopyInv, FileInv, NEW s \in Slots, Unlink(s) \/ Drop(s)
  PROVE  Inv' /\ CopyInv' /\ FileInv'
<1>1. /\ Busy(s) /\ work[s] \in Request /\ Shape(work[s])
      /\ UNCHANGED <<profile, login, rows, agenda, used, step>> /\ Photo' = Photo
      /\ stored' \subseteq stored /\ left \subseteq left'
  BY DEF Unlink, Drop, In, Busy, Photo, Inv, TypeOK, LockInv
<1>2. /\ work' \in [Slots -> Request \cup {Null}] /\ LockInv' /\ work'[s] = Null
      /\ \A t \in Slots : t # s => work'[t] = work[t]
  BY EndLocks DEF Unlink, Drop, Inv
<1>3. \/ Doomed(s) /\ stored' = stored \ {work[s].prev} /\ left' = left
      \/ Doomed(s) /\ stored' = stored /\ left' = left \cup {work[s].prev}
      \/ ~Doomed(s) /\ stored' = stored /\ left' = left \cup ({work[s].file} \ {Null})
  BY <1>1 DEF Unlink, Drop, In, Doomed, Busy
<1>d. Doomed(s) => work[s].prev # Null
  BY <1>1 DEF Doomed, Shape
<1>4. TypeOK'
  BY <1>1, <1>2, <1>3, <1>d DEF Inv, TypeOK, UsedInv
<1>5. UsedInv'
  BY <1>1, <1>2 DEF Inv, UsedInv, Busy
<1>6. CopyInv'
  BY <1>1, <1>2 DEF CopyInv, Busy
<1>7. RowFiles'
  BY <1>1, <1>3, <1>d DEF FileInv, RowFiles, OldFiles, Doomed
<1>8. NewFiles'
  BY <1>1, <1>2, <1>3 DEF FileInv, NewFiles, Waiting, Doomed, Busy
<1>9. OldFiles'
  BY <1>1, <1>2 DEF FileInv, OldFiles, Busy
<1>10. AllFiles'
  <2> SUFFICES ASSUME NEW g \in stored', g \notin {Photo, agenda}, g \notin left'
               PROVE  (\E t \in Slots : (Waiting(t) /\ work[t].file = g) \/ (Doomed(t) /\ work[t].prev = g))'
    BY <1>1 DEF AllFiles
  <2>0. g \in stored /\ g \notin left /\ g # Null
    BY <1>1, ProfilesAssumption DEF Inv, TypeOK
  <2>1. PICK t \in Slots : (Waiting(t) /\ work[t].file = g) \/ (Doomed(t) /\ work[t].prev = g)
    BY <2>0 DEF FileInv, AllFiles
  <2>2. t # s
    BY <1>3, <2>0, <2>1 DEF Waiting, Doomed
  <2> QED
    BY <1>2, <2>1, <2>2 DEF Waiting, Doomed, Busy
<1> QED
  BY <1>2, <1>4, <1>5, <1>6, <1>7, <1>8, <1>9, <1>10 DEF Inv, FileInv

\* The photo of an account that is deleted is left.
LEMMA DeleteStep ==
  ASSUME Inv, CopyInv, FileInv, DeleteAccount
  PROVE  Inv' /\ CopyInv' /\ FileInv'
<1>1. /\ profile' = Null /\ step' = {} /\ login' \in BOOLEAN
      /\ left' = left \cup ({Photo} \ {Null}) /\ UNCHANGED <<rows, agenda, stored, used, work>>
  BY DEF DeleteAccount, Photo, Inv, TypeOK
<1>2. Photo' = Null
  BY <1>1 DEF Photo
<1>3. TypeOK'
  BY <1>1 DEF Inv, TypeOK, UsedInv
<1>4. LockInv' /\ UsedInv'
  BY <1>1, <1>2 DEF Inv, LockInv, UsedInv, Busy
<1>5. RowFiles'
  BY <1>1, <1>2 DEF FileInv, RowFiles
<1>n. \A t \in Slots : Waiting(t) => work[t].file # Null
  BY DEF Waiting
<1>6. NewFiles'
  BY <1>1, <1>2, <1>n DEF FileInv, NewFiles, Waiting, Busy
<1>7. OldFiles'
  BY <1>1, <1>2 DEF FileInv, OldFiles, Busy
<1>8. AllFiles'
  BY <1>1, <1>2, ProfilesAssumption DEF FileInv, AllFiles, Waiting, Doomed, Busy, Inv, TypeOK
<1> QED
  BY <1>3, <1>4, <1>5, <1>6, <1>7, <1>8, DeleteCopies DEF Inv, FileInv

-----------------------------------------------------------------------------
(* The theorems                                                            *)

IInv == Inv /\ CopyInv /\ FileInv

LEMMA InitIInv == Init => IInv
<1> SUFFICES ASSUME Init PROVE IInv
  OBVIOUS
<1>1. TypeOK /\ Photo = Null /\ \A s \in Slots : ~Busy(s)
  BY DEF Init, TypeOK, Photo, Busy
<1>2. LockInv /\ UsedInv /\ CopyInv
  BY <1>1 DEF Init, LockInv, UsedInv, CopyInv
<1>3. FileInv
  BY <1>1 DEF Init, FileInv, RowFiles, NewFiles, OldFiles, AllFiles, Waiting
<1> QED
  BY <1>1, <1>2, <1>3 DEF IInv, Inv

LEMMA NextIInv == IInv /\ [Next]_vars => IInv'
<1> SUFFICES ASSUME IInv, [Next]_vars PROVE IInv'
  OBVIOUS
<1> USE DEF IInv
<1>1. ASSUME NEW s \in Slots, Works(s) PROVE IInv'
  <2>1. TypeOK' /\ LockInv' /\ Aside(s)
    BY <1>1, WorksStep DEF Inv
  <2>2. UsedInv' /\ FileInv'
    BY <2>1, AsideFiles DEF Inv
  <2>3. CopyInv'
    BY <1>1, StartsCopies, MovesCopies, EndsCopies DEF Works, Inv
  <2> QED
    BY <2>1, <2>2, <2>3 DEF Inv
<1>2. ASSUME NEW s \in Slots, NEW f \in Files, UploadPhoto(s, f) \/ Agenda(s, f) PROVE IInv'
  BY <1>2, UploadStep
<1>3. ASSUME NEW s \in Slots, Agenda(s, Null) PROVE IInv'
  BY <1>3, ClearStep
<1>4. ASSUME NEW s \in Slots, SetPhoto(s) PROVE IInv'
  BY <1>4, PhotoStep
<1>5. ASSUME NEW s \in Slots, SetAgenda(s) PROVE IInv'
  BY <1>5, AgendaStep
<1>6. ASSUME NEW s \in Slots, Unlink(s) \/ Drop(s) PROVE IInv'
  BY <1>6, LastStep
<1>7. ASSUME NEW c \in Conclaves, Remove(c) PROVE IInv'
  <2>1. TypeOK' /\ work' = work /\ UNCHANGED <<profile, agenda, stored, used, left>>
    BY <1>7 DEF Remove, Inv, TypeOK
  <2>2. LockInv' /\ UsedInv'
    BY <2>1 DEF Inv, LockInv, UsedInv, Photo, Busy
  <2>3. FileInv'
    BY <2>1 DEF FileInv, RowFiles, NewFiles, OldFiles, AllFiles, Photo, Waiting, Doomed, Busy
  <2> QED
    BY <1>7, <2>1, <2>2, <2>3, RemoveStep DEF Inv
<1>8. CASE DeleteAccount
  BY <1>8, DeleteStep
<1>9. CASE UNCHANGED vars
  <2>1. TypeOK' /\ LockInv' /\ UsedInv' /\ CopyInv'
    BY <1>9 DEF vars, Inv, TypeOK, LockInv, UsedInv, CopyInv, Photo, Busy
  <2>2. FileInv'
    BY <1>9 DEF vars, FileInv, RowFiles, NewFiles, OldFiles, AllFiles, Photo, Waiting, Doomed, Busy
  <2> QED
    BY <2>1, <2>2 DEF Inv
<1> HIDE DEF IInv
<1> QED
  BY <1>1, <1>2, <1>3, <1>4, <1>5, <1>6, <1>7, <1>8, <1>9 DEF Next, Works

LEMMA Always == Spec => []IInv
  BY InitIInv, NextIInv, PTL DEF Spec

\* For any files, uploads and failures: the file a row refers to is in storage, and
\* nothing is in storage that no row, no request and no accident accounts for
\* (user.service.ts:654-687, conclave.service.ts:1172-1205).
THEOREM FilesAlwaysMatch == Spec => []FilesMatch
<1>1. IInv => FilesMatch
  <2> SUFFICES ASSUME IInv PROVE FilesMatch
    OBVIOUS
  <2>1. Referred \subseteq stored
    BY DEF IInv, FileInv, RowFiles, Referred, Photo
  <2>2. ASSUME NEW f \in stored PROVE f \in Referred \cup InHand \cup left
    <3>0. f # Null
      BY ProfilesAssumption DEF IInv, Inv, TypeOK
    <3>1. CASE f \in {Photo, agenda}
      BY <3>0, <3>1 DEF Referred, Photo
    <3>2. ASSUME NEW s \in Slots, (Waiting(s) /\ work[s].file = f) \/ (Doomed(s) /\ work[s].prev = f)
          PROVE  f \in InHand
      BY <3>0, <3>2 DEF InHand, Waiting, Doomed, Busy
    <3> QED
      BY <3>1, <3>2 DEF IInv, FileInv, AllFiles
  <2> QED
    BY <2>1, <2>2 DEF FilesMatch
<1> QED
  BY <1>1, Always, PTL

\* For any registrations, patches and overlapping requests: a field of a copy that was
\* written together with the profile's goes on saying what the profile says in it, as
\* long as nothing is given to it of which the code makes no copy
\* (user.service.ts:357-366, registration.service.ts:170-181,
\* conclaveMembers.service.ts:291-302).
THEOREM CopiesInStep == Spec => []InStep
<1>1. IInv => InStep
  BY DEF IInv, CopyInv, InStep
<1> QED
  BY <1>1, Always, PTL

\* Requests of which none is an admin's edit never wait for each other in a
\* circle: one that has the profile waits for nobody, and where none has it there
\* is nobody to wait for (user.service.ts:346, :359, conclaveMembers.service.ts:247).
THEOREM NoOtherDeadlock == Spec => []OnlyEditsCollide
<1>1. IInv => OnlyEditsCollide
  <2> SUFFICES ASSUME IInv, NEW S \in SUBSET {s \in Slots : work[s] # Null /\ work[s].kind # "edit"}, S # {}
               PROVE  \E s \in S : \A t \in S : ~WaitsFor(s, t)
    BY DEF OnlyEditsCollide
  <2>1. \A s \in S : s \in Slots /\ Busy(s) /\ work[s].kind # "edit" /\ Shape(work[s])
                    /\ work[s].stage # "row" /\ (work[s].held # {} => work[s].user)
    BY WhoMoves DEF Busy, IInv, Inv, Shape
  <2>2. ASSUME NEW u \in S, work[u].user PROVE \A t \in S : ~WaitsFor(u, t)
    <3>1. \A t \in S : t # u => work[t].held = {}
      BY <2>1, <2>2 DEF IInv, Inv, LockInv
    <3>2. work[u].stage \in {"start", "rows"}
      BY <2>1, <2>2 DEF Shape
    <3> QED
      BY <3>1, <3>2 DEF WaitsFor
  <2>3. ASSUME \A u \in S : ~work[u].user, NEW s \in S PROVE \A t \in S : ~WaitsFor(s, t)
    <3>1. \A t \in S : work[t].held = {}
      BY <2>1, <2>3
    <3> QED
      BY <2>1, <2>3, <3>1 DEF WaitsFor
  <2> QED
    BY <2>2, <2>3
<1> QED
  BY <1>1, Always, PTL
=============================================================================

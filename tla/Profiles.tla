------------------------------- MODULE Profiles -------------------------------
(***************************************************************************)
(* One member: the profile, the copies of it in the registrations, the     *)
(* photo, and beside them the agenda of a conclave, the other file that a  *)
(* row refers to.                                                          *)
(*                                                                         *)
(* The copies are written by the member's phones and by admins, each in a  *)
(* transaction that takes row locks in an order of its own.  What it       *)
(* writes is seen at its commit.  The member is not an admin as well.      *)
(***************************************************************************)
EXTENDS FiniteSets

CONSTANTS Conclaves, \* the member may be registered for
          Fields,    \* of a profile and of a copy, as below
          Data,      \* what a profile or a copy may say in a field
          Patches,   \* bound: what a request may give
          Files,     \* names of files, each used for one upload
          Slots,     \* slots for requests in flight
          Empty,     \* what a field says that is null or ""
          Null       \* of a field of a request: it is not given

\* Each stands for those that every writer treats alike: company for name, company
\* and category, chapter for chapter, region, state and country.
ASSUME FieldsAssumption == Fields \subseteq {"company", "phone", "email", "chapter"}

Told   == [Fields -> Data \cup {Empty}]
Given  == [Fields -> Data \cup {Empty, Null}]

VARIABLES
  profile, \* the row of users
  login,   \* whether the Firebase login is there
  rows,    \* what each registration of the member says
  agenda,  \* the file of a conclave's agenda
  stored,  \* the files in storage
  used,    \* the files ever uploaded
  left,    \* those of them that nobody is going to delete any more
  work,    \* the requests in flight
  step     \* <<c, f>>: field f of the registration for c was last written together
           \* with the profile's

vars == <<profile, login, rows, agenda, stored, used, left, work, step>>

Profile == [data : Told, photo : Files \cup {Null}]

Kinds  == {"save", "register", "edit", "add", "photo", "nophoto", "agenda"}
Stages == {"user", "insert", "start", "rows", "row", "add", "set", "unlink"}

\* user and held are the locks: the row of users (or the new one, before its
\* commit) and those of registrations. todo are those an UPDATE has yet to get to.
Request == [kind : Kinds, stage : Stages, conclave : Conclaves \cup {Null},
            data : Given \cup {Null}, file : Files \cup {Null}, prev : Files \cup {Null},
            user : BOOLEAN, todo : SUBSET Conclaves, held : SUBSET Conclaves]

ASSUME ProfilesAssumption ==
  /\ Patches \subseteq Given
  /\ {Null, Empty} \cap Data = {} /\ Null # Empty
  /\ Null \notin Files \cup Told \cup Given \cup Profile \cup Request

Init ==
  /\ profile = Null /\ login = TRUE
  /\ rows = [c \in Conclaves |-> Null]
  /\ agenda = Null
  /\ stored = {} /\ used = {} /\ left = {}
  /\ work = [s \in Slots |-> Null]
  /\ step = {}

-----------------------------------------------------------------------------
(* Requests and their locks                                                *)

Asks(kind, stage) == [kind |-> kind, stage |-> stage, conclave |-> Null, data |-> Null,
                      file |-> Null, prev |-> Null, user |-> FALSE, todo |-> {}, held |-> {}]

Begins(s, r)   == work[s] = Null /\ work' = [work EXCEPT ![s] = r]
In(s, stage)   == work[s] # Null /\ work[s].stage = stage
Goes(s, stage) == work' = [work EXCEPT ![s].stage = stage]
Ends(s)        == work' = [work EXCEPT ![s] = Null]

UserFree   == \A t \in Slots : work[t] # Null => ~work[t].user
RowFree(c) == \A t \in Slots : work[t] # Null => c \notin work[t].held

\* Registering locks the conclave for itself, an edit shares it.
Registering(c) == \E t \in Slots : work[t] # Null /\ work[t].kind = "register" /\ work[t].conclave = c
Editing(c)     == \E t \in Slots : work[t] # Null /\ work[t].kind = "edit" /\ work[t].conclave = c

\* What p gives, what of it is not empty, and what of it is in F.
Named(p)   == {f \in Fields : p[f] # Null}
Filled(p)  == {f \in Fields : p[f] \in Data}
Only(p, F) == [f \in Fields |-> IF f \in F THEN p[f] ELSE Null]

\* What is said after p has been written: of a row that says t, or of a new one.
Patched(t, p) == [f \in Fields |-> IF p[f] # Null THEN p[f] ELSE IF t = Null THEN Empty ELSE t[f]]

With(u, p) == IF u = Null THEN [data |-> Patched(Null, p), photo |-> Null]
              ELSE [u EXCEPT !.data = Patched(u.data, p)]

\* What of p a save writes to the registrations too: nothing, unless it gives one of
\* these, and a phone or an email also where it is taken away.
Copied(p) == IF Filled(p) \ {"chapter"} = {} THEN {}
             ELSE (Filled(p) \ {"chapter"}) \cup (Named(p) \cap {"phone", "email"})

\* What an edit or, except the email, a registration writes to the profile too.
Shared(r) == IF r.kind = "register" THEN Filled(r.data) \ {"email"} ELSE Filled(r.data)

-----------------------------------------------------------------------------
(* A member saves the profile                                              *)

\* Slip: the registrations first.
SaveRowsFirst(s, d) ==
  /\ Begins(s, [Asks("save", "start") EXCEPT !.data = d])
  /\ UNCHANGED <<profile, login, rows, agenda, stored, used, left, step>>

\* updateMe ...
Save(s, d) ==
  /\ Begins(s, [Asks("save", "user") EXCEPT !.data = d])
  /\ UNCHANGED <<profile, login, rows, agenda, stored, used, left, step>>

\* ... locks the row, if there is one ...
LockProfile(s) ==
  /\ In(s, "user") /\ work[s].kind = "save"
  /\ \/ profile = Null /\ Goes(s, "insert")
     \/ profile # Null /\ UserFree /\ work' = [work EXCEPT ![s].user = TRUE, ![s].stage = "start"]
  /\ UNCHANGED <<profile, login, rows, agenda, stored, used, left, step>>

\* ... else makes one, and waits for another that is being made: the second fails.
InsertProfile(s) ==
  /\ In(s, "insert") /\ UserFree
  /\ \/ profile # Null /\ Ends(s)
     \/ profile = Null /\ work' = [work EXCEPT ![s].user = TRUE, ![s].stage = "start"]
  /\ UNCHANGED <<profile, login, rows, agenda, stored, used, left, step>>

\* The UPDATE of the registrations, if there is one, sees those that are committed
\* when it starts ...
StartRows(s) ==
  /\ In(s, "start")
  /\ work' = [work EXCEPT ![s].stage = "rows",
                          ![s].todo = {c \in Conclaves : rows[c] # Null /\ Copied(work[s].data) # {}}]
  /\ UNCHANGED <<profile, login, rows, agenda, stored, used, left, step>>

\* Slip: passes over one that is locked, not to be deadlocked.
NextRowSkip(s, c) ==
  /\ In(s, "rows") /\ c \in work[s].todo
  /\ work' = [work EXCEPT ![s].todo = @ \ {c},
                          ![s].held = IF rows[c] = Null \/ ~RowFree(c) THEN @ ELSE @ \cup {c}]
  /\ UNCHANGED <<profile, login, rows, agenda, stored, used, left, step>>

\* ... and gets to one after the other; one that is gone by then is passed over.
NextRow(s, c) ==
  /\ In(s, "rows") /\ c \in work[s].todo /\ RowFree(c)
  /\ work' = [work EXCEPT ![s].todo = @ \ {c},
                          ![s].held = IF rows[c] = Null THEN @ ELSE @ \cup {c}]
  /\ UNCHANGED <<profile, login, rows, agenda, stored, used, left, step>>

CommitSave(s) ==
  /\ In(s, "rows") /\ work[s].todo = {}
  /\ LET p    == work[s].data
         held == work[s].held
     IN /\ profile' = With(profile, p)
        /\ rows' = [c \in Conclaves |-> IF c \in held THEN Patched(rows[c], Only(p, Copied(p)))
                                       ELSE rows[c]]
        /\ step' = (step \ (Conclaves \X (Named(p) \ Copied(p)))) \cup (held \X Copied(p))
  /\ Ends(s)
  /\ UNCHANGED <<login, agenda, stored, used, left>>

-----------------------------------------------------------------------------
(* Registrations                                                           *)

\* register: the conclave is locked and the row, which nobody sees, inserted. What is
\* not given is empty in it.
Register(s, c, d) ==
  /\ rows[c] = Null /\ ~Registering(c) /\ ~Editing(c)
  /\ Begins(s, [Asks("register", "user") EXCEPT !.conclave = c, !.data = Patched(Null, d)])
  /\ UNCHANGED <<profile, login, rows, agenda, stored, used, left, step>>

\* updateMember: the conclave is shared ...
Edit(s, c, d) ==
  /\ ~Registering(c)
  /\ Begins(s, [Asks("edit", "row") EXCEPT !.conclave = c, !.data = d])
  /\ UNCHANGED <<profile, login, rows, agenda, stored, used, left, step>>

\* ... and the registration locked, or not found.
LockRow(s) ==
  /\ In(s, "row") /\ RowFree(work[s].conclave)
  /\ \/ rows[work[s].conclave] = Null /\ Ends(s)
     \/ /\ rows[work[s].conclave] # Null
        /\ work' = [work EXCEPT ![s].held = {work[s].conclave}, ![s].stage = "user"]
  /\ UNCHANGED <<profile, login, rows, agenda, stored, used, left, step>>

\* Both then put the profile in step in what is not empty, where there is one, and
\* commit.
CommitCopy(s) ==
  /\ In(s, "user") /\ work[s].kind \in {"register", "edit"}
  /\ LET c == work[s].conclave
         p == work[s].data
         F == Shared(work[s])
     IN /\ rows' = [rows EXCEPT ![c] = Patched(@, p)]
        /\ \/ /\ profile = Null \/ F = {}
              /\ step' = step \ ({c} \X Named(p))
              /\ UNCHANGED profile
           \/ /\ profile # Null /\ F # {} /\ UserFree
              /\ profile' = With(profile, Only(p, F))
              /\ step' = (step \ ((Conclaves \X F) \cup ({c} \X Named(p)))) \cup ({c} \X F)
  /\ Ends(s)
  /\ UNCHANGED <<login, agenda, stored, used, left>>

\* addMember: a profile is made of what the admin has typed where there is none;
\* where there is one, it says in the copy what was not typed ...
Add(s, c, d) ==
  LET typed == Only(d, Filled(d))
  IN
  /\ \/ /\ profile = Null /\ login /\ UserFree
        /\ profile' = With(Null, typed)
        /\ Begins(s, [Asks("add", "add") EXCEPT !.conclave = c, !.data = Patched(Null, typed)])
     \/ /\ profile # Null
        /\ Begins(s, [Asks("add", "add") EXCEPT !.conclave = c, !.data = Patched(profile.data, typed)])
        /\ UNCHANGED profile
  /\ UNCHANGED <<login, rows, agenda, stored, used, left, step>>

\* ... and inserted some time after, unless the member is registered by then.
AddRow(s) ==
  /\ In(s, "add") /\ ~Registering(work[s].conclave)
  /\ rows' = [rows EXCEPT ![work[s].conclave] = IF @ = Null THEN work[s].data ELSE @]
  /\ Ends(s)
  /\ UNCHANGED <<profile, login, agenda, stored, used, left, step>>

\* deregister and removeMember.
Remove(c) ==
  /\ rows[c] # Null /\ RowFree(c)
  /\ rows' = [rows EXCEPT ![c] = Null]
  /\ step' = step \ ({c} \X Fields)
  /\ UNCHANGED <<profile, login, agenda, stored, used, left, work>>

\* deleteOwnAccount: the row, then the login if Firebase does it. The photo stays
\* in storage.
DeleteAccount ==
  /\ profile # Null /\ UserFree
  /\ profile' = Null /\ step' = {}
  /\ login' \in {login, FALSE}
  /\ left' = left \cup ({profile.photo} \ {Null})
  /\ UNCHANGED <<rows, agenda, stored, used, work>>

-----------------------------------------------------------------------------
(* Files                                                                   *)

\* uploadFile, under a name of its own.
Uploads(f) == f \in Files \ used /\ used' = used \cup {f} /\ stored' = stored \cup {f}

\* Deletes the file there was, or is done.
Unlinks(s, prev) == IF prev = Null THEN Ends(s)
                    ELSE work' = [work EXCEPT ![s].stage = "unlink", ![s].prev = prev]

\* setPhoto: the file first ...
UploadPhoto(s, f) ==
  /\ Uploads(f)
  /\ Begins(s, [Asks("photo", "user") EXCEPT !.file = f])
  /\ UNCHANGED <<profile, login, rows, agenda, left, step>>

\* removePhoto.
RemovePhoto(s) ==
  /\ Begins(s, Asks("nophoto", "user"))
  /\ UNCHANGED <<profile, login, rows, agenda, stored, used, left, step>>

\* Slip: deletes the file there was before the commit.
SetPhotoLast(s) ==
  /\ In(s, "user") /\ work[s].kind \in {"photo", "nophoto"} /\ profile # Null /\ UserFree
  /\ \/ /\ profile.photo \in stored
        /\ stored' = stored \ {profile.photo}
        /\ UNCHANGED <<profile, work>>
     \/ /\ profile.photo \notin stored
        /\ profile' = [profile EXCEPT !.photo = work[s].file]
        /\ Ends(s)
        /\ UNCHANGED stored
  /\ UNCHANGED <<login, rows, agenda, used, left, step>>

\* ... then the row, where there is one, under its lock ...
SetPhoto(s) ==
  /\ In(s, "user") /\ work[s].kind \in {"photo", "nophoto"} /\ profile # Null /\ UserFree
  /\ profile' = [profile EXCEPT !.photo = work[s].file]
  /\ Unlinks(s, profile.photo)
  /\ UNCHANGED <<login, rows, agenda, stored, used, left, step>>

\* ... and then the file that the row had.
Unlink(s) ==
  /\ In(s, "unlink")
  /\ stored' = stored \ {work[s].prev}
  /\ Ends(s)
  /\ UNCHANGED <<profile, login, rows, agenda, used, left, step>>

\* setAgenda reads which file there is, uploads another or has none ...
Agenda(s, f) ==
  /\ \/ Uploads(f)
     \/ f = Null /\ UNCHANGED <<stored, used>>
  /\ Begins(s, [Asks("agenda", "set") EXCEPT !.file = f, !.prev = agenda])
  /\ UNCHANGED <<profile, login, rows, agenda, left, step>>

\* ... and writes the row; what it then deletes is what it read, not what it
\* replaced.
SetAgenda(s) ==
  /\ In(s, "set")
  /\ agenda' = work[s].file
  /\ left' = left \cup ({agenda} \ {work[s].prev, Null})
  /\ Unlinks(s, work[s].prev)
  /\ UNCHANGED <<profile, login, rows, stored, used, step>>

\* A request that fails, is refused, is given up by a database that finds it
\* deadlocked, or stops with its server.
Drop(s) ==
  /\ work[s] # Null
  /\ left' = left \cup (IF work[s].stage = "unlink" THEN {work[s].prev}
                        ELSE {work[s].file} \ {Null})
  /\ Ends(s)
  /\ UNCHANGED <<profile, login, rows, agenda, stored, used, step>>

-----------------------------------------------------------------------------

Next ==
  \/ \E s \in Slots :
       \/ \E d \in Patches : Save(s, d)
       \/ LockProfile(s) \/ InsertProfile(s) \/ StartRows(s) \/ CommitSave(s)
       \/ \E c \in Conclaves : NextRow(s, c)
       \/ \E c \in Conclaves, d \in Patches : Register(s, c, d) \/ Edit(s, c, d) \/ Add(s, c, d)
       \/ LockRow(s) \/ CommitCopy(s) \/ AddRow(s)
       \/ \E f \in Files : UploadPhoto(s, f)
       \/ RemovePhoto(s) \/ SetPhoto(s) \/ Unlink(s)
       \/ \E f \in Files \cup {Null} : Agenda(s, f)
       \/ SetAgenda(s) \/ Drop(s)
  \/ \E c \in Conclaves : Remove(c)
  \/ DeleteAccount

Spec == Init /\ [][Next]_vars

-----------------------------------------------------------------------------
(* Properties                                                              *)

TypeOK ==
  /\ profile \in Profile \cup {Null} /\ login \in BOOLEAN
  /\ rows \in [Conclaves -> Told \cup {Null}]
  /\ agenda \in Files \cup {Null}
  /\ stored \subseteq used /\ left \subseteq used /\ used \subseteq Files
  /\ work \in [Slots -> Request \cup {Null}]
  /\ step \subseteq Conclaves \X Fields

Referred == (IF profile = Null THEN {} ELSE {profile.photo} \ {Null}) \cup ({agenda} \ {Null})

InHand == UNION {IF work[s] = Null THEN {} ELSE {work[s].file, work[s].prev} \ {Null} : s \in Slots}

\* However uploads and removals overlap and wherever they stop, the file a row
\* refers to is in storage, and a file in storage is referred to, in the hands of
\* a request, or one that a failure, a deleted account or the race in setAgenda
\* has left (user.service.ts:654-687, conclave.service.ts:1172-1205).
FilesMatch == Referred \subseteq stored /\ stored \subseteq Referred \cup InHand \cup left

\* Where a field of a registration was last written together with the profile's, the
\* two go on saying the same, whatever is saved, registered or edited at the same
\* time, until a save or an edit gives that field in a form that is not copied: a
\* company taken away, a phone or an email taken away with nothing given, a chapter
\* (user.service.ts:357-366, registration.service.ts:170-181,
\* conclaveMembers.service.ts:291-302).
InStep ==
  \A c \in Conclaves, f \in Fields :
    <<c, f>> \in step => profile # Null /\ rows[c] # Null /\ rows[c][f] = profile.data[f]

\* What updateMe says it does: "Keep registrations up to date with
\* name/company/category/phone/email changes".
KeptUpToDate ==
  [][\A s \in Slots, x \in step :
       CommitSave(s) /\ x[2] # "chapter" => rows'[x[1]][x[2]] = profile'.data[x[2]]]_vars

\* s waits for a lock that t has.
WaitsFor(s, t) ==
  /\ s # t /\ work[s] # Null /\ work[t] # Null
  /\ \/ work[s].stage = "insert" /\ work[t].user
     \/ /\ work[s].stage = "user" /\ profile # Null /\ work[t].user
        /\ work[s].kind \in {"register", "edit"} => Shared(work[s]) # {}
     \/ work[s].stage = "row" /\ work[s].conclave \in work[t].held
     \/ work[s].stage = "rows" /\ work[s].todo \cap work[t].held # {}

\* Requests wait for each other in a circle only where an admin's edit of a
\* member is among them: it locks the registration and then the profile
\* (conclaveMembers.service.ts:247, :297), a save the profile and then the
\* registrations (user.service.ts:346, :359).
OnlyEditsCollide ==
  \A S \in SUBSET {s \in Slots : work[s] # Null /\ work[s].kind # "edit"} :
    S # {} => \E s \in S : \A t \in S : ~WaitsFor(s, t)
=============================================================================

-------------------------------- MODULE Admins --------------------------------
(***************************************************************************)
(* The list of admins, their Firebase logins, and the copy of the list     *)
(* that every server keeps for a minute.  A request is let in under the    *)
(* record its server had or found, and does its work under that record     *)
(* however the list has changed since.                                     *)
(***************************************************************************)
EXTENDS Integers

CONSTANTS Uids,    \* Firebase's, each given to one login
          Old,     \* the keys of rows made before their owner ever signed in
          Emails,
          Servers, Slots,
          TTL,     \* ADMIN_TTL_MS, in ticks
          Lookup,  \* how many ticks a lookup takes at most
          MaxTime, \* bound: the last tick
          MaxChanges, \* bound: the requests that change the list or a login
          Offers,  \* bound: the roles and statuses that admins give
          FirstRows, FirstLogins, \* the list and the logins at the beginning
          Null

Roles    == {"coordinator", "admin", "superadmin"}
Statuses == {"Active", "Inactive"}
Keys     == Uids \cup Old
Row      == [email : Emails, role : Roles, status : Statuses]

ASSUME AdminsAssumption == /\ TTL \in Nat \ {0} /\ Lookup \in Nat /\ MaxTime \in Nat /\ MaxChanges \in Nat
                           /\ Offers \subseteq [role : Roles, status : Statuses]
                           /\ FirstRows \in [Keys -> Row \cup {Null}]
                           /\ FirstLogins \in [Uids -> Emails \cup {Null}]
                           /\ \A u \in Uids : FirstRows[u] # Null => FirstLogins[u] # Null
                           /\ Null \notin Row \cup Emails \cup Roles \cup Keys

VARIABLES
  rows,   \* the admins table
  logins, \* the email each login is of
  tokens, \* the email in the tokens that each uid's owner may have
  cache,  \* adminCache of each server
  req,    \* the requests in flight
  held,   \* when each uid last had each role, on the list and Active
  linked, \* the uids whose row had another key before
  lost,   \* the uids whose login went and not their row: not in the code, and kept for
          \* the properties
  changes, \* the requests so far that were to change the list or a login
  now

vars == <<rows, logins, tokens, cache, req, held, linked, lost, changes, now>>

Never == -(TTL + Lookup)
Times == Never..MaxTime

Cached == [until : 0..(MaxTime + TTL), role : Roles]

\* Of a request: the caller and the server, when a lookup began (0 after it), the role
\* it was found to have (Null once nothing is asked of it any more), and the key, role
\* and status it is to write.
Request == [stage : {"link", "looking", "in", "update", "insert", "delete", "unlink", "undo"},
            by : Uids, srv : Servers, role : Roles \cup {Null}, at : Times,
            key : Keys \cup {Null}, new : Row \cup {Null}]

ASSUME RecordsAssumption == Null \notin Cached \cup Request

Holds(table, u, r) == table[u] # Null /\ table[u].role = r /\ table[u].status = "Active"

Init ==
  /\ rows = FirstRows /\ logins = FirstLogins
  /\ tokens = logins
  /\ linked = {} /\ lost = {}
  /\ cache = [x \in Servers \X Uids |-> Null]
  /\ req = [s \in Slots |-> Null]
  /\ held = [x \in Uids \X Roles |-> IF Holds(rows, x[1], x[2]) THEN 0 ELSE Never]
  /\ changes = 0 /\ now = 0

\* What was on the list until this step was held until now.
Held == [x \in Uids \X Roles |-> IF Holds(rows, x[1], x[2]) THEN now ELSE held[x]]

Goes(s, stage) == req' = [req EXCEPT ![s].stage = stage]
Ends(s)        == req' = [req EXCEPT ![s] = Null]

-----------------------------------------------------------------------------
(* Being let in                                                            *)

\* canManage, and the ranks.
CanManage(actor, target) == actor = "superadmin" \/ (actor = "admin" /\ target = "coordinator")
Rank(r) == CASE r = "coordinator" -> 1 [] r = "admin" -> 2 [] r = "superadmin" -> 3

OfEmail(e) == {k \in Keys : rows[k] # Null /\ rows[k].email = e}

Found(u) == IF rows[u] # Null /\ rows[u].status = "Active" THEN rows[u].role ELSE Null

\* A request with a token: of a login whose password its owner knows (while
\* createAdmin makes it, nobody does), or of one deleted since.
MayCome(u) ==
  tokens[u] # Null /\ \A s \in Slots :
    req[s] # Null => ~(req[s].stage \in {"insert", "undo"} /\ req[s].key = u)

New(u, v, stage, role, key) ==
  [stage |-> stage, by |-> u, srv |-> v, role |-> role, at |-> IF stage = "in" THEN 0 ELSE now,
   key |-> key, new |-> Null]

\* requireAdmin and adminRecord: the copy, while it is fresh ...
Fresh(v, u) == cache[<<v, u>>] # Null /\ now < cache[<<v, u>>].until

\* Slip: a copy that is used stays fresh.
HitAgain(s, v, u) ==
  /\ req[s] = Null /\ MayCome(u) /\ Fresh(v, u)
  /\ req' = [req EXCEPT ![s] = New(u, v, "in", cache[<<v, u>>].role, Null)]
  /\ cache' = [cache EXCEPT ![<<v, u>>].until = now + TTL]
  /\ UNCHANGED <<rows, logins, tokens, held, linked, lost, changes, now>>

Hit(s, v, u) ==
  /\ req[s] = Null /\ MayCome(u) /\ Fresh(v, u)
  /\ req' = [req EXCEPT ![s] = New(u, v, "in", cache[<<v, u>>].role, Null)]
  /\ UNCHANGED <<rows, logins, tokens, cache, held, linked, lost, changes, now>>

\* ... else findActiveAdmin: by uid, and then by the verified email ...
Look(s, v, u) ==
  /\ req[s] = Null /\ MayCome(u) /\ ~Fresh(v, u)
  /\ \/ /\ rows[u] # Null \/ OfEmail(tokens[u]) = {}
        /\ req' = [req EXCEPT ![s] = New(u, v, "looking", Found(u), Null)]
     \/ /\ rows[u] = Null
        /\ \E k \in OfEmail(tokens[u]) :
             req' = [req EXCEPT ![s] = New(u, v, "link", Null, k)]
  /\ UNCHANGED <<rows, logins, tokens, cache, held, linked, lost, changes, now>>

\* ... whose row then gets the uid as its key, if it still has the other one and
\* the uid has none.
Link(s) ==
  /\ req[s] # Null /\ req[s].stage = "link"
  /\ LET k == req[s].key
         u == req[s].by
     IN /\ \/ rows[k] = Null /\ UNCHANGED <<rows, linked>>
           \/ /\ rows[k] # Null /\ rows[u] = Null
              /\ rows' = [rows EXCEPT ![u] = rows[k], ![k] = Null]
              /\ linked' = (linked \ {k}) \cup {u}
        /\ req' = [req EXCEPT ![s] = New(u, req[s].srv, "looking",
                      IF rows[k] # Null /\ rows[k].status = "Active" THEN rows[k].role ELSE Null, Null)]
  /\ held' = Held
  /\ UNCHANGED <<logins, tokens, cache, lost, changes, now>>

\* The answer is kept from the time it comes, or what was kept is dropped.
LetIn(s) ==
  /\ req[s] # Null /\ req[s].stage = "looking" /\ req[s].role # Null
  /\ cache' = [cache EXCEPT ![<<req[s].srv, req[s].by>>] = [until |-> now + TTL, role |-> req[s].role]]
  /\ req' = [req EXCEPT ![s].stage = "in", ![s].at = 0]
  /\ UNCHANGED <<rows, logins, tokens, held, linked, lost, changes, now>>

Refuse(s) ==
  /\ req[s] # Null /\ req[s].stage = "looking" /\ req[s].role = Null
  /\ cache' = [cache EXCEPT ![<<req[s].srv, req[s].by>>] = Null]
  /\ Ends(s)
  /\ UNCHANGED <<rows, logins, tokens, held, linked, lost, changes, now>>

\* A handler that changes nothing here, a lookup that fails, a lost server.
Over(s) ==
  /\ req[s] # Null
  /\ Ends(s)
  /\ UNCHANGED <<rows, logins, tokens, cache, held, linked, lost, changes, now>>

-----------------------------------------------------------------------------
(* Managing                                                                *)

\* createAdmin: the login first; Firebase has one for an email ...
CreateLogin(s, u, e, o) ==
  /\ req[s] # Null /\ req[s].stage = "in" /\ CanManage(req[s].role, o.role)
  /\ tokens[u] = Null /\ \A w \in Uids : logins[w] # e
  /\ logins' = [logins EXCEPT ![u] = e]
  /\ tokens' = [tokens EXCEPT ![u] = e]
  /\ req' = [req EXCEPT ![s].stage = "insert", ![s].role = Null, ![s].key = u,
                        ![s].new = [email |-> e, role |-> o.role, status |-> o.status]]
  /\ changes < MaxChanges /\ changes' = changes + 1
  /\ UNCHANGED <<rows, cache, held, linked, lost, now>>

\* ... then the row. Where that fails, as it does when the email is on the list, the
\* login goes again: also when the row was written and the answer was lost.
CreateRow(s) ==
  /\ req[s] # Null /\ req[s].stage = "insert"
  /\ \/ /\ OfEmail(req[s].new.email) = {}
        /\ rows' = [rows EXCEPT ![req[s].key] = req[s].new]
        /\ \/ Ends(s) /\ UNCHANGED lost
           \/ Goes(s, "unlink") /\ lost' = lost \cup {req[s].key}
     \/ Goes(s, "undo") /\ UNCHANGED <<rows, lost>>
  /\ held' = Held
  /\ UNCHANGED <<logins, tokens, cache, linked, changes, now>>

\* updateAdmin: the row is read, and the rules of who may do what are asked of
\* it and of the caller's record ...
UpdateRead(s, k, o) ==
  /\ req[s] # Null /\ req[s].stage = "in" /\ rows[k] # Null
  /\ CanManage(req[s].role, rows[k].role) /\ CanManage(req[s].role, o.role)
  /\ k = req[s].by => o.status = "Active" /\ Rank(o.role) >= Rank(req[s].role)
  /\ req' = [req EXCEPT ![s].stage = "update", ![s].role = Null, ![s].key = k,
                        ![s].new = [rows[k] EXCEPT !.role = o.role, !.status = o.status]]
  /\ changes < MaxChanges /\ changes' = changes + 1
  /\ UNCHANGED <<rows, logins, tokens, cache, held, linked, lost, now>>

\* ... and what has that key by then is written.
UpdateWrite(s) ==
  /\ req[s] # Null /\ req[s].stage = "update"
  /\ LET k == req[s].key
     IN rows' = IF rows[k] = Null THEN rows
                ELSE [rows EXCEPT ![k].role = req[s].new.role, ![k].status = req[s].new.status]
  /\ held' = Held
  /\ Ends(s)
  /\ UNCHANGED <<logins, tokens, cache, linked, lost, changes, now>>

\* deleteAdmin: never one's own; the row ...
DeleteRead(s, k) ==
  /\ req[s] # Null /\ req[s].stage = "in" /\ k # req[s].by /\ rows[k] # Null
  /\ CanManage(req[s].role, rows[k].role)
  /\ req' = [req EXCEPT ![s].stage = "delete", ![s].role = Null, ![s].key = k]
  /\ changes < MaxChanges /\ changes' = changes + 1
  /\ UNCHANGED <<rows, logins, tokens, cache, held, linked, lost, now>>

\* Slip: the login first.
DeleteLoginFirst(s) ==
  /\ req[s] # Null /\ req[s].stage = "delete"
  /\ IF req[s].key \in Uids /\ logins[req[s].key] # Null
     THEN /\ logins' = [logins EXCEPT ![req[s].key] = Null]
          /\ UNCHANGED <<rows, req, linked>>
     ELSE /\ rows' = [rows EXCEPT ![req[s].key] = Null]
          /\ linked' = linked \ {req[s].key}
          /\ Ends(s)
          /\ UNCHANGED logins
  /\ held' = Held
  /\ UNCHANGED <<tokens, cache, lost, changes, now>>

DeleteRow(s) ==
  /\ req[s] # Null /\ req[s].stage = "delete"
  /\ rows' = [rows EXCEPT ![req[s].key] = Null]
  /\ linked' = linked \ {req[s].key}
  /\ held' = Held
  /\ Goes(s, "unlink")
  /\ UNCHANGED <<logins, tokens, cache, lost, changes, now>>

\* ... and then the login, if Firebase does it; nobody had a token yet of one that
\* createAdmin takes back, and its uid counts as free again.
DeleteLogin(s) ==
  /\ req[s] # Null /\ req[s].stage \in {"unlink", "undo"}
  /\ logins' = [u \in Uids |-> IF u = req[s].key THEN Null ELSE logins[u]]
  /\ tokens' = IF req[s].stage = "undo" THEN [tokens EXCEPT ![req[s].key] = Null] ELSE tokens
  /\ Ends(s)
  /\ UNCHANGED <<rows, cache, held, linked, lost, changes, now>>

\* updateMe, by anybody who is on the list, Active or not: another email, which
\* no row has. The login keeps the one it has.
UpdateSelf(u, e) ==
  /\ MayCome(u) /\ rows[u] # Null /\ OfEmail(e) = {}
  /\ rows' = [rows EXCEPT ![u].email = e]
  /\ changes < MaxChanges /\ changes' = changes + 1
  /\ UNCHANGED <<logins, tokens, cache, req, held, linked, lost, now>>

\* deleteOwnAccount, by anybody: one's login, and not one's row on the list.
DeleteOwn(u) ==
  /\ MayCome(u) /\ logins[u] # Null
  /\ logins' = [logins EXCEPT ![u] = Null]
  /\ lost' = lost \cup {u}
  /\ changes < MaxChanges /\ changes' = changes + 1
  /\ UNCHANGED <<rows, tokens, cache, req, held, linked, now>>

-----------------------------------------------------------------------------
\* A lookup is answered in time.
Tick ==
  /\ now < MaxTime
  /\ \A s \in Slots : req[s] # Null /\ req[s].stage \in {"link", "looking"} => now < req[s].at + Lookup
  /\ now' = now + 1
  /\ held' = Held
  /\ UNCHANGED <<rows, logins, tokens, cache, req, linked, lost, changes>>

Next ==
  \/ \E s \in Slots :
       \/ \E v \in Servers, u \in Uids : Hit(s, v, u) \/ Look(s, v, u)
       \/ Link(s) \/ LetIn(s) \/ Refuse(s) \/ Over(s)
       \/ \E u \in Uids, e \in Emails, o \in Offers : CreateLogin(s, u, e, o)
       \/ CreateRow(s)
       \/ \E k \in Keys, o \in Offers : UpdateRead(s, k, o)
       \/ UpdateWrite(s)
       \/ \E k \in Keys : DeleteRead(s, k)
       \/ DeleteRow(s) \/ DeleteLogin(s)
  \/ \E u \in Uids, e \in Emails : UpdateSelf(u, e)
  \/ \E u \in Uids : DeleteOwn(u)
  \/ Tick

Spec == Init /\ [][Next]_vars

-----------------------------------------------------------------------------
(* Properties                                                              *)

TypeOK ==
  /\ rows \in [Keys -> Row \cup {Null}]
  /\ logins \in [Uids -> Emails \cup {Null}] /\ tokens \in [Uids -> Emails \cup {Null}]
  /\ linked \subseteq Uids /\ lost \subseteq Uids
  /\ cache \in [Servers \X Uids -> Cached \cup {Null}]
  /\ req \in [Slots -> Request \cup {Null}]
  /\ held \in [Uids \X Roles -> Times] /\ changes \in 0..MaxChanges /\ now \in 0..MaxTime

\* Nobody is let in, on any server, in a role that he has not had on the list,
\* Active, for as long as a copy is kept and a lookup takes (auth.ts:115-131,
\* admins.service.ts:64-83).
RevokedSoonOut ==
  [][\A s \in Slots :
       (req'[s] # Null /\ req'[s].stage = "in" /\ (req[s] = Null \/ req[s].stage = "looking"))
         => LET x == <<req'[s].by, req'[s].role>>
            IN Holds(rows, x[1], x[2]) \/ now - held[x] <= TTL + Lookup - 1]_vars

\* Whoever createAdmin has put on the list can sign in, until he is removed, deletes
\* his account or has his row linked to another uid, wherever creating and removing
\* stop, unless createAdmin did not learn that the row was written
\* (admins.service.ts:140-186, 248-259).
RowHasLogin == \A u \in Uids \ (linked \cup lost) : rows[u] # Null => logins[u] # Null

\* What linking a row is for: it is keyed by a uid that can sign in
\* (admins.service.ts:58-61).
LinkedCanSignIn == \A u \in linked \ lost : rows[u] # Null => logins[u] # Null
=============================================================================

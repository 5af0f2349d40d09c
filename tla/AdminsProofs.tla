----------------------------- MODULE AdminsProofs -----------------------------
(***************************************************************************)
(* Proofs about Admins, for any number of servers, requests, logins and    *)
(* rows: whoever was made an admin can sign in, and whoever is taken off   *)
(* the list is soon let in nowhere.                                        *)
(***************************************************************************)
EXTENDS Admins, TLAPS

Busy(s) == req[s] # Null

-----------------------------------------------------------------------------
(* The invariants                                                          *)

\* A request that is to write knows what.
Keyed(r) ==
  /\ r.stage \in {"link", "update", "delete", "unlink"} => r.key \in Keys
  /\ r.stage \in {"insert", "undo"} => r.key \in Uids
  /\ r.stage \in {"insert", "update"} => r.new \in Row

KeyInv == \A s \in Slots : Busy(s) => Keyed(req[s])

\* Only uids that have had a login have rows, send requests and are deleted.
RowsKnown    == \A u \in Uids : rows[u] # Null => tokens[u] # Null
CallersKnown == \A s \in Slots : Busy(s) => tokens[req[s].by] # Null
TargetsKnown == \A s \in Slots : Busy(s) /\ req[s].stage \in {"delete", "unlink"} /\ req[s].key \in Uids
                  => tokens[req[s].key] # Null

\* The login that createAdmin is making, or takes back, is nobody's: no row has it,
\* no request is by it or about it.
MakingInv ==
  \A s \in Slots : Busy(s) /\ req[s].stage \in {"insert", "undo"} =>
    /\ tokens[req[s].key] # Null /\ rows[req[s].key] = Null
    /\ req[s].stage = "insert" => logins[req[s].key] # Null
    /\ \A t \in Slots : Busy(t) =>
         /\ req[t].by # req[s].key
         /\ t # s /\ req[t].stage \in {"insert", "undo", "delete", "unlink"} => req[t].key # req[s].key

\* A login about to be deleted has lost its row, unless one was linked to it
\* since, or it is the login of a row that was written without an answer.
LosingInv ==
  \A s \in Slots : Busy(s) /\ req[s].stage = "unlink" /\ req[s].key \in Uids /\ rows[req[s].key] # Null
    => req[s].key \in linked \cup lost

LoginInv == RowsKnown /\ CallersKnown /\ TargetsKnown /\ MakingInv /\ LosingInv /\ RowHasLogin

\* What u had a role for at t or later.
Since(u, r, t) == Holds(rows, u, r) \/ held[<<u, r>>] >= t

\* A role that was found, or is kept, was held when the lookup began.
Right(s) ==
  Busy(s) /\ req[s].stage \in {"link", "looking"} =>
    /\ req[s].at \in 0..now /\ now <= req[s].at + Lookup
    /\ req[s].stage = "looking" /\ req[s].role # Null =>
         req[s].role \in Roles /\ Since(req[s].by, req[s].role, req[s].at)

FoundInv == \A s \in Slots : Right(s)

CacheInv ==
  \A v \in Servers, u \in Uids : cache[<<v, u>>] # Null =>
    /\ cache[<<v, u>>].until <= now + TTL
    /\ Since(u, cache[<<v, u>>].role, cache[<<v, u>>].until - TTL - Lookup)

-----------------------------------------------------------------------------
(* How requests move                                                       *)

LEMMA ReqIs ==
  ASSUME TypeOK, NEW s \in Slots, NEW r \in Request \cup {Null}, req' = [req EXCEPT ![s] = r]
  PROVE  /\ req' \in [Slots -> Request \cup {Null}] /\ req'[s] = r
         /\ \A t \in Slots : t # s => req'[t] = req[t]
  BY DEF TypeOK

LEMMA NewIs ==
  ASSUME TypeOK, NEW u \in Uids, NEW v \in Servers, NEW stage \in {"link", "looking", "in"},
         NEW role \in Roles \cup {Null}, NEW key \in Keys \cup {Null}
  PROVE  LET r == New(u, v, stage, role, key)
         IN  /\ r \in Request /\ r.stage = stage /\ r.by = u /\ r.srv = v
             /\ r.role = role /\ (stage # "in" => r.at = now) /\ r.key = key
<1>1. now \in Times /\ 0 \in Times
  BY AdminsAssumption DEF TypeOK, Times, Never
<1> QED
  BY <1>1 DEF New, Request

\* What the steps that leave the list and the logins alone make of a request.
Gentle(s, r) ==
  /\ req' = [req EXCEPT ![s] = r]
  /\ UNCHANGED <<rows, logins, tokens, held, linked, lost, now>>
  /\ \/ r = Null
     \/ /\ r \in Request /\ Keyed(r)
        /\ r.stage \in {"link", "looking", "in", "update", "delete"}
        /\ r.stage = "delete" => rows[r.key] # Null
        /\ \/ Busy(s) /\ r.by = req[s].by
           \/ MayCome(r.by)

LEMMA GentleLogins ==
  ASSUME TypeOK, LoginInv, NEW s \in Slots, NEW r, Gentle(s, r)
  PROVE  LoginInv'
<1>1. req'[s] = r /\ \A t \in Slots : t # s => req'[t] = req[t]
  BY DEF TypeOK, Gentle
<1>2. UNCHANGED <<rows, logins, tokens, linked, lost>>
  BY DEF Gentle
<1>3. CASE r = Null
  BY <1>1, <1>2, <1>3 DEF LoginInv, RowsKnown, CallersKnown, TargetsKnown, MakingInv, LosingInv, RowHasLogin, Busy
<1>4. CASE r # Null
  <2>1. /\ r \in Request /\ r.stage \in {"link", "looking", "in", "update", "delete"}
        /\ r.stage = "delete" => rows[r.key] # Null
    BY <1>4 DEF Gentle
  <2>2. tokens[r.by] # Null
    BY <1>4 DEF Gentle, LoginInv, CallersKnown, MayCome, Busy
  <2>3. \A t \in Slots : t # s /\ Busy(t) /\ req[t].stage \in {"insert", "undo"} => r.by # req[t].key
    BY <1>4 DEF Gentle, LoginInv, MakingInv, MayCome, Busy
  <2>4. \A t \in Slots : t # s /\ Busy(t) /\ req[t].stage \in {"insert", "undo"} /\ r.stage = "delete"
          => r.key # req[t].key
    BY <2>1 DEF LoginInv, MakingInv
  <2>5. (\A u \in Uids : rows[u] # Null => tokens[u] # Null)' /\ RowHasLogin'
    BY <1>2 DEF LoginInv, RowsKnown, RowHasLogin
  <2>6. \A t \in Slots : req'[t] # Null => tokens'[req'[t].by] # Null
    BY <1>1, <1>2, <2>2 DEF LoginInv, CallersKnown, Busy
  <2>7. \A t \in Slots : req'[t] # Null /\ req'[t].stage \in {"delete", "unlink"} /\ req'[t].key \in Uids
          => tokens'[req'[t].key] # Null
    BY <1>1, <1>2, <2>1 DEF LoginInv, RowsKnown, TargetsKnown, Busy
  <2>8. ASSUME NEW t \in Slots, req'[t] # Null, req'[t].stage \in {"insert", "undo"}
        PROVE  /\ tokens'[req'[t].key] # Null /\ rows'[req'[t].key] = Null
               /\ req'[t].stage = "insert" => logins'[req'[t].key] # Null
               /\ \A w \in Slots : req'[w] # Null =>
                    /\ req'[w].by # req'[t].key
                    /\ w # t /\ req'[w].stage \in {"insert", "undo", "delete", "unlink"} => req'[w].key # req'[t].key
    <3>1. t # s /\ req'[t] = req[t]
      BY <1>1, <2>1, <2>8
    <3> QED
      BY <1>1, <1>2, <2>1, <2>3, <2>4, <2>8, <3>1 DEF LoginInv, MakingInv, Busy
  <2>9. \A t \in Slots : req'[t] # Null /\ req'[t].stage = "unlink" /\ req'[t].key \in Uids /\ rows'[req'[t].key] # Null
          => req'[t].key \in linked' \cup lost'
    BY <1>1, <1>2, <2>1 DEF LoginInv, LosingInv, Busy
  <2> QED
    BY <2>5, <2>6, <2>7, <2>8, <2>9 DEF LoginInv, RowsKnown, CallersKnown, TargetsKnown, MakingInv, LosingInv, Busy
<1> QED
  BY <1>3, <1>4

Gentles(s) ==
  \/ \E v \in Servers, u \in Uids : Hit(s, v, u) \/ Look(s, v, u)
  \/ LetIn(s) \/ Refuse(s) \/ Over(s)
  \/ \E k \in Keys, o \in Offers : UpdateRead(s, k, o)
  \/ \E k \in Keys : DeleteRead(s, k)

LEMMA FoundIsRole ==
  ASSUME TypeOK, NEW u \in Uids
  PROVE  Found(u) \in Roles \cup {Null} /\ (Found(u) # Null => Holds(rows, u, Found(u)))
  BY AdminsAssumption DEF Found, Holds, TypeOK, Row, Keys

LEMMA GentleKeys ==
  ASSUME TypeOK, KeyInv, NEW s \in Slots, NEW r, Gentle(s, r)
  PROVE  KeyInv'
<1>1. req'[s] = r /\ \A t \in Slots : t # s => req'[t] = req[t]
  BY DEF TypeOK, Gentle
<1> QED
  BY <1>1 DEF KeyInv, Gentle, Busy

LEMMA GentleSteps ==
  ASSUME TypeOK, KeyInv, NEW s \in Slots, Gentles(s)
  PROVE  TypeOK' /\ KeyInv' /\ \E r : Gentle(s, r)
<1>1. ASSUME NEW v \in Servers, NEW u \in Uids, Hit(s, v, u) PROVE TypeOK' /\ KeyInv' /\ \E r : Gentle(s, r)
  <2> DEFINE r == New(u, v, "in", cache[<<v, u>>].role, Null)
  <2>1. cache[<<v, u>>].role \in Roles
    BY <1>1 DEF Hit, Fresh, TypeOK, Cached
  <2>2. r \in Request /\ r.stage = "in" /\ Keyed(r) /\ r.by = u
    BY <2>1, NewIs DEF Keyed
  <2>3. req' = [req EXCEPT ![s] = r] /\ MayCome(u) /\ UNCHANGED <<rows, logins, tokens, cache, held, linked, lost, changes, now>>
    BY <1>1 DEF Hit
  <2> HIDE DEF r
  <2>4. Gentle(s, r)
    BY <2>2, <2>3 DEF Gentle
  <2> QED
    BY <2>2, <2>3, <2>4, GentleKeys, ReqIs DEF TypeOK
<1>2. ASSUME NEW v \in Servers, NEW u \in Uids, Look(s, v, u) PROVE TypeOK' /\ KeyInv' /\ \E r : Gentle(s, r)
  <2>1. PICK r : /\ r \in Request /\ r.stage \in {"link", "looking"} /\ Keyed(r) /\ r.by = u
                 /\ req' = [req EXCEPT ![s] = r]
    <3>1. CASE req' = [req EXCEPT ![s] = New(u, v, "looking", Found(u), Null)]
      <4> DEFINE r == New(u, v, "looking", Found(u), Null)
      <4>1. Found(u) \in Roles \cup {Null}
        BY FoundIsRole
      <4>2. r \in Request /\ r.stage = "looking" /\ Keyed(r) /\ r.by = u
        BY <4>1, NewIs DEF Keyed
      <4> QED
        BY <3>1, <4>2
    <3>2. ASSUME NEW k \in OfEmail(tokens[u]), req' = [req EXCEPT ![s] = New(u, v, "link", Null, k)]
          PROVE  \E r : /\ r \in Request /\ r.stage \in {"link", "looking"} /\ Keyed(r) /\ r.by = u
                        /\ req' = [req EXCEPT ![s] = r]
      <4> DEFINE r == New(u, v, "link", Null, k)
      <4>1. k \in Keys
        BY <3>2 DEF OfEmail
      <4>2. r \in Request /\ r.stage = "link" /\ Keyed(r) /\ r.by = u
        BY <4>1, NewIs DEF Keyed
      <4> QED
        BY <3>2, <4>2
    <3> QED
      BY <1>2, <3>1, <3>2 DEF Look
  <2>2. MayCome(u) /\ UNCHANGED <<rows, logins, tokens, cache, held, linked, lost, changes, now>>
    BY <1>2 DEF Look
  <2>3. Gentle(s, r)
    BY <2>1, <2>2 DEF Gentle
  <2> QED
    BY <2>1, <2>2, <2>3, GentleKeys, ReqIs DEF TypeOK
<1>3. CASE LetIn(s)
  <2> DEFINE r == [req[s] EXCEPT !.stage = "in", !.at = 0]
             c == [until |-> now + TTL, role |-> req[s].role]
  <2>1. req[s] \in Request /\ req[s] # Null /\ req[s].role # Null
    BY <1>3 DEF LetIn, TypeOK
  <2>0. 0 \in Times
    BY AdminsAssumption DEF Times, Never
  <2>2. r \in Request /\ r.stage = "in" /\ Keyed(r) /\ r.by = req[s].by
    BY <2>0, <2>1 DEF Request, Keyed
  <2>3. req' = [req EXCEPT ![s] = r] /\ UNCHANGED <<rows, logins, tokens, held, linked, lost, changes, now>>
    BY <1>3 DEF LetIn
  <2>4. cache' = [cache EXCEPT ![<<req[s].srv, req[s].by>>] = c]
    BY <1>3 DEF LetIn
  <2>5. c \in Cached
    BY <2>1, AdminsAssumption DEF Cached, Request, TypeOK
  <2>6. cache' \in [Servers \X Uids -> Cached \cup {Null}]
    BY <2>1, <2>4, <2>5 DEF TypeOK
  <2> HIDE DEF r, c
  <2>7. Gentle(s, r)
    BY <2>1, <2>2, <2>3 DEF Gentle, Busy
  <2> QED
    BY <2>2, <2>3, <2>6, <2>7, GentleKeys, ReqIs DEF TypeOK
<1>4. CASE Refuse(s)
  <2>1. req' = [req EXCEPT ![s] = Null] /\ UNCHANGED <<rows, logins, tokens, held, linked, lost, changes, now>>
        /\ cache' \in [Servers \X Uids -> Cached \cup {Null}]
    BY <1>4 DEF Refuse, Ends, TypeOK
  <2>2. Gentle(s, Null)
    BY <2>1 DEF Gentle
  <2> QED
    BY <2>1, <2>2, GentleKeys, ReqIs DEF TypeOK
<1>5. CASE Over(s)
  <2>1. req' = [req EXCEPT ![s] = Null] /\ UNCHANGED <<rows, logins, tokens, cache, held, linked, lost, changes, now>>
    BY <1>5 DEF Over, Ends
  <2>2. Gentle(s, Null)
    BY <2>1 DEF Gentle
  <2> QED
    BY <2>1, <2>2, GentleKeys, ReqIs DEF TypeOK
<1>6. ASSUME NEW k \in Keys, NEW o \in Offers, UpdateRead(s, k, o) PROVE TypeOK' /\ KeyInv' /\ \E r : Gentle(s, r)
  <2> DEFINE n == [rows[k] EXCEPT !.role = o.role, !.status = o.status]
             r == [req[s] EXCEPT !.stage = "update", !.role = Null, !.key = k, !.new = n]
  <2>1. req[s] \in Request /\ req[s] # Null /\ rows[k] \in Row /\ o \in [role : Roles, status : Statuses]
    BY <1>6, AdminsAssumption DEF UpdateRead, TypeOK
  <2>2. n \in Row
    BY <2>1 DEF Row
  <2> HIDE DEF n
  <2>3. r \in Request /\ r.stage = "update" /\ Keyed(r) /\ r.by = req[s].by
    BY <2>1, <2>2 DEF Request, Keyed
  <2>a. UNCHANGED <<rows, logins, tokens, cache, held, linked, lost, now>> /\ changes' \in 0..MaxChanges
    BY <1>6, AdminsAssumption DEF UpdateRead, TypeOK
  <2>4. req' = [req EXCEPT ![s] = r]
    BY <1>6 DEF UpdateRead, n
  <2> HIDE DEF r
  <2>5. Gentle(s, r)
    BY <2>1, <2>3, <2>4, <2>a DEF Gentle, Busy
  <2> QED
    BY <2>3, <2>4, <2>5, <2>a, GentleKeys, ReqIs DEF TypeOK
<1>7. ASSUME NEW k \in Keys, DeleteRead(s, k) PROVE TypeOK' /\ KeyInv' /\ \E r : Gentle(s, r)
  <2> DEFINE r == [req[s] EXCEPT !.stage = "delete", !.role = Null, !.key = k]
  <2>1. req[s] \in Request /\ req[s] # Null /\ rows[k] # Null
    BY <1>7 DEF DeleteRead, TypeOK
  <2>2. r \in Request /\ r.stage = "delete" /\ Keyed(r) /\ r.by = req[s].by /\ r.key = k
    BY <2>1 DEF Request, Keyed
  <2>a. UNCHANGED <<rows, logins, tokens, cache, held, linked, lost, now>> /\ changes' \in 0..MaxChanges
    BY <1>7, AdminsAssumption DEF DeleteRead, TypeOK
  <2>3. req' = [req EXCEPT ![s] = r]
    BY <1>7 DEF DeleteRead
  <2> HIDE DEF r
  <2>4. Gentle(s, r)
    BY <2>1, <2>2, <2>3, <2>a DEF Gentle, Busy
  <2> QED
    BY <2>2, <2>3, <2>4, <2>a, GentleKeys, ReqIs DEF TypeOK
<1> QED
  BY <1>1, <1>2, <1>3, <1>4, <1>5, <1>6, <1>7 DEF Gentles

-----------------------------------------------------------------------------
(* What changes the list and the logins                                    *)

LEMMA HeldTyped ==
  ASSUME TypeOK
  PROVE  /\ Held \in [Uids \X Roles -> Times] /\ now \in Times
         /\ \A u \in Uids, r \in Roles : Held[<<u, r>>] = IF Holds(rows, u, r) THEN now ELSE held[<<u, r>>]
<1>1. now \in Times
  BY AdminsAssumption DEF TypeOK, Times, Never
<1> QED
  BY <1>1 DEF Held, TypeOK

\* Linking moves a row to the uid of the request that found it.
LEMMA LinkStep ==
  ASSUME TypeOK, KeyInv, LoginInv, NEW s \in Slots, Link(s)
  PROVE  TypeOK' /\ KeyInv' /\ LoginInv'
<1> DEFINE k == req[s].key
           u == req[s].by
           found == IF rows[k] # Null /\ rows[k].status = "Active" THEN rows[k].role ELSE Null
           r == New(u, req[s].srv, "looking", found, Null)
<1>1. /\ req[s] \in Request /\ Busy(s) /\ req[s].stage = "link" /\ u \in Uids /\ u \in Keys /\ k \in Keys
      /\ req[s].srv \in Servers
  BY DEF Link, TypeOK, Request, KeyInv, Keyed, Busy, Keys
<1>2. /\ req' = [req EXCEPT ![s] = r] /\ held' = Held
      /\ UNCHANGED <<logins, tokens, cache, lost, changes, now>>
      /\ \/ rows[k] = Null /\ UNCHANGED <<rows, linked>>
         \/ /\ rows[k] # Null /\ rows[u] = Null
            /\ rows' = [rows EXCEPT ![u] = rows[k], ![k] = Null]
            /\ linked' = (linked \ {k}) \cup {u}
  BY DEF Link
<1>3. found \in Roles \cup {Null}
  BY <1>1 DEF TypeOK, Row
<1> HIDE DEF found
<1>4. r \in Request /\ r.stage = "looking" /\ r.by = u
  BY <1>1, <1>3, NewIs
<1> HIDE DEF r
<1>5. /\ req' \in [Slots -> Request \cup {Null}] /\ req'[s] = r /\ r # Null
      /\ \A t \in Slots : t # s => req'[t] = req[t]
  BY <1>2, <1>4, ReqIs, RecordsAssumption
<1>6. rows' \in [Keys -> Row \cup {Null}] /\ linked' \subseteq Uids
  BY <1>1, <1>2 DEF TypeOK
<1>7. TypeOK'
  BY <1>2, <1>5, <1>6, HeldTyped DEF TypeOK
<1>8. KeyInv'
  BY <1>4, <1>5 DEF KeyInv, Keyed, Busy
<1>9. /\ \A v \in Keys : v # u => rows'[v] = rows[v] \/ rows'[v] = Null
      /\ \A v \in Uids : v \notin linked' /\ rows'[v] # Null => v \notin linked /\ rows[v] # Null
      /\ \A v \in Uids : v \in Keys
  <2>1. CASE rows[k] = Null /\ UNCHANGED <<rows, linked>>
    BY <2>1 DEF Keys
  <2>2. CASE /\ rows[k] # Null /\ rows[u] = Null
             /\ rows' = [rows EXCEPT ![u] = rows[k], ![k] = Null]
             /\ linked' = (linked \ {k}) \cup {u}
    <3>1. \A v \in Keys : rows'[v] = IF v = k THEN Null ELSE IF v = u THEN rows[k] ELSE rows[v]
      BY <1>1, <2>2 DEF TypeOK
    <3> QED
      BY <1>1, <2>2, <3>1 DEF Keys
  <2> QED
    BY <1>2, <2>1, <2>2
<1>b. LoginInv'
  <2>1. (\A v \in Uids : rows[v] # Null => tokens[v] # Null)'
    BY <1>1, <1>2, <1>9 DEF LoginInv, RowsKnown, CallersKnown
  <2>2. RowHasLogin'
    BY <1>2, <1>9 DEF LoginInv, RowHasLogin
  <2>3. \A t \in Slots : req'[t] # Null => tokens'[req'[t].by] # Null
    BY <1>1, <1>2, <1>4, <1>5 DEF LoginInv, CallersKnown, Busy
  <2>4. \A t \in Slots : req'[t] # Null /\ req'[t].stage \in {"delete", "unlink"} /\ req'[t].key \in Uids
          => tokens'[req'[t].key] # Null
    BY <1>2, <1>4, <1>5 DEF LoginInv, TargetsKnown, Busy
  <2>5. ASSUME NEW t \in Slots, req'[t] # Null, req'[t].stage \in {"insert", "undo"}
        PROVE  /\ tokens'[req'[t].key] # Null /\ rows'[req'[t].key] = Null
               /\ req'[t].stage = "insert" => logins'[req'[t].key] # Null
               /\ \A w \in Slots : req'[w] # Null =>
                    /\ req'[w].by # req'[t].key
                    /\ w # t /\ req'[w].stage \in {"insert", "undo", "delete", "unlink"} => req'[w].key # req'[t].key
    <3>1. t # s /\ req'[t] = req[t] /\ Busy(t)
      BY <1>4, <1>5, <2>5 DEF Busy
    <3>2. req[t].key \in Uids /\ req[t].key # u
      BY <1>1, <2>5, <3>1 DEF LoginInv, MakingInv, KeyInv, Keyed
    <3>3. rows[req[t].key] = Null /\ rows'[req[t].key] = Null
      BY <1>9, <2>5, <3>1, <3>2 DEF LoginInv, MakingInv
    <3>4. \A w \in Slots : req'[w] # Null =>
                    /\ req'[w].by # req'[t].key
                    /\ w # t /\ req'[w].stage \in {"insert", "undo", "delete", "unlink"} => req'[w].key # req'[t].key
      BY <1>4, <1>5, <2>5, <3>1, <3>2 DEF LoginInv, MakingInv, Busy
    <3> QED
      BY <1>2, <2>5, <3>1, <3>3, <3>4 DEF LoginInv, MakingInv
  <2>6. \A t \in Slots : req'[t] # Null /\ req'[t].stage = "unlink" /\ req'[t].key \in Uids /\ rows'[req'[t].key] # Null
          => req'[t].key \in linked' \cup lost'
    <3> SUFFICES ASSUME NEW t \in Slots, req'[t] # Null, req'[t].stage = "unlink", req'[t].key \in Uids,
                        rows'[req'[t].key] # Null, ~(req'[t].key \in linked' \cup lost')
                 PROVE  FALSE
      OBVIOUS
    <3>1. req'[t] = req[t] /\ Busy(t)
      BY <1>4, <1>5 DEF Busy
    <3>2. req'[t].key \notin linked /\ rows[req'[t].key] # Null
      BY <1>9
    <3>3. req'[t].key \notin lost
      BY <1>2
    <3> QED
      BY <3>1, <3>2, <3>3 DEF LoginInv, LosingInv
  <2> QED
    BY <2>1, <2>2, <2>3, <2>4, <2>5, <2>6 DEF LoginInv, RowsKnown, CallersKnown, TargetsKnown, MakingInv, LosingInv, Busy
<1> QED
  BY <1>7, <1>8, <1>b

\* Where the list, the logins and the requests keep their types, so does the rest.
LEMMA ListTyped ==
  ASSUME TypeOK, rows' \in [Keys -> Row \cup {Null}],
         logins' \in [Uids -> Emails \cup {Null}], tokens' \in [Uids -> Emails \cup {Null}],
         linked' \subseteq Uids, lost' \subseteq Uids, req' \in [Slots -> Request \cup {Null}],
         held' \in {held, Held}, changes' \in 0..MaxChanges, UNCHANGED <<cache, now>>
  PROVE  TypeOK'
<1>1. held' \in [Uids \X Roles -> Times]
  BY HeldTyped DEF TypeOK
<1> QED
  BY <1>1 DEF TypeOK

LEMMA CreateLoginStep ==
  ASSUME TypeOK, KeyInv, LoginInv, NEW s \in Slots, NEW u \in Uids, NEW e \in Emails, NEW o \in Offers,
         CreateLogin(s, u, e, o)
  PROVE  TypeOK' /\ KeyInv' /\ LoginInv'
<1> DEFINE n == [email |-> e, role |-> o.role, status |-> o.status]
           r == [req[s] EXCEPT !.stage = "insert", !.role = Null, !.key = u, !.new = n]
<1>1. req[s] \in Request /\ Busy(s) /\ tokens[u] = Null /\ u \in Keys /\ e # Null
  BY AdminsAssumption DEF CreateLogin, TypeOK, Busy, Keys
<1>2. /\ logins' = [logins EXCEPT ![u] = e] /\ tokens' = [tokens EXCEPT ![u] = e]
      /\ UNCHANGED <<rows, cache, held, linked, lost, now>>
  BY DEF CreateLogin
<1>3. n \in Row
  BY AdminsAssumption DEF Row
<1>4. req' = [req EXCEPT ![s] = r]
  BY DEF CreateLogin
<1> HIDE DEF n
<1>5. r \in Request /\ r.stage = "insert" /\ r.key = u /\ r.new = n /\ r.by = req[s].by
  BY <1>1, <1>3 DEF Request
<1>6. changes' \in 0..MaxChanges
  BY AdminsAssumption DEF CreateLogin, TypeOK
<1> HIDE DEF r
<1>7. /\ req' \in [Slots -> Request \cup {Null}] /\ req'[s] = r /\ r # Null
      /\ \A t \in Slots : t # s => req'[t] = req[t]
  BY <1>4, <1>5, ReqIs, RecordsAssumption
<1>8. TypeOK'
  <2>1. logins' \in [Uids -> Emails \cup {Null}] /\ tokens' \in [Uids -> Emails \cup {Null}]
    BY <1>2 DEF TypeOK
  <2> QED
    BY <1>2, <1>6, <1>7, <2>1, ListTyped DEF TypeOK
<1>9. KeyInv'
  BY <1>3, <1>5, <1>7 DEF KeyInv, Keyed, Busy
<1>a. /\ \A v \in Uids : tokens[v] # Null => tokens'[v] # Null
      /\ \A v \in Uids : logins[v] # Null => logins'[v] # Null
      /\ tokens'[u] # Null /\ logins'[u] # Null
  BY <1>1, <1>2 DEF TypeOK
<1>b. \A t \in Slots : Busy(t) => req[t] \in Request /\ req[t].by \in Uids /\ req[t].by # u
  BY <1>1 DEF LoginInv, CallersKnown, Busy, TypeOK, Request
<1>c. \A t \in Slots : Busy(t) /\ req[t].stage \in {"insert", "undo", "delete", "unlink"} => req[t].key # u
  BY <1>1 DEF LoginInv, MakingInv, TargetsKnown
<1>d. rows[u] = Null
  BY <1>1 DEF LoginInv, RowsKnown
<1>e. RowsKnown' /\ RowHasLogin'
  BY <1>2, <1>a DEF LoginInv, RowsKnown, RowHasLogin
<1>f. CallersKnown'
  BY <1>1, <1>5, <1>7, <1>a, <1>b DEF LoginInv, CallersKnown, Busy
<1>g. TargetsKnown'
  BY <1>5, <1>7, <1>a DEF LoginInv, TargetsKnown, Busy
<1>h. LosingInv'
  BY <1>2, <1>5, <1>7 DEF LoginInv, LosingInv, Busy
<1>i. ASSUME NEW t \in Slots, req'[t] # Null, req'[t].stage \in {"insert", "undo"}
      PROVE  /\ tokens'[req'[t].key] # Null /\ rows'[req'[t].key] = Null
             /\ req'[t].stage = "insert" => logins'[req'[t].key] # Null
             /\ \A w \in Slots : req'[w] # Null =>
                  /\ req'[w].by # req'[t].key
                  /\ w # t /\ req'[w].stage \in {"insert", "undo", "delete", "unlink"} => req'[w].key # req'[t].key
  <2>1. CASE t = s
    BY <1>1, <1>2, <1>5, <1>7, <1>a, <1>b, <1>c, <1>d, <2>1 DEF Busy
  <2>2. CASE t # s
    <3>1. req'[t] = req[t] /\ Busy(t) /\ req[t].key \in Uids
      BY <1>7, <1>i, <2>2 DEF Busy, KeyInv, Keyed
    <3>2. /\ tokens'[req[t].key] # Null /\ rows'[req[t].key] = Null
          /\ req[t].stage = "insert" => logins'[req[t].key] # Null
      BY <1>2, <1>a, <1>i, <3>1 DEF LoginInv, MakingInv
    <3>3. ASSUME NEW w \in Slots, req'[w] # Null
          PROVE  /\ req'[w].by # req[t].key
                 /\ w # t /\ req'[w].stage \in {"insert", "undo", "delete", "unlink"} => req'[w].key # req[t].key
      BY <1>1, <1>5, <1>7, <1>c, <1>i, <3>1, <3>3 DEF LoginInv, MakingInv, Busy
    <3> QED
      BY <3>1, <3>2, <3>3
  <2> QED
    BY <2>1, <2>2
<1>j. MakingInv'
  BY <1>i DEF MakingInv, Busy
<1> QED
  BY <1>8, <1>9, <1>e, <1>f, <1>g, <1>h, <1>j DEF LoginInv

LEMMA CreateRowStep ==
  ASSUME TypeOK, KeyInv, LoginInv, NEW s \in Slots, CreateRow(s)
  PROVE  TypeOK' /\ KeyInv' /\ LoginInv'
<1> DEFINE u == req[s].key
           r == [req[s] EXCEPT !.stage = "undo"]
           q == [req[s] EXCEPT !.stage = "unlink"]
<1>1. /\ req[s] \in Request /\ Busy(s) /\ req[s].stage = "insert" /\ u \in Uids /\ u \in Keys /\ req[s].new \in Row
      /\ req[s].new # Null
  BY AdminsAssumption DEF CreateRow, TypeOK, KeyInv, Keyed, Busy, Keys
<1>2. held' = Held /\ UNCHANGED <<logins, tokens, cache, linked, changes, now>>
  BY DEF CreateRow
<1>3. /\ r \in Request /\ r.stage = "undo" /\ r.key = u /\ r.by = req[s].by
      /\ q \in Request /\ q.stage = "unlink" /\ q.key = u /\ q.by = req[s].by
  BY <1>1 DEF Request
<1>4. \/ /\ rows' = [rows EXCEPT ![u] = req[s].new] /\ req' = [req EXCEPT ![s] = Null]
         /\ lost' = lost
      \/ /\ rows' = [rows EXCEPT ![u] = req[s].new] /\ req' = [req EXCEPT ![s] = q]
         /\ lost' = lost \cup {u}
      \/ rows' = rows /\ req' = [req EXCEPT ![s] = r] /\ lost' = lost
  BY DEF CreateRow, Ends, Goes
<1> HIDE DEF r, q
<1>5. /\ req' \in [Slots -> Request \cup {Null}] /\ req'[s] \in {Null, r, q} /\ r # Null /\ q # Null
      /\ \A t \in Slots : t # s => req'[t] = req[t]
      /\ lost \subseteq lost' /\ lost' \subseteq Uids /\ (req'[s] = q => u \in lost')
  BY <1>1, <1>3, <1>4, RecordsAssumption DEF TypeOK
<1>6. TypeOK'
  BY <1>1, <1>2, <1>4, <1>5, ListTyped DEF TypeOK
<1>7. KeyInv'
  BY <1>1, <1>3, <1>5 DEF KeyInv, Keyed, Busy
<1>8. /\ \A v \in Keys : v # u => rows'[v] = rows[v]
      /\ rows'[u] = rows[u] \/ req'[s] \in {Null, q}
  BY <1>1, <1>4 DEF TypeOK
<1>9. tokens[u] # Null /\ logins[u] # Null
  BY <1>1 DEF LoginInv, MakingInv
<1>a. RowsKnown' /\ RowHasLogin'
  BY <1>2, <1>5, <1>8, <1>9 DEF LoginInv, RowsKnown, RowHasLogin, Keys
<1>b. CallersKnown' /\ TargetsKnown'
  BY <1>1, <1>2, <1>3, <1>5, <1>9 DEF LoginInv, CallersKnown, TargetsKnown, Busy
<1>c. LosingInv'
  <2> SUFFICES ASSUME NEW t \in Slots, req'[t] # Null, req'[t].stage = "unlink", req'[t].key \in Uids,
                      rows'[req'[t].key] # Null
               PROVE  req'[t].key \in linked' \cup lost'
    BY DEF LosingInv, Busy
  <2>1. CASE t = s
    BY <1>3, <1>5, <2>1
  <2>2. CASE t # s
    <3>1. req'[t] = req[t] /\ Busy(t)
      BY <1>5, <2>2 DEF Busy
    <3>2. req[t].key # u
      BY <1>1, <2>2, <3>1 DEF LoginInv, MakingInv
    <3> QED
      BY <1>2, <1>5, <1>8, <3>1, <3>2 DEF LoginInv, LosingInv, Keys
  <2> QED
    BY <2>1, <2>2
<1>d. ASSUME NEW t \in Slots, req'[t] # Null, req'[t].stage \in {"insert", "undo"}
      PROVE  /\ tokens'[req'[t].key] # Null /\ rows'[req'[t].key] = Null
             /\ req'[t].stage = "insert" => logins'[req'[t].key] # Null
             /\ \A w \in Slots : req'[w] # Null =>
                  /\ req'[w].by # req'[t].key
                  /\ w # t /\ req'[w].stage \in {"insert", "undo", "delete", "unlink"} => req'[w].key # req'[t].key
  <2>0. Busy(t) /\ req'[t].key = req[t].key /\ req[t].stage \in {"insert", "undo"}
        /\ (req'[t].stage = "insert" => req[t].stage = "insert")
    BY <1>1, <1>3, <1>5, <1>d DEF Busy
  <2>1. tokens'[req'[t].key] # Null /\ (req'[t].stage = "insert" => logins'[req'[t].key] # Null)
    BY <1>2, <2>0 DEF LoginInv, MakingInv
  <2>2. rows'[req'[t].key] = Null
    <3>1. CASE t = s
      BY <1>3, <1>8, <1>d, <2>0, <3>1 DEF LoginInv, MakingInv
    <3>2. CASE t # s
      <4>1. req[t].key # u /\ rows[req[t].key] = Null
        BY <1>1, <2>0, <3>2 DEF LoginInv, MakingInv
      <4>2. req[t].key \in Keys
        BY <2>0 DEF KeyInv, Keyed, Keys
      <4> QED
        BY <1>8, <2>0, <4>1, <4>2
    <3> QED
      BY <3>1, <3>2
  <2>3. ASSUME NEW w \in Slots, req'[w] # Null
        PROVE  /\ req'[w].by # req'[t].key
               /\ w # t /\ req'[w].stage \in {"insert", "undo", "delete", "unlink"} => req'[w].key # req'[t].key
    <3>1. /\ Busy(w) /\ req'[w].by = req[w].by /\ req'[w].key = req[w].key
          /\ req'[w].stage = req[w].stage \/ req[w].stage = "insert"
      BY <1>1, <1>3, <1>5, <2>3 DEF Busy
    <3> QED
      BY <2>0, <3>1 DEF LoginInv, MakingInv
  <2> QED
    BY <2>1, <2>2, <2>3
<1>e. MakingInv'
  BY <1>d DEF MakingInv, Busy
<1> QED
  BY <1>6, <1>7, <1>a, <1>b, <1>c, <1>e DEF LoginInv

LEMMA UpdateWriteStep ==
  ASSUME TypeOK, KeyInv, LoginInv, NEW s \in Slots, UpdateWrite(s)
  PROVE  TypeOK' /\ KeyInv' /\ LoginInv'
<1> DEFINE k == req[s].key
           n == req[s].new
<1>1. req[s] \in Request /\ Busy(s) /\ k \in Keys /\ n \in Row
  BY DEF UpdateWrite, TypeOK, KeyInv, Keyed, Busy
<1>2. /\ rows' = IF rows[k] = Null THEN rows ELSE [rows EXCEPT ![k].role = n.role, ![k].status = n.status]
      /\ req' = [req EXCEPT ![s] = Null] /\ held' = Held
      /\ UNCHANGED <<logins, tokens, cache, linked, lost, changes, now>>
  BY DEF UpdateWrite, Ends
<1>3. rows[k] # Null => [rows[k] EXCEPT !.role = n.role, !.status = n.status] \in Row
  BY <1>1 DEF TypeOK, Row
<1>4. rows' \in [Keys -> Row \cup {Null}] /\ \A v \in Keys : rows'[v] = Null <=> rows[v] = Null
  BY <1>1, <1>2, <1>3, AdminsAssumption DEF TypeOK
<1>5. /\ req' \in [Slots -> Request \cup {Null}] /\ req'[s] = Null
      /\ \A t \in Slots : t # s => req'[t] = req[t]
  BY <1>2 DEF TypeOK
<1>6. TypeOK'
  BY <1>2, <1>4, <1>5, ListTyped DEF TypeOK
<1>7. KeyInv'
  BY <1>5 DEF KeyInv, Keyed, Busy
<1>8. RowsKnown' /\ RowHasLogin' /\ CallersKnown' /\ TargetsKnown' /\ LosingInv'
  <2>1. \A t \in Slots : Busy(t)' => Busy(t) /\ req'[t] = req[t]
    BY <1>5 DEF Busy
  <2>2. RowsKnown' /\ RowHasLogin'
    BY <1>2, <1>4 DEF LoginInv, RowsKnown, RowHasLogin, Keys
  <2>3. CallersKnown'
    BY <1>2, <2>1 DEF LoginInv, CallersKnown
  <2>4. TargetsKnown'
    BY <1>2, <2>1 DEF LoginInv, TargetsKnown
  <2>5. LosingInv'
    <3> SUFFICES ASSUME NEW t \in Slots, Busy(t)', req'[t].stage = "unlink", req'[t].key \in Uids,
                        rows'[req'[t].key] # Null
                 PROVE  req'[t].key \in linked' \cup lost'
      BY DEF LosingInv
    <3>1. Busy(t) /\ req'[t] = req[t]
      BY <2>1
    <3>2. rows[req[t].key] # Null
      BY <1>4, <3>1 DEF Keys
    <3> QED BY <1>2, <3>1, <3>2 DEF LoginInv, LosingInv
  <2> QED BY <2>2, <2>3, <2>4, <2>5
<1>9. MakingInv'
  <2>1. \A t \in Slots : Busy(t)' => Busy(t) /\ req'[t] = req[t]
    BY <1>5 DEF Busy
  <2>2. \A t \in Slots : Busy(t) /\ req[t].stage \in {"insert", "undo"} => req[t].key \in Keys
    BY DEF KeyInv, Keyed, Keys
  <2>3. MakingInv
    BY DEF LoginInv
  <2> SUFFICES ASSUME NEW t \in Slots, Busy(t)', req'[t].stage \in {"insert", "undo"}
               PROVE  /\ tokens'[req'[t].key] # Null /\ rows'[req'[t].key] = Null
                      /\ req'[t].stage = "insert" => logins'[req'[t].key] # Null
                      /\ \A v \in Slots : Busy(v)' =>
                           /\ req'[v].by # req'[t].key
                           /\ v # t /\ req'[v].stage \in {"insert", "undo", "delete", "unlink"}
                                => req'[v].key # req'[t].key
    BY DEF MakingInv
  <2>4. Busy(t) /\ req'[t] = req[t] /\ req[t].key \in Keys
    BY <2>1, <2>2
  <2>5. tokens'[req'[t].key] # Null /\ rows'[req'[t].key] = Null
    BY <1>2, <1>4, <2>3, <2>4 DEF MakingInv
  <2>6. req'[t].stage = "insert" => logins'[req'[t].key] # Null
    BY <1>2, <2>3, <2>4 DEF MakingInv
  <2>7. \A v \in Slots : Busy(v)' =>
          /\ req'[v].by # req'[t].key
          /\ v # t /\ req'[v].stage \in {"insert", "undo", "delete", "unlink"}
               => req'[v].key # req'[t].key
    BY <2>1, <2>3, <2>4 DEF MakingInv
  <2> QED BY <2>5, <2>6, <2>7
<1> QED
  BY <1>6, <1>7, <1>8, <1>9 DEF LoginInv

LEMMA UpdateSelfStep ==
  ASSUME TypeOK, KeyInv, LoginInv, NEW u \in Uids, NEW e \in Emails, UpdateSelf(u, e)
  PROVE  TypeOK' /\ KeyInv' /\ LoginInv'
<1>1. /\ rows' = [rows EXCEPT ![u].email = e] /\ u \in Keys /\ rows[u] \in Row /\ changes' \in 0..MaxChanges
      /\ UNCHANGED <<logins, tokens, cache, req, held, linked, lost, now>>
  BY AdminsAssumption DEF UpdateSelf, TypeOK, Keys
<1>3. [rows[u] EXCEPT !.email = e] \in Row
  BY <1>1 DEF Row
<1>4. rows' \in [Keys -> Row \cup {Null}] /\ \A v \in Keys : rows'[v] = Null <=> rows[v] = Null
  BY <1>1, <1>3, AdminsAssumption DEF TypeOK
<1>6. TypeOK'
  BY <1>1, <1>4, ListTyped DEF TypeOK
<1>7. KeyInv'
  BY <1>1 DEF KeyInv, Keyed, Busy
<1>8. RowsKnown' /\ RowHasLogin' /\ CallersKnown' /\ TargetsKnown' /\ LosingInv'
  BY <1>1, <1>4 DEF LoginInv, RowsKnown, RowHasLogin, CallersKnown, TargetsKnown, LosingInv, Busy, Keys
<1>9. MakingInv'
  BY <1>1, <1>4 DEF LoginInv, MakingInv, KeyInv, Keyed, Busy, Keys
<1> QED
  BY <1>6, <1>7, <1>8, <1>9 DEF LoginInv

LEMMA DeleteRowStep ==
  ASSUME TypeOK, KeyInv, LoginInv, NEW s \in Slots, DeleteRow(s)
  PROVE  TypeOK' /\ KeyInv' /\ LoginInv'
<1> DEFINE k == req[s].key
           r == [req[s] EXCEPT !.stage = "unlink"]
<1>1. req[s] \in Request /\ Busy(s) /\ req[s].stage = "delete" /\ k \in Keys
  BY DEF DeleteRow, TypeOK, KeyInv, Keyed, Busy
<1>2. /\ rows' = [rows EXCEPT ![k] = Null] /\ linked' = linked \ {k} /\ req' = [req EXCEPT ![s] = r]
      /\ held' = Held /\ UNCHANGED <<logins, tokens, cache, lost, changes, now>>
  BY DEF DeleteRow, Goes
<1>3. r \in Request /\ r.stage = "unlink" /\ r.key = k /\ r.by = req[s].by
  BY <1>1 DEF Request
<1> HIDE DEF r
<1>4. /\ req' \in [Slots -> Request \cup {Null}] /\ req'[s] = r /\ r # Null
      /\ \A t \in Slots : t # s => req'[t] = req[t]
  BY <1>2, <1>3, ReqIs, RecordsAssumption
<1>5. /\ rows' \in [Keys -> Row \cup {Null}] /\ linked' \subseteq Uids
      /\ rows'[k] = Null /\ \A v \in Keys : v # k => rows'[v] = rows[v]
  BY <1>1, <1>2 DEF TypeOK
<1>6. TypeOK'
  BY <1>2, <1>4, <1>5, ListTyped DEF TypeOK
<1>7. KeyInv'
  BY <1>1, <1>3, <1>4 DEF KeyInv, Keyed, Busy
<1>8. RowsKnown' /\ RowHasLogin'
  BY <1>2, <1>5 DEF LoginInv, RowsKnown, RowHasLogin, Keys
<1>9. CallersKnown' /\ TargetsKnown'
  BY <1>1, <1>2, <1>3, <1>4 DEF LoginInv, CallersKnown, TargetsKnown, Busy
<1>a. LosingInv'
  BY <1>2, <1>3, <1>4, <1>5 DEF LoginInv, LosingInv, Busy, Keys
<1>b. MakingInv'
  BY <1>1, <1>2, <1>3, <1>4, <1>5 DEF LoginInv, MakingInv, KeyInv, Keyed, Busy, Keys
<1> QED
  BY <1>6, <1>7, <1>8, <1>9, <1>a, <1>b DEF LoginInv

LEMMA DeleteLoginStep ==
  ASSUME TypeOK, KeyInv, LoginInv, NEW s \in Slots, DeleteLogin(s)
  PROVE  TypeOK' /\ KeyInv' /\ LoginInv'
<1> DEFINE k == req[s].key
<1>1. req[s] \in Request /\ Busy(s) /\ req[s].stage \in {"unlink", "undo"} /\ (req[s].stage = "undo" => k \in Uids)
  BY DEF DeleteLogin, TypeOK, KeyInv, Keyed, Busy
<1>2. /\ logins' = [u \in Uids |-> IF u = k THEN Null ELSE logins[u]]
      /\ tokens' = IF req[s].stage = "undo" THEN [tokens EXCEPT ![k] = Null] ELSE tokens
      /\ req' = [req EXCEPT ![s] = Null]
      /\ UNCHANGED <<rows, cache, held, linked, lost, changes, now>>
  BY DEF DeleteLogin, Ends
<1>3. /\ logins' \in [Uids -> Emails \cup {Null}] /\ tokens' \in [Uids -> Emails \cup {Null}]
      /\ \A v \in Uids : v # k => logins'[v] = logins[v] /\ tokens'[v] = tokens[v]
      /\ req[s].stage = "unlink" => tokens' = tokens
  BY <1>1, <1>2 DEF TypeOK
<1>4. /\ req' \in [Slots -> Request \cup {Null}] /\ req'[s] = Null
      /\ \A t \in Slots : t # s => req'[t] = req[t]
  BY <1>2 DEF TypeOK
<1>5. TypeOK'
  BY <1>2, <1>3, <1>4, ListTyped DEF TypeOK
<1>6. KeyInv'
  BY <1>4 DEF KeyInv, Keyed, Busy
<1>7. /\ req[s].stage = "undo" => rows[k] = Null
      /\ req[s].stage = "unlink" /\ k \in Uids /\ rows[k] # Null => k \in linked \cup lost
  BY <1>1 DEF LoginInv, MakingInv, LosingInv
<1>8. RowsKnown' /\ RowHasLogin'
  BY <1>1, <1>2, <1>3, <1>7 DEF LoginInv, RowsKnown, RowHasLogin
<1>9. \A t \in Slots : t # s /\ Busy(t) =>
        /\ req[s].stage = "undo" => req[t].by # k
        /\ req[s].stage = "undo" /\ req[t].stage \in {"insert", "undo", "delete", "unlink"} => req[t].key # k
        /\ req[t].stage \in {"insert", "undo"} => req[t].key # k
  BY <1>1 DEF LoginInv, MakingInv
<1>a. \A t \in Slots : Busy(t) => req[t].by \in Uids
  BY DEF TypeOK, Request, Busy
<1>b. CallersKnown'
  BY <1>1, <1>3, <1>4, <1>9, <1>a DEF LoginInv, CallersKnown, Busy
<1>c. TargetsKnown'
  BY <1>1, <1>3, <1>4, <1>9 DEF LoginInv, TargetsKnown, Busy
<1>d. LosingInv'
  BY <1>2, <1>4 DEF LoginInv, LosingInv, Busy
<1>e. MakingInv'
  BY <1>2, <1>3, <1>4, <1>9 DEF LoginInv, MakingInv, KeyInv, Keyed, Busy
<1> QED
  BY <1>5, <1>6, <1>8, <1>b, <1>c, <1>d, <1>e DEF LoginInv

LEMMA DeleteOwnStep ==
  ASSUME TypeOK, KeyInv, LoginInv, NEW u \in Uids, DeleteOwn(u)
  PROVE  TypeOK' /\ KeyInv' /\ LoginInv'
<1>1. /\ logins' = [logins EXCEPT ![u] = Null] /\ lost' = lost \cup {u} /\ changes' \in 0..MaxChanges
      /\ UNCHANGED <<rows, tokens, cache, req, held, linked, now>>
  BY AdminsAssumption DEF DeleteOwn, TypeOK
<1>2. /\ logins' \in [Uids -> Emails \cup {Null}] /\ lost' \subseteq Uids
      /\ \A v \in Uids : v # u => logins'[v] = logins[v]
  BY <1>1 DEF TypeOK
<1>3. TypeOK'
  BY <1>1, <1>2, ListTyped DEF TypeOK
<1>4. KeyInv'
  BY <1>1 DEF KeyInv, Keyed, Busy
<1>5. RowsKnown' /\ RowHasLogin' /\ CallersKnown' /\ TargetsKnown' /\ LosingInv'
  BY <1>1, <1>2 DEF LoginInv, RowsKnown, RowHasLogin, CallersKnown, TargetsKnown, LosingInv, Busy
<1>6. \A t \in Slots : Busy(t) /\ req[t].stage = "insert" => req[t].key # u /\ req[t].key \in Uids
  BY DEF DeleteOwn, MayCome, Busy, KeyInv, Keyed
<1>7. MakingInv'
  BY <1>1, <1>2, <1>6 DEF LoginInv, MakingInv, Busy
<1> QED
  BY <1>3, <1>4, <1>5, <1>7 DEF LoginInv

LEMMA TickStep ==
  ASSUME TypeOK, KeyInv, LoginInv, Tick
  PROVE  TypeOK' /\ KeyInv' /\ LoginInv'
<1>1. now' = now + 1 /\ now' \in 0..MaxTime /\ held' = Held /\ UNCHANGED <<rows, logins, tokens, cache, req, linked, lost, changes>>
  BY AdminsAssumption DEF Tick, TypeOK
<1>2. TypeOK'
  BY <1>1, HeldTyped DEF TypeOK
<1>3. KeyInv' /\ LoginInv'
  BY <1>1 DEF KeyInv, Keyed, LoginInv, RowsKnown, RowHasLogin, CallersKnown, TargetsKnown, LosingInv, MakingInv, Busy
<1> QED
  BY <1>2, <1>3

-----------------------------------------------------------------------------
(* What was found and what is kept                                         *)

LEMMA SinceEarlier ==
  ASSUME TypeOK, NEW u \in Uids, NEW r \in Roles, NEW t \in Int, NEW w \in Int, w <= t, Since(u, r, t)
  PROVE  Since(u, r, w)
<1>1. held[<<u, r>>] \in Int
  BY AdminsAssumption DEF TypeOK, Times, Never
<1> QED
  BY <1>1 DEF Since

LEMMA Numbers ==
  ASSUME TypeOK
  PROVE  TTL \in Int /\ TTL > 0 /\ Lookup \in Int /\ Lookup >= 0 /\ now \in Int
         /\ \A x \in Uids \X Roles : held[x] \in Int
  BY AdminsAssumption DEF TypeOK, Times, Never

\* What a step may do to what is remembered.
Memory == \/ held' = Held
          \/ held' = held /\ \A u \in Uids, r \in Roles : Holds(rows, u, r) => Holds(rows, u, r)'

\* Time passes only within what a lookup takes.
LEMMA RightKept ==
  ASSUME TypeOK, FoundInv, Memory, NEW t \in Slots, req'[t] = req[t],
         now' = now \/ (now' = now + 1 /\ (Busy(t) /\ req[t].stage \in {"link", "looking"} => now < req[t].at + Lookup))
  PROVE  Right(t)'
<1> SUFFICES ASSUME req'[t] # Null, req'[t].stage \in {"link", "looking"}
             PROVE  /\ req'[t].at \in 0..now' /\ now' <= req'[t].at + Lookup
                    /\ req'[t].stage = "looking" /\ req'[t].role # Null =>
                         req'[t].role \in Roles /\ Since(req[t].by, req[t].role, req[t].at)'
  BY DEF Right, Busy
<1>1. req'[t] = req[t] /\ Busy(t) /\ req[t].by \in Uids
  BY DEF Busy, TypeOK, Request
<1>a. req[t].at \in 0..now /\ now <= req[t].at + Lookup
  BY <1>1 DEF FoundInv, Right
<1>2. req[t].at \in 0..now' /\ now' <= req[t].at + Lookup
  BY <1>1, <1>a, Numbers
<1>3. ASSUME req[t].stage = "looking", req[t].role # Null
      PROVE  req[t].role \in Roles /\ Since(req[t].by, req[t].role, req[t].at)'
  <2> DEFINE u == req[t].by
             r == req[t].role
             a == req[t].at
  <2>1. r \in Roles /\ Since(u, r, a) /\ a \in Int /\ a <= now
    BY <1>1, <1>a, <1>3, Numbers DEF FoundInv, Right
  <2>2. u = req'[t].by /\ r = req'[t].role /\ a = req'[t].at
    BY <1>1
  <2> HIDE DEF u, r, a
  <2>3. u \in Uids
    BY <1>1 DEF u
  <2>4. held' = Held => Held[<<u, r>>] >= a
    BY <2>1, <2>3, HeldTyped DEF Since
  <2>5. held' = held => Holds(rows', u, r) \/ held[<<u, r>>] >= a \/ held' = Held
    BY <2>1, <2>3 DEF Since, Memory, Holds
  <2>6. Holds(rows', u, r) \/ held'[<<u, r>>] >= a
    BY <2>4, <2>5 DEF Memory
  <2> QED
    BY <2>1, <2>2, <2>6 DEF Since, Holds, r
<1> QED
  BY <1>1, <1>2, <1>3

\* A step that looks nothing up leaves what was found as it was.
LEMMA FoundKept ==
  ASSUME TypeOK, FoundInv, Memory, now' = now,
         \A t \in Slots : (Busy(t) /\ req[t].stage \in {"link", "looking"})' => req'[t] = req[t]
  PROVE  FoundInv'
<1>1. ASSUME NEW t \in Slots, (Busy(t) /\ req[t].stage \in {"link", "looking"})' PROVE Right(t)'
  BY <1>1, RightKept
<1> QED
  BY <1>1 DEF FoundInv, Right

LEMMA CacheKept ==
  ASSUME TypeOK, CacheInv, Memory, now' \in {now, now + 1}, cache' = cache
  PROVE  CacheInv'
<1> SUFFICES ASSUME NEW v \in Servers, NEW u \in Uids, cache[<<v, u>>] # Null
             PROVE  /\ cache[<<v, u>>].until <= now' + TTL
                    /\ \/ Holds(rows', u, cache[<<v, u>>].role)
                       \/ held'[<<u, cache[<<v, u>>].role>>] >= cache[<<v, u>>].until - TTL - Lookup
  BY DEF CacheInv, Since, Holds
<1> DEFINE c == cache[<<v, u>>]
<1>1. c.until \in Int /\ c.role \in Roles
  BY AdminsAssumption DEF TypeOK, Cached
<1>2. c.until <= now + TTL /\ (Holds(rows, u, c.role) \/ held[<<u, c.role>>] >= c.until - TTL - Lookup)
  BY DEF CacheInv, Since
<1> HIDE DEF c
<1>3. c.until - TTL - Lookup <= now
  BY <1>1, <1>2, Numbers
<1>4. CASE held' = Held
  BY <1>1, <1>2, <1>3, <1>4, HeldTyped, Numbers DEF c
<1>5. CASE held' = held /\ (Holds(rows, u, c.role) => Holds(rows', u, c.role))
  BY <1>1, <1>2, <1>5, Numbers DEF c
<1>6. held' = Held \/ (held' = held /\ (Holds(rows, u, c.role) => Holds(rows', u, c.role)))
  BY <1>1 DEF Memory, Holds
<1> QED
  BY <1>4, <1>5, <1>6

\* The steps of a request that is let in, or on its way in or out.
Within(s) ==
  \/ Over(s)
  \/ \E u \in Uids, e \in Emails, o \in Offers : CreateLogin(s, u, e, o)
  \/ CreateRow(s)
  \/ \E k \in Keys, o \in Offers : UpdateRead(s, k, o)
  \/ UpdateWrite(s)
  \/ \E k \in Keys : DeleteRead(s, k)
  \/ DeleteRow(s) \/ DeleteLogin(s)

LEMMA WithinIs ==
  ASSUME TypeOK, NEW s \in Slots, Within(s)
  PROVE  /\ Memory /\ UNCHANGED <<cache, now>>
         /\ \A t \in Slots : t # s => req'[t] = req[t]
         /\ Busy(s) /\ (req'[s] = Null \/ req'[s].stage \in {"insert", "undo", "update", "delete", "unlink"})
         /\ req'[s] = Null \/ req[s].stage \in {"in", "insert", "delete"}
<1>1. CASE Over(s)
  BY <1>1 DEF Over, Ends, TypeOK, Memory, Busy, Holds
<1>2. ASSUME NEW u \in Uids, NEW e \in Emails, NEW o \in Offers, CreateLogin(s, u, e, o)
      PROVE  /\ Memory /\ UNCHANGED <<cache, now>>
             /\ \A t \in Slots : t # s => req'[t] = req[t]
             /\ Busy(s) /\ req'[s].stage = "insert" /\ req[s].stage = "in"
  <2>1. Memory /\ UNCHANGED <<cache, now>>
    BY <1>2 DEF CreateLogin, Memory, Holds
  <2> QED
    BY <1>2, <2>1 DEF CreateLogin, TypeOK, Request, Busy
<1>3. CASE CreateRow(s)
  BY <1>3 DEF CreateRow, Goes, Ends, Memory, TypeOK, Request, Busy
<1>4. ASSUME NEW k \in Keys, NEW o \in Offers, UpdateRead(s, k, o)
      PROVE  /\ Memory /\ UNCHANGED <<cache, now>>
             /\ \A t \in Slots : t # s => req'[t] = req[t]
             /\ Busy(s) /\ req'[s].stage = "update" /\ req[s].stage = "in"
  <2>1. Memory /\ UNCHANGED <<cache, now>>
    BY <1>4 DEF UpdateRead, Memory, Holds
  <2> QED
    BY <1>4, <2>1 DEF UpdateRead, TypeOK, Request, Busy
<1>5. CASE UpdateWrite(s)
  <2>1. Memory /\ UNCHANGED <<cache, now>>
    BY <1>5 DEF UpdateWrite, Memory
  <2> QED
    BY <1>5, <2>1 DEF UpdateWrite, Ends, TypeOK, Busy
<1>6. ASSUME NEW k \in Keys, DeleteRead(s, k)
      PROVE  /\ Memory /\ UNCHANGED <<cache, now>>
             /\ \A t \in Slots : t # s => req'[t] = req[t]
             /\ Busy(s) /\ req'[s].stage = "delete" /\ req[s].stage = "in"
  <2>1. Memory /\ UNCHANGED <<cache, now>>
    BY <1>6 DEF DeleteRead, Memory, Holds
  <2> QED
    BY <1>6, <2>1 DEF DeleteRead, TypeOK, Request, Busy
<1>7. CASE DeleteRow(s)
  <2>1. Memory /\ UNCHANGED <<cache, now>>
    BY <1>7 DEF DeleteRow, Memory
  <2> QED
    BY <1>7, <2>1 DEF DeleteRow, Goes, TypeOK, Request, Busy
<1>8. CASE DeleteLogin(s)
  <2>1. Memory /\ UNCHANGED <<cache, now>>
    BY <1>8 DEF DeleteLogin, Memory, Holds
  <2> QED
    BY <1>8, <2>1 DEF DeleteLogin, Ends, TypeOK, Busy
<1> QED
  BY <1>1, <1>2, <1>3, <1>4, <1>5, <1>6, <1>7, <1>8 DEF Within

LEMMA WithinTimes ==
  ASSUME TypeOK, FoundInv, CacheInv, NEW s \in Slots, Within(s)
  PROVE  FoundInv' /\ CacheInv'
<1>1. /\ Memory /\ UNCHANGED <<cache, now>>
      /\ \A t \in Slots : t # s => req'[t] = req[t]
      /\ req'[s] = Null \/ req'[s].stage \in {"insert", "undo", "update", "delete", "unlink"}
  BY WithinIs
<1>2. \A t \in Slots : (Busy(t) /\ req[t].stage \in {"link", "looking"})' => req'[t] = req[t]
  BY <1>1 DEF Busy
<1> QED
  BY <1>1, <1>2, FoundKept, CacheKept

LEMMA HitTimes ==
  ASSUME TypeOK, FoundInv, CacheInv, NEW s \in Slots, NEW v \in Servers, NEW u \in Uids, Hit(s, v, u)
  PROVE  FoundInv' /\ CacheInv'
<1>1. Memory /\ UNCHANGED <<cache, now>>
  BY DEF Hit, Memory, Holds
<1>2. \A t \in Slots : (Busy(t) /\ req[t].stage \in {"link", "looking"})' => req'[t] = req[t]
  BY DEF Hit, New, TypeOK, Busy
<1> QED
  BY <1>1, <1>2, FoundKept, CacheKept

\* What is found now was held now.
LEMMA LookTimes ==
  ASSUME TypeOK, FoundInv, CacheInv, NEW s \in Slots, NEW v \in Servers, NEW u \in Uids, Look(s, v, u)
  PROVE  FoundInv' /\ CacheInv'
<1>1. Memory /\ UNCHANGED <<cache, now, rows, held>>
  BY DEF Look, Memory, Holds
<1>2. PICK r : /\ req' = [req EXCEPT ![s] = r] /\ r.at = now /\ r.by = u
               /\ r.stage = "link" \/ (r.stage = "looking" /\ r.role = Found(u))
  <2>1. CASE req' = [req EXCEPT ![s] = New(u, v, "looking", Found(u), Null)]
    <3> DEFINE r == New(u, v, "looking", Found(u), Null)
    <3>1. r.at = now /\ r.by = u /\ r.stage = "looking" /\ r.role = Found(u)
      BY DEF New
    <3> QED
      BY <2>1, <3>1
  <2>2. ASSUME NEW k \in OfEmail(tokens[u]), req' = [req EXCEPT ![s] = New(u, v, "link", Null, k)]
        PROVE  \E r : /\ req' = [req EXCEPT ![s] = r] /\ r.at = now /\ r.by = u
                      /\ r.stage = "link" \/ (r.stage = "looking" /\ r.role = Found(u))
    <3> DEFINE r == New(u, v, "link", Null, k)
    <3>1. r.at = now /\ r.by = u /\ r.stage = "link"
      BY DEF New
    <3> QED
      BY <2>2, <3>1
  <2> QED
    BY <2>1, <2>2 DEF Look
<1>3. req'[s] = r /\ \A t \in Slots : t # s => req'[t] = req[t]
  BY <1>2 DEF TypeOK
<1>4. Found(u) # Null => Found(u) \in Roles /\ Holds(rows, u, Found(u))
  BY FoundIsRole
<1>5. now \in 0..now /\ now <= now + Lookup
  BY Numbers DEF TypeOK
<1>6. Right(s)'
  <2>1. req'[s].at \in 0..now' /\ now' <= req'[s].at + Lookup
    BY <1>1, <1>2, <1>3, <1>5
  <2>2. req'[s].stage = "looking" /\ req'[s].role # Null =>
          req'[s].role \in Roles /\ Holds(rows', req'[s].by, req'[s].role)
    BY <1>1, <1>2, <1>3, <1>4
  <2> QED
    BY <2>1, <2>2 DEF Right, Since, Holds
<1>7. ASSUME NEW t \in Slots, t # s PROVE Right(t)'
  BY <1>1, <1>3, <1>7, RightKept
<1> QED
  BY <1>1, <1>6, <1>7, CacheKept DEF FoundInv

LEMMA LinkTimes ==
  ASSUME TypeOK, KeyInv, FoundInv, CacheInv, LoginInv, NEW s \in Slots, Link(s)
  PROVE  FoundInv' /\ CacheInv'
<1> DEFINE k == req[s].key
           u == req[s].by
           found == IF rows[k] # Null /\ rows[k].status = "Active" THEN rows[k].role ELSE Null
           r == New(u, req[s].srv, "looking", found, Null)
<1>1. Memory /\ UNCHANGED <<cache, now>> /\ u \in Keys /\ k \in Keys
  BY DEF Link, Memory, TypeOK, Request, KeyInv, Keyed, Busy, Keys
<1>2. req' = [req EXCEPT ![s] = r]
  BY DEF Link
<1>3. found # Null => found \in Roles /\ Holds(rows', u, found)
  <2> SUFFICES ASSUME found # Null PROVE found \in Roles /\ Holds(rows', u, found)
    OBVIOUS
  <2>1. rows[k] # Null /\ rows[k].status = "Active" /\ found = rows[k].role /\ rows[k] \in Row
    BY <1>1 DEF TypeOK
  <2>2. rows' = [rows EXCEPT ![u] = rows[k], ![k] = Null] /\ rows[u] = Null
    BY <2>1 DEF Link
  <2>3. rows'[u] = rows[k]
    BY <1>1, <2>1, <2>2 DEF TypeOK
  <2> QED
    BY <2>1, <2>3 DEF Holds, Row
<1> HIDE DEF found
<1>4. r.at = now /\ r.by = u /\ r.stage = "looking" /\ r.role = found
  BY DEF New
<1> HIDE DEF r
<1>5. req'[s] = r /\ \A t \in Slots : t # s => req'[t] = req[t]
  BY <1>2 DEF TypeOK
<1>6. now \in 0..now /\ now <= now + Lookup
  BY Numbers DEF TypeOK
<1>7. Right(s)'
  BY <1>1, <1>3, <1>4, <1>5, <1>6 DEF Right, Since, Holds, Busy
<1>8. ASSUME NEW t \in Slots, t # s PROVE Right(t)'
  BY <1>1, <1>5, <1>8, RightKept
<1> QED
  BY <1>1, <1>7, <1>8, CacheKept DEF FoundInv

\* What was found is kept for TTL from when it is answered, and it was answered in
\* time.
LEMMA LetInTimes ==
  ASSUME TypeOK, FoundInv, CacheInv, NEW s \in Slots, LetIn(s)
  PROVE  FoundInv' /\ CacheInv'
<1> DEFINE u == req[s].by
           r == req[s].role
<1>1. /\ Busy(s) /\ req[s] \in Request /\ u \in Uids /\ req[s].srv \in Servers /\ r \in Roles
      /\ req[s].at \in Int /\ now <= req[s].at + Lookup /\ Since(u, r, req[s].at)
  BY Numbers DEF LetIn, TypeOK, Request, FoundInv, Right, Busy
<1>2. /\ cache' = [cache EXCEPT ![<<req[s].srv, u>>] = [until |-> now + TTL, role |-> r]]
      /\ UNCHANGED <<rows, held, now>> /\ Memory
  BY DEF LetIn, Memory, Holds
<1>3. \A t \in Slots : (Busy(t) /\ req[t].stage \in {"link", "looking"})' => req'[t] = req[t]
  BY <1>1 DEF LetIn, Goes, TypeOK, Request, Busy
<1>4. FoundInv'
  BY <1>2, <1>3, FoundKept
<1>5. Since(u, r, now + TTL - TTL - Lookup)
  BY <1>1, Numbers DEF Since
<1>6. ASSUME NEW v \in Servers, NEW w \in Uids, cache'[<<v, w>>] # Null
      PROVE  /\ cache'[<<v, w>>].until <= now + TTL
             /\ \/ Holds(rows, w, cache'[<<v, w>>].role)
                \/ held[<<w, cache'[<<v, w>>].role>>] >= cache'[<<v, w>>].until - TTL - Lookup
  <2>1. CASE <<v, w>> = <<req[s].srv, u>>
    <3>1. cache'[<<v, w>>] = [until |-> now + TTL, role |-> r]
      BY <1>1, <1>2, <2>1 DEF TypeOK
    <3>2. cache'[<<v, w>>].until = now + TTL /\ cache'[<<v, w>>].role = r /\ w = u
      BY <2>1, <3>1
    <3> HIDE DEF u, r
    <3> QED
      BY <1>5, <3>2, Numbers DEF Since
  <2>2. CASE <<v, w>> # <<req[s].srv, u>>
    <3>1. cache'[<<v, w>>] = cache[<<v, w>>]
      BY <1>1, <1>2, <2>2 DEF TypeOK
    <3> QED
      BY <1>6, <3>1 DEF CacheInv, Since
  <2> QED
    BY <2>1, <2>2
<1>7. CacheInv'
  BY <1>2, <1>6 DEF CacheInv, Since, Holds
<1> QED
  BY <1>4, <1>7

LEMMA RefuseTimes ==
  ASSUME TypeOK, FoundInv, CacheInv, NEW s \in Slots, Refuse(s)
  PROVE  FoundInv' /\ CacheInv'
<1>1. UNCHANGED <<rows, held, now>> /\ Memory
  BY DEF Refuse, Memory, Holds
<1>2. \A t \in Slots : (Busy(t) /\ req[t].stage \in {"link", "looking"})' => req'[t] = req[t]
  BY DEF Refuse, Ends, TypeOK, Busy
<1>3. \A v \in Servers, w \in Uids : cache'[<<v, w>>] # Null => cache'[<<v, w>>] = cache[<<v, w>>]
  BY DEF Refuse, TypeOK
<1>4. CacheInv'
  BY <1>1, <1>3 DEF CacheInv, Since, Holds
<1> QED
  BY <1>1, <1>2, <1>4, FoundKept

LEMMA OtherTimes ==
  ASSUME TypeOK, FoundInv, CacheInv,
         Tick \/ (\E u \in Uids, e \in Emails : UpdateSelf(u, e)) \/ (\E u \in Uids : DeleteOwn(u))
  PROVE  FoundInv' /\ CacheInv'
<1>1. CASE Tick
  <2>1. Memory /\ now' = now + 1 /\ req' = req /\ cache' = cache
    BY <1>1 DEF Tick, Memory
  <2>2. \A t \in Slots : Right(t)'
    BY <1>1, <2>1, RightKept DEF Tick, Busy
  <2> QED
    BY <2>1, <2>2, CacheKept DEF FoundInv
<1>2. ASSUME NEW u \in Uids, NEW e \in Emails, UpdateSelf(u, e)
      PROVE  FoundInv' /\ CacheInv'
  <2>1. /\ rows' = [rows EXCEPT ![u].email = e] /\ rows[u] \in Row /\ u \in Keys
        /\ UNCHANGED <<cache, req, held, now>>
    BY <1>2 DEF UpdateSelf, TypeOK, Keys
  <2>2. \A v \in Keys : rows'[v] = IF v = u THEN [rows[u] EXCEPT !.email = e] ELSE rows[v]
    BY <2>1 DEF TypeOK
  <2>3. /\ [rows[u] EXCEPT !.email = e].role = rows[u].role /\ [rows[u] EXCEPT !.email = e].status = rows[u].status
        /\ [rows[u] EXCEPT !.email = e] \in Row
    BY <2>1 DEF Row
  <2>4. \A v \in Uids, r \in Roles : Holds(rows, v, r) => Holds(rows', v, r)
    BY <2>1, <2>2, <2>3, AdminsAssumption DEF Holds, Keys
  <2>5. Memory
    BY <2>1, <2>4 DEF Memory, Holds
  <2> QED
    BY <2>1, <2>5, FoundKept, CacheKept
<1>3. ASSUME NEW u \in Uids, DeleteOwn(u)
      PROVE  FoundInv' /\ CacheInv'
  <2>1. Memory /\ UNCHANGED <<cache, now, req>>
    BY <1>3 DEF DeleteOwn, Memory, Holds
  <2> QED
    BY <2>1, FoundKept, CacheKept
<1> QED
  BY <1>1, <1>2, <1>3

-----------------------------------------------------------------------------
(* The theorems                                                            *)

IInv == TypeOK /\ KeyInv /\ LoginInv /\ FoundInv /\ CacheInv

LEMMA InitIInv == Init => IInv
<1> SUFFICES ASSUME Init PROVE IInv
  OBVIOUS
<1>1. TypeOK
  BY AdminsAssumption DEF Init, TypeOK, Times, Never, Holds, Keys
<1>2. \A s \in Slots : ~Busy(s)
  BY DEF Init, Busy
<1>3. KeyInv /\ FoundInv
  BY <1>2 DEF KeyInv, FoundInv, Right
<1>4. LoginInv
  BY <1>2, AdminsAssumption DEF Init, LoginInv, RowsKnown, CallersKnown, TargetsKnown, MakingInv, LosingInv, RowHasLogin
<1>5. CacheInv
  BY DEF Init, CacheInv
<1> QED
  BY <1>1, <1>3, <1>4, <1>5 DEF IInv

LEMMA NextIInv == IInv /\ [Next]_vars => IInv'
<1> SUFFICES ASSUME IInv, [Next]_vars PROVE IInv'
  OBVIOUS
<1> USE DEF IInv
<1>1. ASSUME NEW s \in Slots, Gentles(s) PROVE TypeOK' /\ KeyInv' /\ LoginInv'
  BY <1>1, GentleSteps, GentleLogins
<1>2. ASSUME NEW s \in Slots, NEW v \in Servers, NEW u \in Uids, Hit(s, v, u) \/ Look(s, v, u) PROVE IInv'
  BY <1>2, <1>1, HitTimes, LookTimes DEF Gentles
<1>3. ASSUME NEW s \in Slots, Link(s) PROVE IInv'
  BY <1>3, LinkStep, LinkTimes
<1>4. ASSUME NEW s \in Slots, LetIn(s) \/ Refuse(s) PROVE IInv'
  BY <1>4, <1>1, LetInTimes, RefuseTimes DEF Gentles
<1>5. ASSUME NEW s \in Slots, Within(s) PROVE IInv'
  <2>1. TypeOK' /\ KeyInv' /\ LoginInv'
    BY <1>5, <1>1, CreateLoginStep, CreateRowStep, UpdateWriteStep, DeleteRowStep, DeleteLoginStep DEF Within, Gentles
  <2> QED
    BY <1>5, <2>1, WithinTimes
<1>6. ASSUME NEW u \in Uids, NEW e \in Emails, UpdateSelf(u, e) PROVE IInv'
  BY <1>6, UpdateSelfStep, OtherTimes
<1>9. ASSUME NEW u \in Uids, DeleteOwn(u) PROVE IInv'
  BY <1>9, DeleteOwnStep, OtherTimes
<1>7. CASE Tick
  BY <1>7, TickStep, OtherTimes
<1>8. CASE UNCHANGED vars
  <2>1. TypeOK' /\ KeyInv' /\ LoginInv'
    BY <1>8 DEF vars, TypeOK, KeyInv, Keyed, LoginInv, RowsKnown, CallersKnown, TargetsKnown, MakingInv, LosingInv,
                RowHasLogin, Busy
  <2>2. FoundInv' /\ CacheInv'
    BY <1>8 DEF vars, FoundInv, Right, CacheInv, Since, Holds, Busy
  <2> QED
    BY <2>1, <2>2
<1> HIDE DEF IInv
<1> QED
  BY <1>2, <1>3, <1>4, <1>5, <1>6, <1>7, <1>8, <1>9 DEF Next, Within

LEMMA Always == Spec => []IInv
  BY InitIInv, NextIInv, PTL DEF Spec

\* For any list and any overlapping creations, removals and deletions of accounts:
\* whoever createAdmin put on the list has a login, until removed, until his row is
\* linked to another uid or he deletes his account, and unless createAdmin did not
\* learn that the row was written
\* (admins.service.ts:140-186, 248-259).
THEOREM MadeAdminsCanSignIn == Spec => []RowHasLogin
<1>1. IInv => RowHasLogin
  BY DEF IInv, LoginInv
<1> QED
  BY <1>1, Always, PTL

LEMMA LetInRecently ==
  ASSUME IInv, Next, NEW s \in Slots, req'[s] # Null, req'[s].stage = "in",
         req[s] = Null \/ req[s].stage = "looking"
  PROVE  LET x == <<req'[s].by, req'[s].role>>
         IN  Holds(rows, x[1], x[2]) \/ now - held[x] <= TTL + Lookup - 1
<1> USE DEF IInv
<1>1. req'[s] # req[s] /\ (Busy(s) => req[s].stage = "looking")
  BY DEF Busy
<1>2. ASSUME NEW t \in Slots, NEW v \in Servers, NEW u \in Uids, Hit(t, v, u)
      PROVE  Holds(rows, req'[s].by, req'[s].role) \/ now - held[<<req'[s].by, req'[s].role>>] <= TTL + Lookup - 1
  <2> DEFINE r == cache[<<v, u>>].role
             z == cache[<<v, u>>].until
  <2>1. t = s /\ req'[s] = New(u, v, "in", r, Null)
    BY <1>1, <1>2 DEF Hit, TypeOK
  <2>2. req'[s].by = u /\ req'[s].role = r
    BY <2>1 DEF New
  <2>3. r \in Roles /\ z \in Int /\ now < z /\ (Holds(rows, u, r) \/ held[<<u, r>>] >= z - TTL - Lookup)
    BY <1>2, AdminsAssumption DEF Hit, Fresh, TypeOK, Cached, CacheInv, Since
  <2> HIDE DEF r, z
  <2>4. held[<<u, r>>] \in Int
    BY <2>3, Numbers
  <2>5. Holds(rows, u, r) \/ now - held[<<u, r>>] <= TTL + Lookup - 1
    BY <2>3, <2>4, Numbers
  <2> QED
    BY <2>2, <2>5
<1>3. ASSUME NEW t \in Slots, LetIn(t)
      PROVE  Holds(rows, req'[s].by, req'[s].role) \/ now - held[<<req'[s].by, req'[s].role>>] <= TTL + Lookup - 1
  <2> DEFINE u == req[s].by
             r == req[s].role
             a == req[s].at
  <2>1. t = s /\ Busy(s) /\ req[s].stage = "looking" /\ r # Null /\ req'[s] = [req[s] EXCEPT !.stage = "in", !.at = 0]
        /\ req[s] \in Request
    BY <1>1, <1>3 DEF LetIn, TypeOK, Busy
  <2>2. req'[s].by = u /\ req'[s].role = r /\ u \in Uids
    BY <2>1 DEF Request
  <2>3. r \in Roles /\ a \in Int /\ now <= a + Lookup /\ (Holds(rows, u, r) \/ held[<<u, r>>] >= a)
    BY <2>1, Numbers DEF FoundInv, Right, Since
  <2> HIDE DEF u, r, a
  <2>4. held[<<u, r>>] \in Int
    BY <2>2, <2>3, Numbers
  <2>5. Holds(rows, u, r) \/ now - held[<<u, r>>] <= TTL + Lookup - 1
    BY <2>3, <2>4, Numbers
  <2> QED
    BY <2>2, <2>5
<1>4. ASSUME NEW t \in Slots, NEW v \in Servers, NEW u \in Uids, Look(t, v, u) PROVE FALSE
  <2>1. \/ req' = [req EXCEPT ![t] = New(u, v, "looking", Found(u), Null)]
        \/ \E k \in Keys : req' = [req EXCEPT ![t] = New(u, v, "link", Null, k)]
    BY <1>4 DEF Look, OfEmail
  <2>2. New(u, v, "looking", Found(u), Null).stage = "looking" /\ \A k \in Keys : New(u, v, "link", Null, k).stage = "link"
    BY DEF New
  <2> QED
    BY <1>1, <2>1, <2>2 DEF TypeOK
<1>5. ASSUME NEW t \in Slots, Link(t) \/ Refuse(t) PROVE FALSE
  BY <1>1, <1>5 DEF Link, Refuse, New, Ends, TypeOK
<1>6. ASSUME NEW t \in Slots, Within(t) PROVE FALSE
  BY <1>1, <1>6, WithinIs
<1>7. CASE Tick \/ (\E u \in Uids, e \in Emails : UpdateSelf(u, e)) \/ (\E u \in Uids : DeleteOwn(u))
  BY <1>1, <1>7 DEF Tick, UpdateSelf, DeleteOwn
<1> QED
  BY <1>2, <1>3, <1>4, <1>5, <1>6, <1>7 DEF Next, Within

\* For any servers, caches and times: nobody is let in, anywhere, in a role he has
\* not had for as long as a copy is kept and a lookup takes (auth.ts:115-131,
\* admins.service.ts:64-83).
THEOREM RevokedAreOut == Spec => RevokedSoonOut
<1>1. IInv /\ [Next]_vars =>
        [\A s \in Slots :
           (req'[s] # Null /\ req'[s].stage = "in" /\ (req[s] = Null \/ req[s].stage = "looking"))
             => LET x == <<req'[s].by, req'[s].role>>
                IN Holds(rows, x[1], x[2]) \/ now - held[x] <= TTL + Lookup - 1]_vars
  BY LetInRecently
<1> QED
  BY <1>1, Always, PTL DEF Spec, RevokedSoonOut
=============================================================================

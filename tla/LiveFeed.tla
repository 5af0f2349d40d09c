------------------------------ MODULE LiveFeed ------------------------------
(***************************************************************************)
(* The live state of one conclave on the phones.  Every change to the      *)
(* conclave notifies, at its commit, the one listening connection an       *)
(* instance of the server holds; the instance reads the state and writes   *)
(* it to every stream that is open.  Reading waits for the database, and   *)
(* everything else may happen meanwhile.                                   *)
(***************************************************************************)
EXTENDS Integers, FiniteSets

CONSTANTS Streams,    \* the phones' connections, each opened once
          MaxChanges, \* bound: the changes to the conclave
          MaxFaults   \* bound: what goes wrong with the database

ASSUME FeedAssumption == MaxChanges \in Nat /\ MaxFaults \in Nat

VARIABLES
  version,  \* of the conclave: how often it has changed
  listener, \* the listening connection
  retry,    \* whether the timer is set that connects again
  cast,     \* what became of the notification of each change
  stream,
  faults

vars == <<version, listener, retry, cast, stream, faults>>

Changes  == 1..MaxChanges
Versions == 0..MaxChanges

\* A broadcast reads the state and then writes what it has seen.
Cast == [stage : {"none", "sent", "reading", "writing", "over"}, seen : Versions]

\* "hungup" is a stream whose phone left while it was being opened; nothing takes
\* it off the subscribers again. best and last are of the states written to it.
Stream == [stage : {"off", "connecting", "reading", "joining", "open", "closed", "hungup"},
           gone : BOOLEAN, seen : Versions, best : Versions, last : Versions]

Init ==
  /\ version = 0
  /\ listener = "none" /\ retry = FALSE
  /\ cast = [v \in Changes |-> [stage |-> "none", seen |-> 0]]
  /\ stream = [s \in Streams |-> [stage |-> "off", gone |-> FALSE, seen |-> 0,
                                  best |-> 0, last |-> 0]]
  /\ faults = 0

Subscribers == {s \in Streams : stream[s].stage \in {"open", "hungup"}}

Over(v) == [cast[v] EXCEPT !.stage = "over"]

-----------------------------------------------------------------------------
(* A change and its broadcast                                              *)

\* notifyConclaveChanged, at the commit: whoever listens is told.
Change ==
  /\ version < MaxChanges
  /\ version' = version + 1
  /\ cast' = [cast EXCEPT ![version + 1].stage =
                IF listener = "listening" THEN "sent" ELSE "over"]
  /\ UNCHANGED <<listener, retry, stream, faults>>

\* Slip: one broadcast at a time is enough.
NotifiedIdle(v) ==
  /\ cast[v].stage = "sent"
  /\ \A w \in Changes : cast[w].stage = "sent" => v <= w
  /\ cast' = [cast EXCEPT ![v].stage =
                IF Subscribers = {} \/ \E w \in Changes : cast[w].stage \in {"reading", "writing"}
                THEN "over" ELSE "reading"]
  /\ UNCHANGED <<version, listener, retry, stream, faults>>

\* Notifications arrive in the order of the commits; a broadcast for nobody ends.
Notified(v) ==
  /\ cast[v].stage = "sent"
  /\ \A w \in Changes : cast[w].stage = "sent" => v <= w
  /\ cast' = [cast EXCEPT ![v].stage = IF Subscribers = {} THEN "over" ELSE "reading"]
  /\ UNCHANGED <<version, listener, retry, stream, faults>>

Read(v) ==
  /\ cast[v].stage = "reading"
  /\ cast' = [cast EXCEPT ![v] = [stage |-> "writing", seen |-> version]]
  /\ UNCHANGED <<version, listener, retry, stream, faults>>

\* A read that fails ends the broadcast.
ReadFails(v) ==
  /\ cast[v].stage = "reading" /\ faults < MaxFaults
  /\ cast' = [cast EXCEPT ![v] = Over(v)]
  /\ faults' = faults + 1
  /\ UNCHANGED <<version, listener, retry, stream>>

Shown(s, seen) == [s EXCEPT !.best = IF seen > @ THEN seen ELSE @, !.last = seen]

Write(v) ==
  /\ cast[v].stage = "writing"
  /\ stream' = [s \in Streams |-> IF s \in Subscribers THEN Shown(stream[s], cast[v].seen)
                                  ELSE stream[s]]
  /\ cast' = [cast EXCEPT ![v] = Over(v)]
  /\ UNCHANGED <<version, listener, retry, faults>>

-----------------------------------------------------------------------------
(* The listening connection                                                *)

\* It breaks: what was on its way is lost, and in two seconds it connects again.
Break ==
  /\ listener = "listening" /\ faults < MaxFaults
  /\ listener' = "none" /\ retry' = TRUE
  /\ cast' = [v \in Changes |-> IF cast[v].stage = "sent" THEN Over(v) ELSE cast[v]]
  /\ faults' = faults + 1
  /\ UNCHANGED <<version, stream>>

Retry ==
  /\ retry
  /\ retry' = FALSE
  /\ listener' = IF listener = "none" THEN "connecting" ELSE listener
  /\ UNCHANGED <<version, cast, stream, faults>>

Connect ==
  /\ listener = "connecting"
  /\ listener' = "listening"
  /\ stream' = [s \in Streams |-> IF stream[s].stage = "connecting"
                                  THEN [stream[s] EXCEPT !.stage = "reading"] ELSE stream[s]]
  /\ UNCHANGED <<version, retry, cast, faults>>

\* It cannot be made: the streams that wait for it are refused, and nobody tries
\* again before the next one is opened.
ConnectFails ==
  /\ listener = "connecting" /\ faults < MaxFaults
  /\ listener' = "none"
  /\ stream' = [s \in Streams |-> IF stream[s].stage = "connecting"
                                  THEN [stream[s] EXCEPT !.stage = "closed"] ELSE stream[s]]
  /\ faults' = faults + 1
  /\ UNCHANGED <<version, retry, cast>>

-----------------------------------------------------------------------------
(* A stream                                                                *)

\* subscribe, until ensureListener has done its work ...
Subscribe(s) ==
  /\ stream[s].stage = "off"
  /\ listener' = IF listener = "none" THEN "connecting" ELSE listener
  /\ stream' = [stream EXCEPT ![s].stage = IF listener = "listening" THEN "reading"
                                           ELSE "connecting"]
  /\ UNCHANGED <<version, retry, cast, faults>>

\* ... the state is read ...
ReadFirst(s) ==
  /\ stream[s].stage = "reading"
  /\ stream' = [stream EXCEPT ![s].stage = "joining", ![s].seen = version]
  /\ UNCHANGED <<version, listener, retry, cast, faults>>

ReadFirstFails(s) ==
  /\ stream[s].stage = "reading" /\ faults < MaxFaults
  /\ stream' = [stream EXCEPT ![s].stage = "closed"]
  /\ faults' = faults + 1
  /\ UNCHANGED <<version, listener, retry, cast>>

\* ... and written, and the stream joins the subscribers.
Join(s) ==
  /\ stream[s].stage = "joining"
  /\ stream' = [stream EXCEPT ![s] = [Shown(stream[s], stream[s].seen) EXCEPT
                                        !.stage = IF stream[s].gone THEN "hungup" ELSE "open"]]
  /\ UNCHANGED <<version, listener, retry, cast, faults>>

\* The phone leaves. The set of subscribers goes with the last of them, and a
\* broadcast that holds it writes to nobody who comes later.
Leave(s) ==
  /\ stream[s].stage = "open"
  /\ stream' = [stream EXCEPT ![s].stage = "closed"]
  /\ cast' = [v \in Changes |-> IF Subscribers = {s} /\ cast[v].stage \in {"reading", "writing"}
                                THEN Over(v) ELSE cast[v]]
  /\ UNCHANGED <<version, listener, retry, faults>>

\* The phone leaves while its stream is being opened: the close comes before
\* anybody listens for it.
HangUp(s) ==
  /\ stream[s].stage \in {"connecting", "reading", "joining"} /\ ~stream[s].gone
  /\ stream' = [stream EXCEPT ![s].gone = TRUE]
  /\ UNCHANGED <<version, listener, retry, cast, faults>>

-----------------------------------------------------------------------------
Next == \/ Change \/ Break \/ Retry \/ Connect \/ ConnectFails
        \/ \E v \in Changes : Notified(v) \/ Read(v) \/ ReadFails(v) \/ Write(v)
        \/ \E s \in Streams : Subscribe(s) \/ ReadFirst(s) \/ ReadFirstFails(s) \/ Join(s)
                                \/ Leave(s) \/ HangUp(s)

\* Whatever the database and the timers owe comes in the end.
Fairness == /\ WF_vars(Retry) /\ WF_vars(Connect)
            /\ \A v \in Changes : WF_vars(Notified(v)) /\ WF_vars(Read(v)) /\ WF_vars(Write(v))
            /\ \A s \in Streams : WF_vars(ReadFirst(s)) /\ WF_vars(Join(s))

Spec == Init /\ [][Next]_vars /\ Fairness

-----------------------------------------------------------------------------
(* Properties                                                              *)

TypeOK ==
  /\ version \in Versions
  /\ listener \in {"none", "connecting", "listening"} /\ retry \in BOOLEAN
  /\ cast \in [Changes -> Cast] /\ stream \in [Streams -> Stream]
  /\ faults \in 0..MaxFaults

\* A stream that is open when a change is notified is written that change, or a
\* later one, however the phones beside it come and go (live.service.ts:102-132).
ChangesArrive ==
  \A s \in Streams, v \in Changes :
    stream[s].stage = "open" /\ cast[v].stage = "sent"
      ~> stream[s].best >= v \/ stream[s].stage # "open" \/ faults > 0

\* A stream is written the current state, then every change
\* (live.service.ts:111).
NothingMissed ==
  \A s \in Streams, v \in Changes :
    stream[s].stage = "open" /\ version >= v
      ~> stream[s].best >= v \/ stream[s].stage # "open" \/ faults > 0
=============================================================================

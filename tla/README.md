# The 1-2-1 conclave backend in TLA+

The backend runs *conclaves*: members register, admins seat them at tables in
rounds, an admin runs the rounds on a shared clock, and phones that may be
offline upload attendance and referrals. It is a set of identical Node servers
over one Postgres database (READ COMMITTED), with Firebase for sign-in and
pushes, Razorpay for payments and blob storage for agendas. All coordination is
in the database: row locks, conditional updates and unique keys.

## Inventory

| Component | State | Operations | How it interacts |
|---|---|---|---|
| Conclave lifecycle, live rounds (`services/conclave.service.ts`) | the conclave's row | create, update, open and close registration, cancel, lock, start, pause, resume, close, complete, change mode, extend, change move break; `listConclaves` corrects statuses | one row lock per operation (`mutate`); closing, listing and starting read or time something before they lock |
| Round clock (`domain/roundClock.ts`) | none: a pure function of the row and the time | live round and phase, `materialize` | used by rounds, sweep, sync, live feed, statistics |
| Auto-complete sweep (`services/autocomplete.service.ts`) | the same row | complete what the clock ended | every minute on every server, `SKIP LOCKED` |
| Schedule generation (`services/schedule.service.ts`, `domain/captains.ts`) | schedule in the row, roles and tables of the registrations | generate, generate again | locks the row, reads the roster |
| Seating engine (`engine/`) | none that outlives a call: working tables, met pairs | choose captains, validate, seat, audit | called by schedule generation |
| Registration (`services/registration.service.ts`) | registrations | open order, register, withdraw | Razorpay before the transaction; row lock inside |
| Members and roles (`services/conclaveMembers.service.ts`, `role.service.ts`) | registrations | add, edit, remove, set role, permit | shares the row lock |
| Payment ledger (`services/payments.service.ts`) | payments | webhook events, revenue | Razorpay delivers late, twice, out of order |
| Offline sync (`services/sync.service.ts`) | attendance, referrals | upload and merge | phones retry until acknowledged |
| 1-2-1 meetings (`services/oneToOnes.service.ts`) | requests between members | create, respond, remind | advisory lock per pair; reminder claimed by an update |
| Live feed (`services/live.service.ts`) | subscribers and listener of one server | subscribe, broadcast, reconnect | Postgres NOTIFY to server-sent events |
| Admins, authorisation (`services/admins.service.ts`, `middleware/auth.ts`) | allowlist, 60 s cache per server | look up, link, create, edit, remove | Firebase login beside a row |
| Profiles and files (`services/user.service.ts`, `storage.service.ts`) | profile, its copies in registrations, photos, agendas | save, delete, set photo, set agenda | the registration services write the profile too, in transactions of their own |
| Settings, regions, categories, notifications, audit, statistics, HTTP | rows, caches | edits and reads | no rule of the components above depends on an order of theirs |

What is hard: operations that decide on something read before the lock
(`closeRound`, `listConclaves`, `startRound`'s timestamp, everything checked
before a transaction); shared instead of exclusive locks (`addMember`); a clock
that is never stored but computed from an anchor, which every change of pace
must pin; the minute's sweep against admins; phones and Razorpay that repeat and
reorder; rows that cannot be locked because they do not exist yet; two systems
written one after the other (Firebase or storage, and Postgres); caches and
streams of one server among several. `PROJECT.json` lists these, under `hazards`, at their
lines.

What makes each component correct, in short: rounds only move forward, one at a
time, and last as long as they were given; a conclave has one life; the roster
of a locked schedule is fixed, seats are not oversold, a payment counts once;
an uploaded mark or referral is not lost and a captain's mark wins; a reminder
goes out at most once; a subscriber is sent what changes; a delivered seating is
one that the audit accepts; revenue is money that was captured; a removed admin is
out within a minute; a field copied between a profile and a registration stays
the same in both.

## Modules

| Module | What it is | Code |
|---|---|---|
| `RoundClock` | the clock as operators of a row | `domain/roundClock.ts` |
| `Conclave` | state machine of one conclave's row and the requests in flight | `conclave.service.ts`, `autocomplete.service.ts` |
| `ConclaveLife` | abstract: planned, live round by round, over | what `Conclave` implements |
| `MCConclave` | instances for TLC | |
| `ConclaveProofs` | proofs about `RoundClock`, `Conclave`, its refinement of `ConclaveLife`, and `Referrals` | |
| `Registration` | roster, limit, payment, seats and the requests in flight | `registration.service.ts`, `conclaveMembers.service.ts`, `role.service.ts`, `schedule.service.ts` |
| `MCRegistration` | instances for TLC | |
| `RegistrationProofs` | proofs | |
| `Attendance` | phones, uploads and the attendance rows of a round | `sync.service.ts`, `domain/scheduleIndex.ts` |
| `Referrals` | phones, uploads and referral rows; extends `Conclave`, whose steps go on meanwhile | `sync.service.ts`, `referrals.service.ts` |
| `MCAttendance`, `MCReferrals` | instances for TLC | |
| `AttendanceProofs` | proofs | |
| `Seating` | captains, validation, placement round by round | `engine/`, `domain/captains.ts`, `schedule.service.ts` |
| `SeatingProofs` | proofs | |
| `PaymentLedger` | what Razorpay has done, its deliveries, the ledger | `payments.service.ts`, `webhook.controller.ts` |
| `PaymentLedgerProofs` | proofs | |
| `OneToOne` | meetings, requests in flight, the sweeps of several instances | `oneToOnes.service.ts` |
| `OneToOneProofs` | proofs | |
| `LiveFeed` | versions of a conclave, the listener, broadcasts and streams of a server | `live.service.ts` |
| `Admins` | allowlist, logins, caches, requests | `admins.service.ts`, `middleware/auth.ts`, `user.service.ts` |
| `Profiles` | a member's profile, its copies, the photo and an agenda, row locks | `user.service.ts`, `registration.service.ts`, `conclaveMembers.service.ts`, `storage.service.ts`, `conclave.service.ts` |
| `AdminsProofs`, `ProfilesProofs` | proofs | |
| `MCSeating`, `MCPaymentLedger`, `MCOneToOne`, `MCLiveFeed`, `MCAdmins`, `MCProfiles` | instances for TLC | |

### RoundClock and Conclave

`row` is the conclave's database row, reduced to the columns its rules read.
Time is relative: `row.age` is how many minutes ago the stored anchor
(`currentRoundStartedAt`) lies, so that `Tick` makes every anchor older and no
absolute time is kept; the length of pauses is `row.elapsed`
(`roundElapsedMsBeforePause`). `date` is where now lies in the registration dates
and the conclave's day. `req` holds requests in flight on any server. A start
takes its timestamp (`AskStart`), waits and then locks (`StartRound`); a close is
decided on an unlocked read (`AskClose`) and done under the lock (`CloseRound`,
`CloseLastRound`); a correction is read (`ReadForFix`) and written later
(`ApplyFix`). Every other operation runs under the lock and is one step. A
refused request changes nothing and is no step. `Refuse` gives up a request in
flight, which also stands for the crash of its server: nothing else is lost,
because an operation is one transaction.

Left out: descriptions and other data (agendas are in `Profiles`); the other-room check of
`startRound` (the module holds one conclave); deletion; notifications.
`GenerateSchedule` stands for a roster the engine can seat.

### Registration

`con` is the same row as the roster's rules see it. Its field `open` is what both
the stored flag and the evaluation of overrides and dates say, which `Conclave`
models in full; `planned` is any status before round 1. `reg` are the
registrations, `charged` the members whose order Razorpay says is paid, `rq` the
requests in flight: `register` is checked (`CheckRegister`) before its transaction
(`Register`); `addMember` is checked (`CheckAdd`), then shares the row lock and
counts (`Count`), then inserts (`Add`). Whoever takes the row FOR UPDATE waits
for those between `Count` and `Add` (`Unshared`); those who share it do not.
Of a payment only `paid` is kept (pending, failed, refunded and none are alike to
every rule), and whether it names an order. `con.limit` is the column `memberLimit`, 0
where there is none; `updateConclave` may set it to any of `Limits` whoever is registered
(`UpdateLimit`). `rq[c].beside` is kept for the properties: whom other additions inserted
since this one counted.

Left out: the clash with another conclave's time, the profile fields (in
`Profiles`), the creation of sign-ins, custom table counts and business categories (which only
refuse more), and a change of the fee while an order is open.

### Attendance

`phone` holds the marks on the phones, `stored` the rows, `up` the uploads in
flight. A seat is a member in a round. The server checks the schedule by the member and
the round in the upload, and finds, locks and writes the row by the id in it
(`sync.service.ts:134-164`), without comparing the two: so rows are kept by `Ids`, and
`MarkOf` says for which seat each phone uses each id. `docs/API.md` (the sync example)
has every phone use one id for one seat; the module does not assume it. A stored mark
remembers the seat it was made of (`of`), which the table does not, for the
properties. A phone sends everything it has not seen acknowledged (`Send`),
perhaps while an earlier upload is still under way. The server's transaction is
`Begin`, the `select ... for update` that finds and locks the rows there are,
and `Save`, the upserts and the commit; `Answer` brings the ids back. `Lose`
stands for a lost request, a rolled back transaction (an aborted deadlock among
them), a crash and a lost answer. Two uploads that lock the same existing row
run one after the other; because the second merges with the latest version, the
model lets them overlap and reads `stored` in `Save`.

Left out: the words of a mark are not compared, times are not kept, and the
schedule (`CaptainOf`) is fixed, as it is once round 1 has started. Not modelled either: one
phone that uses an id for two seats, a batch that names an id twice, and an id that a row of another
conclave has.

### Referrals

`made` are the referrals on the phones, with the age their phone believes they
have; `inSlot` and `steady` record for the properties what no code keeps: that the
referral was made in its slot by the server's clock, and that its round's start
has not been moved since. `book` are the rows, `pings` how often the recipient
was told. `Receive` reads the conclave's row without a lock and looks for the
referral; `Create` inserts or `Restate` updates its state; `Tell` notifies after
the commit; `Answer` acknowledges. `UpdateOutcome` is the recipient's report. The
conclave is the module `Conclave` itself: pauses, mode changes, starts, closes and
the sweep are its actions, and `Minute` is its `Tick` with the phones' clocks.

Left out: edits of the conclave while it runs, extensions (no constant of the
instances offers one), referrals without a timestamp, the pair's shared table
(both are taken to have shared it), notes and amounts.

### Seating

A roster and the options of one request (`job`) go through the phases of
`generateForConclave`: captains are resolved (`ResolveCaptains`; `KeepFresh` and
`KeepFirst` are the passes of `spread`), the gate is asked (`Validate`, with one
operator for each rule of `engine/validation.ts`), and the engine seats round by
round, one member per step (`PlaceMember`), records pairs (`RecordRound`) and
delivers or gives up. The seed is replaced by any order; what a seed can decide is
the order of members of equal frequency, of tables and of captains. `AuditRound` is
the hard part of `engine/audit.ts`, used as the definition of a good round.

Left out: V1, V2, V6 and V12 and the W warnings (rows always have a category and
distinct ids; the rest are advice), the stored statistics other than met pairs.

### PaymentLedger

`issued` is what has happened to the payments at Razorpay, and with it the events
that may be delivered, any number of times and in any order; `acked` are those
answered with a 200. A delivery is `Begin`, the `select ... for update` that locks
the row if there is one, and `Write`, the upsert; `Ignore` is the early return for a
failure after a capture. `Fail` is a handler that throws or dies: it is answered with
a 500 or not at all and Razorpay comes again.

### OneToOne

`meetings` is the table; `asking` are the transactions that hold a pair's advisory
lock (`Create` checks under it, `Insert` commits); `sending` is what each instance's
sweep has claimed and has yet to push. `gaps` records when no instance was up to
sweep. A tick is the five minutes between sweeps.

### LiveFeed

`version` counts the committed changes of one conclave; a notification is sent with
each (`cast`), broadcast if somebody is subscribed (`Notified`), read and written
later. A stream is opened through `Connect`, `Subscribe`, `ReadFirst` and `Join`, in
this order, with the listener possibly breaking in between. What a stream was sent is
its best and its last version.

### Admins

`rows` is the allowlist, under uids or the keys of rows that were made before their
owner signed in; `logins` are Firebase's; `tokens` the emails in the tokens people may
have, which outlive a login; `cache` is `adminCache` of each server. A request is let in
by a copy (`Hit`) or a lookup (`Look`, perhaps `Link`, then `LetIn` or `Refuse`), and
does its work under the record it was let in with: creating and removing are two steps
each, in Firebase and in the table, updating reads before it writes. The insert of
`createAdmin` may fail, or commit and lose its answer, and in both cases the login is deleted
again (`CreateRow`). `deleteOwnAccount` (`DeleteOwn`) deletes the caller's login and leaves the row on
the list. `held`, `linked` and `lost` (whose login went in one of the last two ways) are kept for
the properties. Assumed: nobody signs in with a login that `createAdmin`
is still making.

### Profiles

One member. `profile` is the row of `users`, `rows` what each registration copies of
it, `work` the requests in flight with the row locks they have (`user`, `held`) and wait
for. Saving locks the profile and then the registrations one after the other; an
admin's edit locks the registration and then the profile; both write at their commit.
Files are uploaded before and deleted after the row is written.

What is written goes field by field. `Fields` names one of each kind: `company` (and with it
name and category), `phone`, `email`, and `chapter` (and with it region, state and country). A
request gives a field, with data or empty, or does not give it (`Null`). `Patched` writes what is
given. `Copied` is what a save writes to the registrations: a company, phone or email
given with data, and a phone or email taken away if it comes with one of those; never
the chapter (`user.service.ts:358-366`). `Shared` is what goes the other way: what a registration
(but for the email) or an edit gives with data (`registration.service.ts:170-173`,
`conclaveMembers.service.ts:292-295`). `step` holds the fields of registrations last written
together with the profile's.

Left out: the columns a save alone writes (location, designation and the like), the defaults of region and
country, and the member who is an admin (for one, `updateMe` writes the profile and not its copies).

## Runs

| Run | Bounds | Shows |
|---|---|---|
| `conclave_rounds` | 3 rounds of 2 minutes, move breaks of 1 and 3, one extension, 2 requests that may wait 1 minute | the clock and rounds properties and `ImplementsLife` |
| `conclave_edits` | 2 rounds, dates of registration open and of the day past, edits that write `completed`, 2 requests (among them two corrections by `listConclaves` at once), fairness | what survives edits and corrections; `LeftAloneEnds` |
| `registration` | 2 members, no limit or a limit of 1, tables of 2, 2 requests | the roster properties |
| `attendance` | 3 phones that use one id, two of them for one seat and the third for its own, a captain's second mark, 2 uploads in flight, fairness | the attendance properties, `EverythingSynced` |
| `referrals` | 1 referral, 2 rounds of 3 minutes, both modes, clocks off by up to a minute, a delay of 4 minutes, 2 uploads and 1 admin request in flight | the referral properties |
| `referrals_slot` | as `referrals` | a referral of its slot is refused and lost (below) |
| `seating` | every roster of 6 people in up to 3 categories (up to renaming people), tables of 2 and 3 with every set of designated captains, 4 tables of 2 with 5 captains; 2 rounds | the engine's properties |
| `ledger` | 1 payment of 3, 2 handlers, refunds of up to two parts, one failing delivery, fairness | the ledger's properties |
| `one_to_one` | one member asks another, 3 meetings, 2 requests in flight, 2 instances of which one stops once, a month of 2 ticks | the meeting properties |
| `live` | 3 changes, 2 streams, one break or failure, fairness | `ChangesArrive` |
| `admins` | 3 uids and one older key, 3 emails, 1 server, 2 requests in flight, 2 changes, a cache of 2 ticks and a lookup of 1 | `RowHasLogin`, `RevokedSoonOut` |
| `profiles` | 2 registrations, a company and an email, requests that give both or another email with no company, 2 files, 2 requests in flight | `FilesMatch`, `InStep`, `OnlyEditsCollide` |

Why the bounds suffice. Three rounds are needed for a request about one round to
meet a later one and for a skipped round; a move break both shorter and longer
than the talk phase makes a pin matter; two requests are the smallest race.
`MaxAge` lies beyond the sweep's 24-hour rule, after which a conclave is over.
Two members are enough to oversell one seat; three are needed to generate for
fewer people than are registered. `Additions` bounds what admins add: a paid
captain by a superadmin, an unpaid member by an ordinary admin. Rows of
different ids do not affect each other, so one row that the captain and the member of
its seat and somebody of another table write is enough, with a batch of two marks to tell one
row's result from the batch's. Two corrections that wait together, and everything an
admin can do in between, are the smallest overlap that matters to `listConclaves`. A delay of 4 minutes takes a referral
of round 1 into round 2, and one of
round 2 past the end of the conclave and the sweep.

Six people at tables of three are the smallest roster at which the greedy placement
can go wrong although a seating exists; two rounds make repeats matter; the proofs
cover all other sizes. Payments do not affect each other, and revenue is a sum over
them, so one is enough; pairs of members do not affect each other, nor the two directions
of one, whose advisory locks differ. A third request within a month needs three meetings. Three changes let
a broadcast of the first overtake the second and the third arrive in a gap. A cache of
two ticks is the shortest whose renewal differs from its refresh; two changes remove
an admin and do one thing more. Two requests are the smallest deadlock; two
registrations the smallest set an update can be halfway through; a company and an email
the two kinds of fields that a save copies differently when they are taken away (the proofs cover
all four); two files the replaced and the replacing.

Times are scaled: what matters of 60 to 300 s moves, 480 s and more of talk and
24 hours is stated in `TimesAssumption`, which TLC evaluates on each instance.

Fairness (`FairSpec`, only for `LeftAloneEnds`): time passes, the sweep, which
`setInterval` starts every minute, runs, dates pass, and a request in flight is
served or given up. No admin is assumed to do anything.

Fairness of uploads (only for `EverythingSynced`): a phone that has something to
send finds the server again and again and then sends (strong fairness, because
slots are taken by other uploads in between), an upload under way is answered or
lost, and from some moment on none is lost. Without the last no retry ever
succeeds.

Fairness of the ledger (for `LedgerCatchesUp`): a handler that has begun goes on, and
Razorpay delivers again what was not acknowledged; how often a handler fails is bounded.
Fairness of the live feed (for `ChangesArrive`): what the server itself does goes on, its
timer for reconnecting and a connection attempt among it; no stream has to stay open, and
nobody has to change anything. Breaks and failures are bounded by `faults`.

`CHECK_DEADLOCK FALSE` stands in the runs whose instance ends: a schedule is delivered
once, time, changes, meetings, payments and files are bounded.

Some properties hold only within limits that the module states.
`ClosedForGood` and `CompletedStays` speak of a row for which no correction that
`listConclaves` read earlier is yet to be written: none that opens registration, and none at all.
From then on no step, of any number of requests that overlap, opens the one or takes back the
other, and no later call of `listConclaves` finds anything to correct. A
correction read before still does both (below); registration itself is refused even then,
because `assertOpen` evaluates again (`registration.service.ts:31-43`). `NoSkip` excepts a change of mode while
paused, which can skip rounds: the paused clock of automatic mode may have
passed several rounds that materialize then makes real. The comment at
`conclave.service.ts:932-937` wants that "nothing jumps"; the code at 946 looks
after the waiting case of a clock that is not paused, not after this one.
`KeptUnlessMoved` and `MarksKept` state in their premises what the code does not
cover: a round's start that was moved, and an upload that began before the row was
there. `MarksAreTheirs` says whose the marks of a row are and of which seats, and not that these are one
seat: that takes phones that keep to the documented ids (`NoBorrowedAuthority`).
`NothingForgotten` speaks of rows a handler found: what two first deliveries write over each other
is outside it (`CaptureNeverDemoted`, below). `ChangesArrive` speaks of changes
while a stream is subscribed and the listener up; the break and the reconnection are steps
of the module, but nothing is promised of changes in between. `CountStillHolds`
is about what an addition counted; that two additions oversell is below. `RowHasLogin` excepts
linked rows, an answer that `createAdmin` lost and an account its owner deleted.
`RevokedSoonOut` allows the TTL and the time of one lookup: an answer that was under way when the record
changed is kept for a full TTL. `InStep` speaks of the fields that were last written
together with the profile's, until one is given in a form the code does not copy.
`OnlyEditsCollide` speaks of one member's requests: `generateForConclave`, which writes the registrations
of many members in one transaction (`schedule.service.ts:166-177`), is outside it.
`FilesMatch` accounts for every file left behind, in `left`,
and the code leaves some (below).

### Statements the code does not keep

Each is a definition of the module, quoted from the code or its documents. One has a run of
its own; for the others, put the statement in place of the properties of the configuration
named, with the change named, and TLC finds the violation within seconds.

| Statement | Configuration | Code | What it says, and what happens |
|---|---|---|---|
| `Referrals!ReferralsKept` | run `referrals_slot` | `sync.service.ts:206` | `sync.service.ts:22-25`: late ones are "accepted, never lost". A referral made in its slot before a pause and uploaded after it is judged by the moved start, refused and acknowledged |
| `Conclave!CancelIsTerminal` | `conclave_rounds` | `conclave.service.ts:660` | `docs/API.md:148`: "Terminal." Locking the schedule of a cancelled conclave plans it again |
| `Conclave!EndedMeansOver` | `conclave_rounds` | `conclave.service.ts:901` | `conclave.service.ts:898-900`: the early return is for a talk phase that has "already ended". In automatic mode Close measures from the anchored round and does nothing on a later one still being talked in |
| `Conclave!ClosedOnceGenerated` | `conclave_edits` | `conclave.service.ts:1059` | `conclave.service.ts:270`: "closes registration for good". Of two corrections that two calls read of one row, the first is written, tables are generated, and the second opens registration again |
| `Conclave!OnlyUnplayedHealed` | `conclave_edits` | `conclave.service.ts:1060` | `conclave.service.ts:1039`: a "completed" that "no admin set and no round ran". The same second correction, written after the conclave was locked, started and completed, plans it again |
| `Registration!LimitIsKept` | `registration` | `conclaveMembers.service.ts:191` | `registration.service.ts:150-151`: lock the row, "not just share it". Two ordinary admins oversell the last seat; `CountStillHolds` shows that only such additions do |
| `Registration!OneCaptainPerTable` | `registration`, `Members <- ThreeMembers`, `Requests <- OneRequest` | `schedule.service.ts:166` | `schedule.service.ts:163`: "Roster follows the schedule". Generating again for active members only leaves a skipped captain at a table that has another one |
| `Attendance!CaptainBelieved` | `attendance` | `sync.service.ts:136` | `sync.service.ts:21`: "A captain's mark beats a member's self-mark". The first uploads of both do not lock each other (there is no row yet), and the later one drops the captain's acknowledged mark. `MarksKept` shows that this is the only way |
| `Attendance!RowsAreValidated` | `attendance` | `sync.service.ts:164` | `sync.service.ts:20`: "validated against the schedule". The row's id is not: an upload with the id of another seat's row takes it over, its captain's mark with it |
| `Seating!NoSeatingExists` | `seating`, `Requests <- SixFit` | `schedule.service.ts:129` | "no category-safe seating exists": for six people, two in each of three categories, at three tables of two one does, and the greedy placement misses it |
| `LiveFeed!NothingMissed` | `live` | `live.service.ts:114` | `live.service.ts:111`: "current state now, then every change". A change between the read (114) and the joining of the subscribers (124) is never sent |
| `PaymentLedger!CaptureNeverDemoted` | `ledger` | `payments.service.ts:74` | `payments.service.ts:58`: "A capture is never demoted by a late \"failed\"." The first deliveries find no row to lock, so a failure may write over a capture |
| `Admins!LinkedCanSignIn` | `admins` | `admins.service.ts:71` | `admins.service.ts:58-61`: the row is "re-keyed to the real uid". A token lasts longer than its login; a request with the token of a removed login takes the new row of the same email with it |
| `Profiles!KeptUpToDate` | `profiles` | `user.service.ts:358` | `user.service.ts:357`: "Keep registrations up to date with name/company/category/phone/email changes". A company taken away, and a phone or an email taken away with nothing else given, stays in them |

Seen while modelling, without a statement of their own:

- Conclave: an edit may write `running` itself (most
  theorems exclude it), and locking such a row sends it back to planned;
  `createConclave` with a terminal status leaves the stored flag open; `listConclaves` says it never
  re-opens "a conclave whose day has genuinely passed" (`conclave.service.ts:1041`), but asks so only of the
  row it read; a paused
  change from manual to automatic mode can skip rounds.
- Registration: `updateConclave` may set the limit below the number registered
  (`conclave.service.ts:439`); an order may be opened and
  paid for a full conclave (`registration.service.ts:82` does not look at the
  limit); a member may withdraw after registration closed, as long as there is no
  schedule (`registration.service.ts:207` against the comment at 193); roles and
  seating may change after the lock, until round 1 (`role.service.ts:23`,
  `schedule.service.ts:38` against `docs/SPEC.md:48`).
- Referrals: two more ways lead to
  `referrals_slot`: a late close of a round that has ended, and, in automatic mode,
  the sweep itself: it sets the last round but leaves the anchor
  (`autocomplete.service.ts:85`), after which the last round's late referrals are
  judged as if it had begun with the anchored round. Before round 1 there is no live
  round and a referral for any round passes (`sync.service.ts:200`). A resend with
  the state the giver's phone knows replaces the `Completed` that `updateOutcome`
  wrote (`sync.service.ts:240`).
- Seating: `repair` (`matcher.ts:203-232`) can never succeed: whom it could move
  has the category of the member without a seat, so the table he could move to
  was a candidate for that member. `docs/API.md:188` advises `autoFillCaptains` to
  fill up a set of designated captains; `schedule.service.ts:93-94` refuses a partly
  designated set, and lets the system choose only all of them, and then as many as the people need
  (`domain/captains.ts:58` does not pass the table count), so that a table count of
  one's own fails V8.
- PaymentLedger: a failure after a refund replaces it; a late `authorized` replaces
  `captured`; a redelivered capture replaces `refunded`; a second partial refund replaces the amount of the first;
  a refund that comes before its capture has no amount yet.
- OneToOne: a reminder is claimed before it is sent: an instance that stops in between loses
  it, and a meeting cancelled in between is still reminded of.
- LiveFeed: broadcasts read and write without an order, so the last one written may be the
  older state (`live.service.ts:105-108`); a reconnection that fails is not tried again
  (91) before somebody subscribes; a stream that closes before its close listener is set (128)
  stays among the subscribers.
- Admins: an update of a row that was linked meanwhile changes nothing and is reported and
  audited as done (`admins.service.ts:222-225`); an admin who was refused by one lookup may be
  let in by the late answer of an earlier one; two superadmins may demote each other; an update asks whom it may change of the
  row it read (`admins.service.ts:198`), and changes one whose role was raised meanwhile; removing a row
  whose owner never signed in leaves the login; an admin who deletes the account
  stays on the list without a login (`user.service.ts:404-412`), and so does one whose `createAdmin`
  lost the answer to its commit (`admins.service.ts:178`).
- Profiles: `updateMe` and `updateMember` deadlock
  (`user.service.ts:346, 359`, `conclaveMembers.service.ts:247, 297`); Postgres aborts one, whose caller
  gets an error. An edit or a registration updates the profile and one registration, and the member's
  others keep the old data; chapter, region, state and country go from a registration to the profile
  and not back; `addMember` inserts a copy of a profile read before its
  transaction; the first save beside a first registration leaves the two apart. Two
  uploads of an agenda leave one file behind (`conclave.service.ts:1176`), a deleted account
  its photo (`user.service.ts:404`), a photo without a profile itself (659, 663).

## Proofs

TLAPS proves, for every value of the constants under the named assumptions:

- `ConclaveProofs!TypeCorrect`: the row is well typed and its anchor lies in the
  past (`AnchorInPast`: the age is a natural number, and the frozen point of a
  paused clock lies between the anchor and now). The invariant is `ClockInv`.
  It is not enough to know types: that ages stay natural needs that pinning never
  puts an anchor in the future, which rests on the arithmetic of the clock
  (round offsets grow with the round; the rounds reached are
  an interval, so the live round is the last whose offset has passed; the time
  into it is natural).
- `ConclaveProofs!Seated`: a running conclave has a locked schedule and an
  anchored round of it. Assumes that no edit writes `running`. The strengthening
  `SeatInv` adds that a row whose round is at least 1 has a schedule, a lock and
  an anchor, that a running row's round is one of the schedule's, that a start in
  flight is of a real round, and that a correction in flight does not say
  `running`. `ClockIsSound` follows from both.
- `ConclaveProofs!RoundsMoveForward`, `NoRoundSkipped`, `TableTimeKept` and `SweepIsLate`,
  under the same assumption. The first three are one lemma, `RoundStep`: every step of a
  running conclave keeps `RoundKept`, which says what may happen to the live round and to the time in
  it. It rests on a few lemmas about rows instead of steps: pinning shows the round
  and the time it was pinned at (`Materialize`), a minute reaches at most the next round,
  because a round is longer than a minute, and a row whose anchor is its own live round
  shows that round until its time is up. `SweepIsLate` needs that the schedule, with every extension that is
  allowed, ends before the 24 hours are over (`TimesAssumption`).
- `ConclaveProofs!LifeImplemented`: the refinement of `ConclaveLife`. Each step maps to a
  step of it or none: the status moves only from planned to running by a start, and on to
  completed (`StatusStep`); the first start is of round 1 and shows it (`BeginsWithOne`),
  even if it waited for the lock; `RoundStep` covers the rest. `LifeInv`: before a
  conclave runs its stored round is 0, completed it is at least 1, a schedule has closed
  registration, and no correction is in flight. Assumes that no edit writes `running` or
  `completed`: with the second the conclave is over, for `listConclaves` to take back.
- `ConclaveProofs!CompletedIsFinal` and `RegistrationStaysClosed`, for any edits and any requests that
  overlap, corrections among them. `CorrectionsKept`: the corrections that are yet to be written are those that were, but
  for one that is written or given up and one that is read now. `CorrectionsClose`: a correction read of a
  row with a schedule does not open it. So where none is under way no step
  but a new reading brings one, and of a row that was completed by an admin or ran, or has a
  schedule, no reading does (`RegistrationStep` goes through all steps for the second).
- `ConclaveProofs!ReferralsAreKept`, `RecipientToldOnce`, `NoReferralAhead` and
  `ReferralsTyped`, without an assumption on edits (`Referrals` has none). `RefInv` joins three
  things. `Played`: the conclave started and is never planned again. `SlotOK`: a referral made in its slot
  and not acknowledged was made, by the row's clock, after the start of its round and within it, up to the
  tolerance, as long as nobody moved that start; so the judgement cannot refuse it (`Judgement`).
  `UploadOK` and `TellOK`: what an upload found out before stays so until it acts on it, and
  only the upload whose insert made the row may tell.
- `RegistrationProofs!RosterTyped` and `LockedRoster`: the roster of a locked
  schedule never changes. The strengthening `RosterInv`: a request about to
  insert found the schedule unlocked and, sharing the row, keeps it so; a locked
  schedule exists, so nobody withdraws.
- `RegistrationProofs!AdditionsCountRight` and `OnlineHasPaid`. The first: what a request that is
  about to insert counted was so when it counted (`CountsFirst`), and since then, because it shares the
  row, nobody registered or changed the limit, and the roster grew only by other additions, which it
  notes (`GrowsBeside`). The second rests on `Origins`:
  only `Register` makes a registration that a member made himself or that names an order;
  every other step leaves both as they were or makes it an admin's; and that a request in flight that
  names an order is of a member who paid one (`PaidRequests`) is kept because payments are not
  taken back.
- `AttendanceProofs!MarksTyped`, `MarksHaveAuthors`, `CommittedFirst` and
  `MarksStay`, for any tables, phones, use of ids and number of uploads. The strengthening
  `MarkInv`: an upload carries only marks of its sender's phone, of the seats they were made of, and
  one that has been saved left a row for each of its valid marks. Neither follows from the
  properties: the first is what makes the check of the sender's seat enough for
  `MarksAreTheirs`, the second what an acknowledgement rests on. Both last because
  rows and marks on phones never disappear. `NoBorrowedAuthority` adds, as a named hypothesis, what
  the server does not check: all phones use an id for one seat. Then the row is about that seat, and its
  captain's place was filled by that seat's captain.

- `SeatingProofs!SeatingTyped` and `RoundsAuditClean`, for any finite
  set of people and any jobs. The strengthening `SeatingInv`: captains differ and there is
  no round before they are settled; in a half-seated round everybody waits or sits at
  exactly one table, a captain at his own; tables keep to their size and to one person per
  category; and the categories cached at a table are those of its people. The cache is why
  it is needed: placement asks only the cache, the audit asks the people.
- `SeatingProofs!CaptainsAreSpread` and `RoomSuffices`. `SpreadInv`: while designated
  captains are thinned out, the categories kept so far are those used, or all are spanned
  already; a round-robin over the categories takes each once before any twice.
  `GateInv`: the engine has given up only for want of room. Whoever finds no table finds all
  tables full, or his category at each that has room; each of these is another person, so the
  chairs and people can be counted against each other by an injection.
- `OneToOneProofs!NobodyPestered`, `RemindersOnce` and `RemindersInTime`. The
  strengthening of the first, `AskInv`: one request of a pair is past its checks, and what
  it found is still so when it inserts, because whoever else would change it waits for the
  pair's lock, and an answer only takes pending requests away. Of the second, `SendInv`: a
  claim is held by one instance, or was sent, and its row says so. Of the third, `DueInv`: at every
  tick so far at which an unclaimed meeting was due, nobody was up.
- `ProfilesProofs!FilesAlwaysMatch`, `CopiesInStep` and `NoOtherDeadlock`, for any files,
  registrations, fields, contents and requests. `LockInv` says which stages hold which locks, and that one
  request has the profile; `CopyInv` that a save at the registrations that has something to copy has
  locked, or has yet to get to, every one with a field in step, so none is passed over; `FileInv` that a file
  waiting to be named, one about to be deleted and one that is named are never the same.
- `AdminsProofs!MadeAdminsCanSignIn` and `RevokedAreOut`, for any admins, servers and
  requests. `LoginInv` says that a login in the making, or taken back, is nobody's yet, and
  that a login about to be deleted has lost its row, unless the row is one of the exceptions that
  `RowHasLogin` names. `FoundInv` and `CacheInv` bound the
  age of what a lookup found and of what a server keeps: each was so when its lookup began,
  which was no longer ago than a lookup takes, and a copy lasts a TTL from there. Assumed of
  the first state: who is listed under a uid has a login (`scripts/createAdmin.ts` makes
  both), and the TTL is not zero.

- `PaymentLedgerProofs!LedgerTyped`, `LedgerForgetsNothing` and `RevenueIsTaken`, for any
  payments, handlers and failures. `LedgerInv`: a delivery that found its row has it locked
  alone, so what it read is what it changes; what the ledger counts was captured. The revenue
  is a sum over a set, and that it exists, and is bounded by its number of payments, goes by
  induction on the size of the set, written out as the absence of a smallest counterexample
  (`LeastNatural`).

The assumptions are those of the modules, which TLC evaluates on the instances: constants are
of their types, `Null` is none of the values it stands beside, the sets that are counted are
finite. Every one is weaker than what a deployment has.

Only model-checked: liveness (`LeftAloneEnds`, `EverythingSynced`, `LedgerCatchesUp`,
`ChangesArrive`), which is beyond the prover, and with it all of `LiveFeed`, whose property is
one of them.

## Plan

Done, each with its instance and runs: `RoundClock`, `Conclave` and `ConclaveLife`,
`Registration`, `Attendance`, `Referrals`, `Seating`, `PaymentLedger`, `OneToOne`, `Profiles`
and `Admins`, of which every safety property is proved; `LiveFeed` without proofs.

Left, in order of what matters most:

1. A second conclave, for the two rules that span several: the check that an admin runs one
   room (`conclave.service.ts:804`) and the clash of two registrations' times
   (`registration.service.ts:53`).
2. The state a stream is sent (`live.service.ts`), as a function of the row and the
   roster, against what the phones compute from the schedule.

## Not modelled

- Notifications, the audit trail, statistics: written after the fact or read; nothing
  depends on them. `Referrals` and `OneToOne` model when a push is sent, because how often
  is a rule.
- Settings, regions and categories: documents and rows of their own, which no rule of the
  components above depends on. The list of categories is read without a lock and replaced
  as a whole (`categories.service.ts:52`): two edits at once lose one, and after a read that
  failed, which reads as empty (`settings.repo.ts:23`), adding a category drops the others.
- Feedback: an upsert under a key, the last one wins.
- Presence, resolving a sign-in address, password resets: writes of a time, reads, and what
  Firebase does.
- Deletion of conclaves: a cascade of the database.
- HTTP layer (routes, validation of bodies, rate limits) and scripts: input checks and
  configuration. The roles a route asks for are left out of `Admins`.

# Verification of the virtual-tour backend

TLA+ models of the Go backend in this repository, the TLC configurations that check them on
small instances, and theorems TLAPS proves of them for every value of their constants.
Everything is translated from `src/`; paths below are relative to it.

    tlc -config otp_codes.cfg MCOtp        model-checks a run (the runs are listed below)
    tlapm OtpProofs.tla                    checks the proofs of a module

## 1. The system

A gin HTTP server over one Postgres database through gorm. Every request is served by a
goroutine of its own. `SkipDefaultTransaction` is set (`internal/db/db.go:41`) and the
isolation level is Postgres' default, READ COMMITTED, so except in the few places that open a
transaction every SQL statement commits alone and any two requests may interleave between
their statements. `gorm.Save` writes every column of the copy in memory, and inserts the row
if the UPDATE found none. Nothing but the database is shared; the process keeps no cache. So
the hard behaviours are those of read-then-write handlers: a value checked and used two
statements later, a copy saved over a newer row, an error of a statement that nobody looks
at, a process that stops between two statements.

| Component | State | Operations | Hard behaviour | Correct when |
|---|---|---|---|---|
| One-time-code store, `internal/accounts/otp.go` | table `email_otps` | `issue`, `verify` | overlapping calls, row locks, failed statements | a code works at most once, never after it was superseded; wrong guesses and issued codes are bounded |
| Accounts API, `internal/accounts/handlers.go`, `internal/auth` | table `users` | register, verify, resend, log in, forgot, reset | stale copies saved, ignored errors, a spent code without its effect | nobody is signed in or verified before the address was proved; verification is not lost |
| Account commands, `cmd/create-user`, `cmd/import-nimto-users` | `users`, owners of tours | upsert, import, claim | run next to the server | what they set stays |
| Tours, `internal/tours` | table `tours` | create, edit, publish, feature, delete | every edit is read, change, save all | one featured and one free tour per user; deleted tours stay deleted; an edit changes what it names |
| Building-scan rooms and floor-plan analysis, `internal/floorplan` | column `tours.building_scan` | save, delete and read a scan; analyse a picture | rooms are linked to photos listed before the save, for a row read before the listing | each room has a photo of its own, of its tour |
| Scenes, hotspots, overlays, `internal/tours` | their tables | create, update, delete, by tour and scene | no foreign key to tours, slugs used as ids, deletions that lock rows one by one | nothing is left without its parent, no deletion hangs |
| Play tours, `internal/tours/repo.go:550-611` | `play_tours`, `play_tour_scenes` | create, replace, delete | transactions that take locks in opposite orders | scenes of a play tour are those of one request |
| Object storage, `internal/storage/r2.go`, `internal/tours/service.go` | bucket | delete by prefix | a goroutine, started before the database decides; pages, refusals, errors that are logged | no object of a live tour is deleted, none of a dead one is kept |
| Migrations, `internal/migrate` | table `migrations`, the schema | run, rollback, check | a statement fails midway, two commands at once | what a version's statements did comes and goes with its record; versions come and go in order |
| Embed keys, `internal/embed` | `embed_tokens` | create, revoke, resolve | limit checked before the insert | revoked keys resolve to nothing, the limit holds |
| Payments, `internal/payment` | tables that nothing creates | limit, create, process | — | see section 7 |
| Contact form, e-mail, configuration, HTTP plumbing | — | — | — | see section 7 |

They interact through the database: accounts own tours, tours own scenes, the code store is
called by the accounts API only, every protected route reads `users` again through
`auth.AuthMiddleware`, and deleting a tour or a scene starts a goroutine for the bucket.

## 2. The modules

    CodeBook     what the code store promises                   abstract
    Otp          the code store, statement by statement         implements CodeBook
    Accounts     the accounts API and the commands              EXTENDS CodeBook
    Tours        the rows of tours: owner, slug, featured, paid
    TourContent  scenes, hotspots, overlays and play tours
    Migrate      the migrate command
    TourTables   what the next three share: ids, tables, listings
    EmbedKeys    the embed keys of a tour                       EXTENDS TourTables
    RoomLinks    which rooms keep their photo                   operators and their reference
    TourEdits    edits of a tour, the building scan             EXTENDS TourTables, RoomLinks
    Cleanup      deletions and the stored objects               EXTENDS TourTables
    MC*          instances for TLC; MCAroundTour has the last three
    *Proofs      theorems, of each module above that has state

**Otp.** A step is one SQL statement, or one event of a transaction. `otps` is the table in
the order of `created_at`; a row's `status` is the fate of the transaction that inserts it;
`clock` is `time.Now()`; `op[w]` is where worker `w` is inside `issue` or `verify`, with its
locals. `issue` is `IssueStart` (the cooldown), `IssueCount` (the hourly limit, whose failed
count reads as zero), `IssueUpdate` and `IssueLock` (the UPDATE fixes the rows it will touch,
then locks them one at a time, in an order of the database's choice, and keeps those it has while
it waits for the next), `IssueInsert` and `IssueCommit`; `IssueFail` rolls back from any
statement, and a commit may be acknowledged with an error. Issues that wait for each other's rows
stay so until the database ends one (`DeadlockDetected`). `verify` is `VerifyRead`, then
`VerifyMiss` (count the wrong guess) or `VerifyConsume` (the conditional UPDATE); both may
fail, which the code ignores or takes for a wrong code. A row an open transaction has locked
stays locked until it ends (`Locked`, `Free`, `WaitsFor`). A code is identified with its row, so `newCode` and
`hash` are gone: presenting row *i*'s code is presenting *i*, and 0 is a wrong guess. `hist`
is history the program never reads: acceptances, guesses, what each `issue` saw.

**CodeBook.** A code is unissued, live, accepted or dead. Issuing one may kill any live ones;
a live one is accepted once, or wasted. It says nothing of keys, time, statements or workers.

**Accounts.** The handlers over the code book: since `Otp` implements `CodeBook`, a call of
`issue` or `verify` is one step of the book (`SendCode`, `VerifyCode`) among the steps of
other requests. `about` gives a code its address and purpose, `users` is the table (its
domain: the addresses that have an account, e-mail is unique), `req[w]` is where worker `w`'s
handler is and the copy of the account it read. Each handler starts with its first read
(`Register`, `VerifyEmail`, `ResendCode`, `Login`, `ForgotPassword`, `ResetPassword`) and goes
on with `RegisterSave`/`RegisterCreate`, `SendCode`, `MailCode`, `VerifyCode`,
`MarkVerified`, `WritePassword`, `PromoteAdmin`, `RespondWithToken`. `Fail` ends a request at
any statement. `CreateUser` and `ImportUser` are the two commands; accounts are never
deleted, so what either decides in its first statement is decided by its write.

**Tours.** `tours` is the table, ids are numbers in the order of UUIDv7, and of a row the
owner, slug, featured and paid columns are kept: those some rule of the program reads or
writes. `CreateTour` (free or not), `CountTours` (featured or not) and `InsertTour` are
creation; `EditTour` stands for every handler that reads a tour and saves it whole
(`UpdateTour`, `UpdateTourPublishStatus`, `SaveBuildingScan`, `DeleteBuildingScan`);
`FeatureTour` reads, `UnfeatureAll` clears the flags of the asking user's tours, `SaveTour`
writes the copy; `DeleteTour` finds by id or slug and `DeleteRow` deletes by id; `Refuse` is
404 and 403. `trace` is history: copies that were out of date when saved, tours brought back.

**TourContent.** `rows` is all the tables: of a row it keeps `of`, where it belongs (the tour
of a scene or play tour as the request wrote it, the scene of a hotspot or overlay, the play
tour of a stop), and `to`, the scene a hotspot or a stop leads to. `op[w]` is where worker
`w` is. Most requests are a read, in which they may be refused, and then writes of single
statements: `Begin` and `WriteRows`. Hotspots and overlays have an action for each handler,
over `InsertMark`, `SaveMark` and `DeleteMark`, the repository's part; `CreateHotspot` stands
for both handlers that create one, since the repository makes the check of the second again. `DeleteTour`,
`DeleteScene`, `DeletePlayTour` and `UpdatePlayTour` are transactions: `Statements` lists
their statements in order; each is `Scan` (which rows, in an order of the database's choice),
`LockRow` for each of them and `NextStatement`; `Commit` makes everything visible at once.
`ConstraintFails`, `DeadlockDetected` and `Abandon` roll back. The database's part is
external to `src/`: row locks, the foreign keys gorm's AutoMigrate derives from the
associations of `models/tour.go` (`ParentsStand`, `Dangling`), waiting for them
(`HeldByOther`, `GoneByOther`), the end of deadlocks. `used` is history: the ids ever handed
out, and for play tours and stops the number of the request they came with; `late` in a
transaction is what others wrote while it ran.

**Migrate.** `schema` is the items (columns, indexes, tables) there are, each named with its
table, `records` the rows of table `migrations` by `executed_at`, `op[r]` where command `r` is. A
file is the chunks the splitter makes of it, each with the kind and the one item its statement adds
or drops; `Executable` is what the splitter keeps. `Connect` is `MustConnect`, which adds what the
models name; `Run`, `Rollback` and `CheckOnly` list the records; then each version is `BeginUp` or
`BeginDown` (or `Skip`, without a down file), an `Execute` per statement, and `RecordMigration` or
`RemoveRecord`, which stand for the change of the record and the commit right after it.

Locks and visibility are Postgres'. A statement sees the schema as committed, with its own
transaction's changes (`Seen`). It is `Moot` if IF EXISTS or IF NOT EXISTS leaves it nothing to do.
`ALTER TABLE` locks its table even then, `CREATE INDEX` takes a lock that others may share
(`Shares`), and `CREATE TABLE`, `DROP TABLE` and `DROP INDEX` lock only if they have something to do:
moot, they hold nothing, and another command may commit before this one does. Locks are kept to the
end of the transaction (`Granted`). Connecting is one step, which waits for the holders of the tables
it lacks something of. `StatementFails`, `RecordFails` (the unique version) and `Abort` end the
command; `Abort` is also what becomes of a deadlock, or of the creation of something another
transaction has created meanwhile. `overtaken` is history: the versions whose up or down file another
command has committed since this one listed the records.

**EmbedKeys.** `keys` is the table, `shown` the tours there are with `is_published`, `call[w]`
where worker `w`'s handler is. `CreateToken` finds the tour, `CountKeys` counts its active keys
(`TooMany`; a count that fails reads as zero, since its error is dropped) and `InsertKey`
inserts; `RevokeToken` and `RevokeKey` find and update; `ResolveToken` finds an active key,
`OpenTour` its tour, and `TouchKey` writes `last_used_at`. Tours are published and deleted in
between (`PublicationIsSaved`, `TourIsGone`). `blind` is history: keys inserted after a count
that failed.

**RoomLinks and TourEdits.** `Linked` is the loop both `SaveBuildingScan` and `Analyze` run over
the rooms they are given, one `LinkRoom` per room; `IsLinking` is what it is meant to compute;
`Sound` is what a posted scan must be and `Usable` what is dropped of an answer. In `TourEdits`
a row is `is_published` and `building_scan`, and `scenes` gives each scene its tour. `Edit` reads
the row and holds a copy, with the columns the request names (`UpdateTour`,
`UpdateTourPublishStatus`, `DeleteBuildingScan`, and `SaveBuildingScan` after `LinkRooms` has
listed the photos); `SaveTour` writes all of it. `Analyze`, `ListPhotos` and `ModelAnswers` are
the analysis, whose language model may answer anything. `Write` marks the copies others hold as
out of date. `past` is history: what was last asked of each column, what an out-of-date copy
wrote over, the photos a tour has had.

**Cleanup.** `standing` and `tourOf` are the rows, `bucket` the objects, each a scene or tour
with a number, its place in the listing. `DeleteTour`, `CollectScenes`, `DropTour` and
`DeleteScene`, `DropScene` are the requests; `Spawn` starts the goroutine before the
transaction, and `RollBack` fails the transaction and leaves the goroutine. `jobs[j]` is a
goroutine: the prefixes to do, the continuation token, the page. `ListPage` is a call of
ListObjectsV2, `DeletePage` of DeleteObjects, which may refuse objects without an error
(`Quiet`), `PrefixFails` an error of either. `Upload`, `SceneRowIsSaved`, `TourRowIsSaved` are
the other requests, `Crash` the end of the process. `fate` is history: owners for which a reason
is known why objects stay (`spared`), that lost objects (`robbed`), that are there although they
were to go (`back`).

The three write different columns and stores, and of each other's handlers they have the one
statement they can see; nothing is gained by interleaving them further. So `MCAroundTour` is
their disjoint union: a behaviour follows one `part`, chosen at the start.

## 3. What the runs check

| Run | Instance | Shows |
|---|---|---|
| `otp_codes`, load `codes` | 2 workers, 1 key, 2 codes, all statements may fail | `AcceptedOnce`, `GuessesCounted`, `GuessesBounded`, `RowsOnlyAge`; `ImplementsCodeBook`: the store implements the abstract book |
| `otp_codes`, load `limits` | 2 workers, 1 address, 2 purposes, 3 codes, 3 instants, `issue` only | `HourlyBounded`, `CooldownBounded`: overlapping calls overrun a limit by at most one code per extra worker |
| `otp_contention` | 2 workers, 1 key, 2 more codes after two live ones, fairness | `IssueInvalidatesWhatItSaw`, `NoSupersededAccept` where both workers want the same two rows; `EveryCallReturns`: issues lock them in opposite orders, are ended and rolled back, and nobody waits for ever |
| `accounts_overlap` | 2 workers, 1 address, 2 passwords, 2 codes, commands | `ProofBeforeAccess`, `TokenMeansVerified`, `VerifiedChangeOnlyByProof` |
| `accounts_sign_up_again` | 2 workers, 1 address | **violated**: a verification is written over by a sign-up |
| `tours_overlap` | 2 workers, user and admin, 3 tours | `FeaturedBounded`, `FreeToursBounded`, `RevivedOnlyByStaleSave` |
| `content_overlap` | 2 workers, 1 tour, 1 scene, 1 hotspot, 1 play tour, 2 stops | `BoundRowsHaveParents`, `StopsOfOneUpdate`, `DeletionComplete`: no deletion leaves more behind than was written while it ran |
| `content_ends` | 2 workers, 2 scenes that lead to each other, an overlay, a play tour with a stop, fairness | `EveryTransactionEnds`, and `DeletionComplete` where deletions cross |
| `content_by_slug` | 1 worker, 2 tours, one known by its slug | **violated**: a scene whose tour is gone |
| `migrate_overlap` | 3 commands, 3 versions, one without a down file | `InStepUnlessOvertaken`, `AppliedInOrder`, `RolledBackFromTheEnd` |
| `migrate_effect` | 1 command | **violated**: a version recorded without the effect of its up file |
| `migrate_stale_rollback` | 2 commands | **violated**: an index there whose version is no longer recorded |
| `around_tour`, part `keys` | 2 workers, 1 tour, 3 keys, limit 1 | `KeysBounded`, `RevokedForGood` |
| `around_tour`, part `edits` | 2 workers, 1 tour, 2 photos, 3 lists of rooms | `EditsKept`, `LinksArePhotos`; `RoomsLinked`: the loop computes its reference definition |
| `around_tour`, part `cleanup` | 1 request at a time and 2 goroutines, 1 tour, 2 scenes, 2 pages of objects | `NothingLeftBehind`, `LiveObjectsKept`; `EveryCleanupEnds` |

Each property of a passing run is broken by a small change of the model, kept beside the
definition it changes (`..._OffByOne`, `..._Swapped`, and so on): a bug of that kind in the
code would be found.

Several rules the code states fail, most of them when requests overlap. The project says both:
the rule as stated, with the run that refutes it, and what is left of it in every case.

### Disagreements found

1. `handlers_test.go:149`, "Signing up again with a verified email is refused": `Register`
   reads the account, finds it unverified, and saves the whole copy (`handlers.go:178`); if
   the address was verified in between it is unverified again, with the new password
   (`accounts_sign_up_again`). What holds: `VerifiedChangeOnlyByProof`.
2. `tours/repo.go:210`, "Then, delete all scenes belonging to this tour": `CreateScene` finds
   the tour by id or slug and stores what the URL held (`handlers.go:640`), the deletion looks
   for the id (`content_by_slug`). What holds: `DeletionComplete`.
3. `README.md:70`, "apply pending migrations": a chunk that starts with a comment line is
   dropped, with the statement that follows the comment (`migrate.go:38`), and the version is
   recorded all the same (`migrate_effect`). Of 003 only the last index is created; nothing of
   004, 006, 008, 010 and 012 to 015 is executed, which goes unnoticed since connecting adds the columns
   the models name. What holds: `InStepUnlessOvertaken`, of the statements that are executed.
4. `models/migration.go:5`, "Migration tracks which database migrations have been executed": a
   rollback deletes the record of a version it listed before its transaction began
   (`migrate.go:176`, `225`). `r1` lists 003 for rollback; `r2` rolls 003 back; `r1` executes
   `DROP INDEX IF EXISTS`, which finds nothing and holds nothing; `r2` runs 003 again and commits;
   `r1` deletes the new record and commits: the index is there, 003 is not recorded
   (`migrate_stale_rollback`). What holds: `InStepUnlessOvertaken` allows this to a command that
   another overtook, and never for a column.

More rules are not exact, and what is left of them is checked. `otp.go:55`, "issue creates
a new code (invalidating older ones)": two overlapping calls each consume what the other has
not committed yet, and both codes stay usable; `IssueInvalidatesWhatItSaw` holds.
"First tour is free" (`tours/service.go:285`) counts and inserts in
separate statements; `FreeToursBounded` holds. `tours/handlers.go:570`, "If featuring this tour,
unfeature all other tours first", unfeatures the tours of the user who asks, who may be an admin
and not the owner; `FeaturedBounded` holds for users no other admin helped. The limit of embed
keys is checked before the insert; `KeysBounded` holds. `DeletePrefix` counts every object it
asked to delete, refused ones included; `NothingLeftBehind` names that exception and the others.

## 4. Bounds, and why they are enough

Races here are between two requests, or a request and what a second one did before it ended:
two workers give every one of them, and the bounds that depend on the number of workers
(`GuessesBounded`, `HourlyBounded`, `CooldownBounded`, `FeaturedBounded`, `FreeToursBounded`,
`KeysBounded`) are stated in terms of it and reached. Three tours and three codes are one more than the
bound, so it could be exceeded. `otp_contention` starts with two live codes of one key, which two
overlapping calls of `issue` leave, and their cooldown passed (`TwoCodesInit`), since two issues can
wait for each other only if each wants two rows; from the empty table that takes four codes and three
instants. Time stands still there, as none of its properties reads it, and whoever verifies presents the
latest usable code (`Contention`), as a wrong guess waits for the same row as a right one. A behaviour of `otp_codes` chooses its load
at the start: `codes` (`CodesLoad`) has one key, as statements select by key, and two instants;
`limits` (`IssueLoad`) has the two keys of an address, as the hourly limit counts both purposes, and
calls `issue` alone, since neither limit reads what `verify` writes. A second code of the first load
is one whose check overlapped or failed. Limits are scaled down
(`MaxPerHour` 1 or 3 for 5, `MaxAttempts` 1 or 2 for 5, a cooldown of one tick); the proofs
leave them open. `MaxCodes`, `MaxTime`, `MaxLost` and `MaxTours` only cap counters.
The second load stops when codes and time are used up, so deadlock is checked in `otp_contention` and not in
`otp_codes`. Symmetry is used for safety only.

Ids of `TourContent` are handed out once, so its tables bound what is ever created. One scene,
one hotspot (which may lead to its own scene) and two stops are the least on which a deletion
meets a creation and two updates of a play tour can mix. Two scenes with a hotspot each are
the least on which deletions cross: `content_ends` starts there (`CrossedInit`, which
creations reach) and has, of the requests of single statements, which hold no lock while they
wait, those about overlays; `content_overlap` has those about hotspots.

Three commands of `Migrate` are one that is stale and two that change what it listed, one after
the other or at once. `migrate_stale_rollback` needs two. The files are small ones in the
manner of 001, 003, 007 and 016: two tables taken in opposite orders up and down, statements after comments, a version without a down file
between two that have one, a statement that fails when it is repeated, each kind of statement, a
column and an index that one version alone brings and takes away. Nothing is capped:
records are sets of versions, and commands start again for ever.

`around_tour` has one tour, since keys, edits and objects of two tours do not meet but for a
scene that moves, and `Elsewhere` is the tour it moves to. The limit of keys is 1 and three may
be created, one more than the bound. `MaxScenes` and `ListLimit` are 1 with two scenes, so a
listing leaves one out; `MaxRooms` is 2. The lists of rooms posted have two rooms of one photo,
rooms of too few, fitting and too many corners. A prefix has two objects and a page one, so the
token matters; the other scene and the tour have none, as the goroutine treats every prefix
alike. One worker deletes, one request after the other, while the goroutines of up to two
earlier ones run on and all other requests are steps of anybody: deletions meet through what
their goroutines do.

## 5. Fairness

`EveryCallReturns`, `EveryTransactionEnds` and `EveryCleanupEnds` need some. `OtpFairness` is strong fairness of the next statement of
each worker, or of the end of its transaction if it is deadlocked: a goroutine that can run is
scheduled, Postgres queues waiters for a row lock, so one that keeps becoming free is granted, and
looks for deadlocks. `ContentFairness` is the same for the
statements of a transaction, together with what ends it from the database's side: a foreign
key that fails, a deadlock Postgres finds. New calls, the clock and faults are not fair, so
neither of the first two rests on `IssueFail` or `Abandon`. `JobFairness` is weak fairness of the next step of
each goroutine that deletes: it is scheduled, and the store answers each call or the SDK gives
up with an error. Its steps are always possible, so weak is enough; that the store answers with
an error is not fair by itself, so a goroutine must also end if nothing ever fails, objects are
refused, and clients go on storing. Slots are interchangeable and the property is about the first.

## 6. What is proved

Each property of a passing run, but for the three of liveness, is a theorem for every value of the
constants, under the assumptions the modules name: workers and goroutines are finitely many, limits
and bounds are natural numbers, ids of different tables differ, tables and files are finite. The
bounds that only cap counters (`MaxCodes`, `MaxTours`, `MaxTime`, ...) are constants like others, so
no theorem depends on their values. Each argument below is of an inductive invariant, with a lemma
for each step, or each kind of step, of the module.

`OtpProofs`, for any finite set of workers, any addresses, limits and bounds:

| Theorem | Says |
|---|---|
| `TypeCorrect` | `OtpTypeOK` always |
| `CodeAcceptedOnce` | `AcceptedOnce` always |
| `IssueInvalidates` | `IssueInvalidatesWhatItSaw` always |
| `OnlyAge` | every step satisfies `RowsOnlyAge` |
| `SupersededNeverAccepted` | every step satisfies `NoSupersededAccept` |
| `HourlyLimit`, `CooldownLimit` | `HourlyBounded`, `CooldownBounded` always |
| `GuessCountKept`, `GuessLimit` | `GuessesCounted`, `GuessesBounded` always |
| `StoreIsCodeBook` | `ImplementsCodeBook`: the refinement of `CodeBook` |

`OtpTypeOK` alone is not inductive: a step that updates the row a worker's
local points to needs that row to exist. `TypeInv` adds `LocalsOK`: locals point into the
table, a worker about to commit owns a row outside those it consumes, and that row remembers
only rows its transaction consumes. The last part is what makes `IssueInvalidatesWhatItSaw`
inductive (`CodesInv`): at the commit, everything the new row saw is consumed in the same
step, and rows once consumed stay so. `AcceptedOnce` needs "accepted implies consumed" along
with it, as the conditional UPDATE only accepts a row that is not. `RowsAge` says of every
step that rows keep their place and only age; both action properties follow from it and
`CodesInv`.

The limits and the refinement need to know whose a pending row is: `RowsInv` says that a pending row
is untouched and one worker, and no other, is about to commit it, that locals are older than the
clock and that rows are in the order of their time. A limit then bounds together the rows charged to
an address or key and the calls that have passed the check (`LimitsInv`): a call passes only while
the rows alone are below it, and there are no more calls than workers, so the sum is at most
`MaxPerHour - 1` plus the workers. The window of the limit only moves on, and a commit turns a call
into a row. `GuessInv` is the same for guesses, with the workers on their way to an UPDATE
(`Missing`) on one side, and an equation, since the increment is the database's and overwrites
nothing. For the refinement each step of the store is a step of the book, or none: a commit issues one
code and kills those it consumes, which `CodesInv` knows to be live or dead, and `FitsBook` says that
there is room in the book for every code on its way.

`AccountsProofs`, for any workers, addresses and passwords, and any number of codes:

| Theorem | Says |
|---|---|
| `AccountsTyped` | `AccountsTypeOK` always |
| `ProofFirst` | `ProofBeforeAccess` always |
| `TokensGood` | `TokenMeansVerified` always |
| `ChangedByProof` | every step satisfies `VerifiedChangeOnlyByProof` |

`AccountsInv` says what a handler relies on in its place (`Placed`): one that will mark the account
verified, or set its password, has the proof; a copy that will be saved is unverified; a copy that is
verified says that the account still is, unless one of the two known ways of losing that has happened
(`Assured`). None of the three properties is inductive without it, since a verification is checked in
one statement and used two later; what others do in between is `Grows`: accounts, proofs and what is
assured only grow.

`ToursProofs`, for any finite set of workers, any users and slugs, and any number of tours:

| Theorem | Says |
|---|---|
| `ToursTyped` | `ToursTypeOK` always |
| `OnlyStaleSavesRevive` | `RevivedOnlyByStaleSave` always |
| `FreeToursStayBounded` | `FreeToursBounded` always |
| `FeaturedStayBounded` | `FeaturedBounded` always |

`ToursInv` says that ids are handed out once and nobody knows a tour under creation (`IdsInv`,
`FreshInv`), that copies agree with rows on the owner, and that every copy of a deleted tour which no
late save brought back is out of date (`GoneInv`). The two bounds again count rows together with those on their
way: a step adds to the free tours of a user (`FreeOf`) only if it leaves the user without a tour, and to
the featured ones (`FeaturedOf`) only if it leaves none featured, so right after it they are those on
their way, one to a worker.

`TourContentProofs`, for any workers and any finite tables:

| Theorem | Says |
|---|---|
| `ContentTyped` | `ContentTypeOK` always |
| `ParentsStay` | `BoundRowsHaveParents` always |
| `UpdatesDoNotMix` | `StopsOfOneUpdate` always |
| `DeletionsComplete` | every step satisfies `DeletionComplete` |

`ContentInv` is about what transactions hold. No two hold the same row (`HeldApart`). For each
statement a transaction has begun, every row the statement is about is held, is still in its queue, or
was written since (`SweptOK`); at the commit the queue is empty, which is `DeletionComplete`. An
update of a play tour that has new stops holds the play tour from its first statement on, and its
second deletes all stops but those that came with the same request (`ReplacesAll`). Parents stay
because the commit of a deletion waits for, or fails at, what hangs on its rows.

`MigrateProofs`, for any number of commands, any versions and any files:

| Theorem | Says |
|---|---|
| `MigrateTyped` | `MigrateTypeOK` always |
| `KeptInStep` | every step satisfies `InStepUnlessOvertaken` |
| `ColumnsStayTracked` | a column that one version alone adds and drops by ALTER TABLE is there exactly while the version is recorded |
| `RunsInOrder` | every step satisfies `AppliedInOrder` |
| `RollbacksFromTheEnd` | every step satisfies `RolledBackFromTheEnd` |

`MigrateInv` says of an open transaction (`ExecOK`) that what it has added and dropped concerns some
statement of its file, and that it holds the table if that was an `ALTER TABLE`; no two hold the same
table (`LocksApart`). `InProgress` says of each item its version owns that a statement that will see
to it is still to come, or that the transaction sees it as it is to leave it: then at its commit it
and the record agree. Another commit can upset that only by changing the item. If it did so for
another version, that would be no item of this one (`DoneFor`); if for the same version, this
transaction has been overtaken, which the property allows, unless the item comes and goes by `ALTER
TABLE`: then this one holds the table and the other cannot have (`ProgressBears`). So the lock of an
`ALTER TABLE` that finds nothing to do is what columns rest on, and indexes and tables have no such
lock. Of a list of versions (`PlanOK`) the invariant says that a run still has before it, in ascending
order, every version that is not recorded, and a rollback, before each version, those recorded later,
both but for what others committed.

`Owned[v]` is the items that v alone brings, and takes away if it can be rolled back: every statement
that concerns such an item adds it in the up file and drops it, or its table, in the down file. An up
file that adds an item and drops it again is no such file, and none of the repository is.

`EmbedKeysProofs`, for any finite set of workers, any tours, limit and number of keys:

| Theorem | Says |
|---|---|
| `KeysTyped` | `KeysTypeOK` always |
| `RevocationIsFinal` | every step satisfies `RevokedForGood` |
| `KeysStayBounded` | `KeysBounded` always |

`KeysTypeOK` is inductive. `RevocationIsFinal` follows from it action by action: a touch writes
one column and an insertion changes no row. `KeysBounded` is not inductive, as nothing in it
speaks of creations that have passed the check: `WithinBound` counts them (`Inserting`) along
with the keys. `CountKeys` adds one when there are at most `KeyLimit - 1` keys and of course no
more than `Workers` inserting; `InsertKey` turns one of them into a key.

`CleanupProofs`, for any numbers of handlers and goroutines, any tours, and finitely many objects:

| Theorem | Says |
|---|---|
| `CleanupTyped` | `CleanupTypeOK` always |
| `LiveKeepTheirObjects` | `LiveObjectsKept` always |
| `NothingStaysBehind` | `NothingLeftBehind` always |
| `GoroutinesMoveOn` | every step satisfies `JobsAdvance` |

`LiveObjectsKept` speaks of objects already deleted; by the time they are it is too late to say why.
`CleanupInv` therefore speaks of owners that were *hit*, their objects deleted or some goroutine
about to: each that is there is about to be dropped or in `back` (`Marked`). For the step that drops a
tour it must know what the deletion had taken: the row, scenes that go with it, or scenes moved since,
which are in `back` (`DropsOK`). `NothingLeftBehind` needs the reverse: each object of an owner that
is gone or about to be, unless the owner is spared, is still ahead of some goroutine (`Covered`) - in
a prefix it comes to later, or in the present one on the page it holds or behind its token. A listing
passes nothing (what is not on a full page lies after its last place, `BehindPage`), and deleting a
page passes only what it deletes. `JobsAdvance`, stated beside its proof, is the
safety half of `EveryCleanupEnds`: each step of a
goroutine leaves it a prefix less, or a later token, or a page listed from its token. It needs that what
is on a page lies behind the token (`PagesBehind`), and that a listing that finds something has a page
that is not empty (`FirstPage`). That places are finitely many, so that no goroutine can go on so for
ever, and that it does go on, is the liveness that remains with TLC.

`TourEditsProofs`, for any workers, tours, scenes and lists of rooms:

| Theorem | Says |
|---|---|
| `EditsTyped` | `EditsTypeOK` always |
| `EditsAreKept` | `EditsKept` always |
| `LinksStayPhotos` | `LinksArePhotos` always |
| `RoomsAreLinked` | every step satisfies `RoomsLinked` |

For `EditsKept` the invariant adds `CopiesOK`: a handler's copy that is not out of date equals the row in every
column the request does not name. Then a save changes a column it does not name only from an
out-of-date copy, which is what `undone` records. For `LinksArePhotos`, `LinksInv` says of every copy
what the property says of the rows, and that photos a tour has are remembered.

Both rest on what the loops compute for every list of rooms (`LinkedIsLinking`). The loops are
recursive functions, and the library's induction theorems cannot be instantiated here, so the
induction is carried out over sets: `HasLeast` (from the well-foundedness of the finite subsets of a
set), `EveryPass` (a set of numbers that has 0, and i whenever it has i - 1, has them all) and
`LoopHasValues` (a function defined along the passes exists). `FreeMeansFirst` is the step: a photo is
not used yet exactly if no earlier room names it.

Two modules were given another form so that they can be reasoned about, with the same meaning. The
loops of `RoomLinks` were folds, and the orders of `Migrate` used `SetToSortSeq` and `SelectSeq`,
which take operators as arguments. `Ascending` lists a set of numbers in order and `At` takes the
elements at some places of a sequence.

Model-checked only: `EveryCallReturns`, `EveryTransactionEnds` and `EveryCleanupEnds`, which are
liveness under fairness and out of the prover's reach, like `ENABLED`; and the four violations,
which are counterexamples.

## 7. What is not modelled

- Payments: no migration and no AutoMigrate creates `payments` or `subscriptions`, so in a
  database this repository sets up each call fails; the limit check drops that error.
- The picture, the prompt and the call of the language model in the floor-plan analysis; names,
  coordinates and heights of rooms, each clamped by itself. E-mail is a step that may fail. The
  contact form is one insert and a notification that may be lost.
- Input validation, rendering, paging of lists, CORS, logging, configuration, connecting.
- Of TourContent: hotspots and overlays nested in the body of a scene, which Save writes along
  with it; stop ids a client sends itself, which Save and Create would take over from the play
  tour that has them (`UpdatePlayTour` deletes and inserts its stops again, so for new ids
  nothing else comes of it); that the `Save` in `UpdatePlayTour` already inserts the stops of the
  body, new ones without an id, which its next statement deletes: what comes of it is that it fails
  where the play tour is gone (`ConstraintFails`), and may fail otherwise (`Abandon`); the `tour_id` of a hotspot or overlay, which only authorises;
  `UpdateSceneView`, whose columns no rule reads. Tours exist from the start there: `Tours`
  has their life. `tour_scenes` is a table nothing writes.
- Of Migrate: quotes inside comments, old file names without `.up`, files that change between
  two commands, two records with the same time, an index that goes with its column (the
  files drop such an index first), the single statements of AutoMigrate.
- Of EmbedKeys: who may manage a tour, allowed domains, key generation, the interval after
  which `last_used_at` is written again (it may or may not be).
- Of Cleanup: a store that is not configured, which nothing is deleted from, and deletions under a
  slug, which find no object and delete no row. The rows of hotspots and the rest are TourContent's.
- Of Tours: the columns no rule reads, and `is_published`, which TourEdits has; slugs of unnamed tours
  (`Slugify` never returns an empty slug, so `generateUniqueSlug` is not reached from there).

## 8. Plan

Every safety property of the runs is proved, and `Otp` is proved to implement `CodeBook`. What could follow:

1. An abstract specification of a tour's life that `Tours` implements. As its saves may undo
   anything, it would say little more than the bounds of section 6 do.
2. Nested hotspots and overlays in the body of a scene, which `TourContent` leaves out.

Not planned: a larger model of payments, until something creates its tables.

# Kino bot: a TLA+ model

The bot (Python, aiogram, SQLAlchemy) delivers movies by short codes, gates them behind
channel subscriptions, sells Premium and gives admins a panel. This directory models its
state-changing core in TLA+, checks it with TLC and proves part of it with TLAPS. Paths
below are relative to the repository; `services/...`, `handlers/...` and so on live in
`src/`.

## 1. The system

**How it runs.** One process, one asyncio event loop (`main.py`). Every Telegram update
becomes a task that passes the middlewares (`ErrorHandling`, `DuplicateRequest`,
`Database`, `UserActivity`; `Throttling` on messages) and ends in one handler. `Database`
opens one session per update through `session_scope` (`database/session.py:13-39`): commit
if the handler returns, rollback if it raises. Handlers interleave at every await. They
share process-wide state: `_movie_code_cache`, `_confirmation_cache`, the seen update ids,
the throttling table, the code-generation lock and counter, and the FSM storage, which is in
memory (`main.py:62`) and lost by a restart. The database is SQLite (WAL, `busy_timeout`
30 s, one writer) or PostgreSQL (row locks). A scheduler copies the SQLite file once a day;
the schema comes from `create_all` at every start, or from Alembic, or from both.

| Component | State | Operations | What is hard | What makes it correct |
|---|---|---|---|---|
| TTL cache `utils/cache.py` | ordered dict of (expiry, value) | get, set, invalidate, clear | bound and eviction at the limit, strict expiry | never over its size; evicts only when it must; a hit is the last value set, no older than the ttl |
| Movie delivery `handlers/user/movie_code.py`, `services/movie_service.py` | `movies`, the cache of ORM instances, counters | code message, recheck button | instances shared across sessions, caching before the commit, lost counts, failing sends | staleness and poisoning end in time, views never exceed deliveries |
| Catalogue edits `handlers/admin/movie_management.py` | `movies` | field, code, caption, toggle, delete | invalidation before the commit, racing renames | what was invalidated is not served again |
| Unit of work `database/` | locks, transactions | flush, commit, rollback | locks held over Bot API calls | tasks finish |
| Premium and payments `handlers/user/premium.py`, `handlers/admin/premium_center.py`, `services/{payment,premium}_service.py` | `users`, `payment_requests`, `premium_history`, admin messages | Stars payment, receipt, approve, reject, grant, revoke | two reviewers, two grants, buttons for uncommitted rows, restarts | an approval is paid out, an expiry is explained, a button means what it shows |
| Code registry `utils/code_generator.py`, `reserved_codes` | lock, counter, reservations | generate, reserve, release, create | lock released before the insert; the unique row of a released reservation | no code is given away twice, a reservation keeps others out |
| Media queue, bulk upload `handlers/admin/media_queue.py` | FSM state per admin | capture, code | two messages of an album, state cleared before failure | no captured media is lost or mixed up |
| Registration, referrals `handlers/user/start.py`, `services/{user,referral_reward}_service.py` | `users`, `referral_rewards` | /start | concurrent first contacts, lost increments, threshold by remainder | one row per user, one bonus per threshold |
| Mandatory subscriptions `services/force_sub_service.py`, `handlers/admin/force_sub.py` | targets, confirmations, membership in Telegram | check, confirm, add, toggle, remove | one target asked about after the other while users and the list move | nobody passes who was never admitted |
| Broadcast `services/broadcast_service.py`, `handlers/admin/broadcast.py` | the conversation, campaign counters, failed users | compose, send in batches of tasks | one session used concurrently, an abort that leaves deliveries going on, flood waits, restarts | a stored campaign accounts for every recipient, a message reaches nobody twice |
| Update pipeline `middlewares/` | seen ids, last message times | deduplicate, throttle, roll back | marked before handled, in memory only | every update ends, once per life of the process |
| Settings, blacklist, bans `services/{settings,blacklist,user}_service.py` | rows, the admin's conversation | toggle, edit, block, unblock, ban, mute | read-toggle-write, conversations that overtake each other | doors that were closed all the while let nobody in |
| Backup `services/backup_service.py`, `scheduler/jobs.py` | files | copy, prune, restore | the log is not copied, the file is written while it is read | a backup holds what was settled when it was made |
| Schema `alembic/`, `database/engine.py` | tables, version | upgrade, downgrade, create, rebuild | statements outside any transaction, crashes between them, two owners of one schema | no movie is lost, the version is true, the bot comes up |
| Admin login `services/admin_security_service.py` | attempts, sessions | login, touch, logout | the attempt is kept only if the refusal is delivered | nothing asks for the session |
| Advertisements, whitelist, admins, collections, sources, logs, statistics | rows | plain editing | little: one row, one statement | - |

## 2. The plan

Order of work, most important behaviour first. **Done** in this state of the project:

1. `CacheStore`, `TTLCache`, `LossyMap`, `TTLCacheProofs`: the cache everything shares.
2. `MovieLookup`, `MovieLookupProofs`: delivery against edits over that cache.
3. `PremiumPayments`, `MCPayments`, `PaymentsProofs`: money.
4. `CodeRegistry`, `MCRegistry`, `RegistryProofs`: how movies get their codes.
5. `Schema`, `Volume`: the tables and everything that changes them.
6. `Updates`, `Subscriptions`, `Registration`, `Panel`, `Campaigns`, `Backups`, composed by
   `Bot` and given workloads by `MCBot`: users arriving while admins work.

7. `BotProofs`, and on top of it `AdminProofs` (campaigns, backups) and `GateProofs` (the gate,
   referrals): the composed bot for every workload.
8. `VolumeProofs`: the rows, the version, the usability of the tables and their exact schema
   through every sequence of commands, starts and crashes.

Left to model: restoring a backup, and the admin login should anything come to depend on it.

## 3. Modules

### CacheStore, TTLCache, LossyMap
`CacheStore` is the dict as a value. Its insertion order, which `next(iter(self._store))`
evicts by, is a relation `older` between held keys. The methods contain no await, so each
is one operator, applied in one step by whoever calls it. `TTLCache` is one cache under
every sequence of calls. `LossyMap` is what a caller may rely on: a hit is the last value
stored under that key, at most TTL ago, not removed since; anything may vanish.
`TTLCache!ImplementsLossyMap` maps the history variable `stored` to the map's content.

### MovieLookup
One viewer is one code request, one editor one catalogue edit; each is a task with one
transaction. `row` is what is committed, `owner` who holds a row's lock, `cache` the
shared cache, `at` the program counter (one label per stretch of code between two awaits
that matter), `req`, `obj`, `using`, `edit` the tasks' locals.

The cache holds ORM instances, so an entry's value is the *instance* that a viewer's
session loaded, named by that viewer. While that session is open the instance is
`attached` and writing to it is a write of that session; its commit makes it `detached`
(`expire_on_commit=False`); its rollback makes it `expired`, and reading it raises. That is
why `Fill` before `CommitViewer` matters.

| Action | Code |
|---|---|
| `Receive`, `CountSearch` | `handle_movie_code`, `handle_force_sub_recheck` |
| `Gate` | `get_missing_channels`, answered by Telegram |
| `Lookup`, `ReadRow`, `Fill` | `MovieService.get_by_code` |
| `Check` | `assert_visible_to` |
| `LogSearch`, `Send`, `Register`, `Record` | `_try_deliver` after the lookup |
| `Open`, `WriteEdit`, `CommitEdit` | the edit handlers and `MovieService`'s mutations |
| `Reply`, `CommitViewer`, `Rollback`, `LockTimeout` | the last Bot API call, `session_scope`, `busy_timeout` |

`InjectedUser` is the constant `None`: `UserActivityMiddleware` sits on the update
observer and reads `from_user` off the `Update`, which has none, so `db_user` is never
injected.

### PremiumPayments, MCPayments
Five kinds of task: a Stars payment, a receipt, a review (approve or reject), a grant and a
revocation by an admin. `user`, `request`, `history` are committed rows, `seen` and
`draft` what a task read of a user and made of it, `job` what it is about, `buttons` the
review messages admins were sent. A flush takes locks, a commit writes the changed
columns only (`Updated`). `IsNewId` is the autoincrement of each backend: the successor of
the largest id present on SQLite (`INTEGER PRIMARY KEY`), a sequence on PostgreSQL. `Restart` kills every
task and rolls its transaction back; updates that were waiting are dropped, as
`drop_pending_updates` does. Days are the clock's unit. `MCPayments` adds the symmetry of
tasks of a kind, used for safety only. Of a `premium_history` row the model keeps who
granted, for which request and how many days, which the table does not store, for the
properties; `granted` adds up those days per user, as each is committed.

### CodeRegistry, MCRegistry
A task is one update of an admin, with one transaction; `at`, `job` and `draft` are its
program counter, locals and uncommitted writes. `movie` and `reserved` are the committed
rows of two tables with a unique code each, and `holder` says whose uncommitted write an
`INSERT` of the same code has to wait for. `fsm` is `MemoryStorage`, one conversation per
admin and chat; `gen` is the lock in `utils/code_generator.py`.

aiogram reads the FSM state when an update arrives, and picks the handler by it after
several awaits (`IsAdminFilter` asks the database once per router). `job[t].raw` is what
was read then; a handler that looks again reads `fsm`. Two updates of one chat can
therefore both be in `receive_code`.

| Action | Code |
|---|---|
| `Receive`, `Throttle`, `Command`, `Ignore` | the FSM middleware, `ThrottlingMiddleware`, routing |
| `CaptureMedia`, `ReceiveCode` | `handlers/admin/media_queue.py` |
| `OpenFlow`, `ReceiveMedia`, `Warn`, `KeepMedia`, `ReceiveTitle`, `ReceiveYearOrGenre`, `ReceiveDescription` | the add-movie form |
| `CollectBulkMedia`, `FinishBulkUpload` | the bulk upload |
| `CheckReserved`, `CheckTaken` | `ensure_code_available` |
| `Draw`, `Probe` | `generate_unique_movie_code` |
| `Insert`, `Free` | the rest of `create_movie`; `Free` alone is `/releasecode` |
| `FindTaken`, `FindReserved`, `Book` | `reserve_code` |
| `NextRow` | one row of `import_csv` |
| `Log`, `Reply`, `Commit`, `Rollback`, `LockTimeout`, `Restart` | the end of every handler |

`told` and `late` are history: what an admin was told, and which reservations were
committed after a creation had checked. Codes are only taken here; the edits that free
them are in `MovieLookup`. `Kinds`, `Asked`, `Imports`, `Openings` and `Bookings` bound
what arrives and what is found at the start; `MaxAttempts` is the code's `_MAX_ATTEMPTS`.

### Schema, Volume
`Schema` is data: the columns each model declares, and each Alembic revision as a sequence
of statements, up and down, `batch_alter_table` included (copy, fill, drop, rename). A
table is its columns, its kind of key (SQLite numbers only `INTEGER PRIMARY KEY`), and, for
`movies`, the old foreign key and the indexes that the rebuild runs into. `Volume` runs them:
`db` is what a new connection would find, `work` what the connection at work sees, `open`
says whether its transaction has begun. On SQLite the driver begins one at the first
statement that writes rows, so a `CREATE` or `ALTER` before it stands by itself; on
PostgreSQL all of a command is one transaction. `Boot` is `create_all` and then the rebuild
of `movies` (`engine.py:100-147`); `Crash` may come between any two statements. PostgreSQL
refuses the schema as written (a lowercase enum default, a type no revision creates); the
model has those refusals, so its runs there are about what a failing command leaves.

### Updates, Subscriptions, Registration, Panel, Campaigns, Backups, Bot, MCBot
`Updates` is what the components share. `db` maps columns of rows to values, and a missing
row is its primary column being `None`. A task has one session: `session[t]` is its identity
map, which a `SELECT` fills and never refreshes, `wrote[t]` what its transaction has
flushed. `Put` writes only attributes that differ, as the unit of work does; `Add` fails
on a row that is there by now or refers to one that is not; `Change` fails on one that is
gone. A flush waits for the locks of others: rows on PostgreSQL, everything on SQLite.
Every handler ends in `Reply`, which may fail, then `Commit` or `Rollback`. `Kill` clears
all that is in memory, and any update that had been taken may be delivered again, as one
that was done and not acknowledged is. `fsm` is the admin's conversation, and `job[t].raw`
the state aiogram routed by.

| Action | Code |
|---|---|
| `CheckBlacklist` to `NoteBonus` (Registration) | `handle_start`, `get_or_register`, `grant_invite_bonus`, in order |
| `ListTargets`, `CheckTarget`, `Decide`, `RecordStart` (Subscriptions) | `get_missing_channels`, for /start and for "Check" |
| `Confirm`, `InsertConfirmation` | `handle_force_sub_confirm` |
| `StartAdd` to `AddExternal`, `Edit`, `SaveEdit` | `handlers/admin/force_sub.py` |
| `ToggleSetting` to `ReceiveValue`, `RefuseValue` (Panel) | `handlers/admin/settings_center.py`, `SettingsService.set` |
| `OpenBlacklist` to `DeactivateEntry`, `FindUserToAct`, `ActOnUser` | the blacklist; bans and mutes |
| `Compose` to `ConfirmSend` (Campaigns) | the composing conversation |
| `CreateCampaign`, `ListRecipients`, `StartBatch`, `Finish` | `create_campaign`, `send_campaign` |
| `Deliver`, `WaitForFlood`, `FailToDeliver`, `NoteFailure`, `FailureNoted` | `_deliver_one` and its retries, one `leg` per recipient |
| `BeginCopy`, `EndCopy`, `Prune`, `NoFile` (Backups) | `create_backup`, the daily job |
| `Checkpoint` | what SQLite does to its file at every step |
| `Ignore`, `Throttle`, `LockTimeout`, `Crash`, `Join` (Bot) | routing, middlewares, `busy_timeout`, a restart, users of Telegram |

A campaign's deliveries outlive it: when two failures flush at once, the second raises, the
gather returns, the transaction is rolled back, and the other deliveries still go on. `Count`
has that branch. `main` is the SQLite file without its log; what is committed reaches it when
the last connection is closed, or at a commit that checkpoints, and `NullPool`
(`engine.py:38-40`) is why connections are ever closed. `recent` is history: what has been
written since that last happened. `copies` keeps what was read first and last. The admin of
the model is the owner, whose role needs no query (`admin_service.py:50`), so the backup
handler holds no connection itself; of anybody else `IsAdminFilter` asks the database while
the update is routed, and `Connected` counts him from then on. `seen` and `told` are history for the gate, `reached` and `composed` count what a user got and how often
it was composed, by a repeated update too.

Operators marked *Slip* are plausible mistakes. No specification uses them; substituting
one for the definition it stands beside breaks the property named after it in
`PROJECT.json`, which shows that the property can fail.

## 4. Runs

| Run | Shows | Bounds | Distinct states |
|---|---|---|---|
| `TTLCache` | size, order, eviction, refinement of `LossyMap` | 3 keys, 2 places, 2 values | 9 thousand |
| `LookupSqlite` | staleness, poisoning, views on one writer | 2 viewers, 1 editor, 1 movie, 1 code, clock to 3 | 2.4 million |
| `LookupPostgres` | racing edits and renames; every task ends | 1 viewer, 2 editors, 2 movies, 2 codes | 190 thousand |
| `PayPostgres` | review and grant, buttons, restarts; every task ends | 2 receipts, 2 reviews, 2 ids | 210 thousand |
| `PaySqlite` | payouts and days granted with one task of each kind, an unregistered user and 0 days | 2 users, 5 tasks | 1.5 million |
| `Registry` | codes, reservations, captures and imports; every task ends | 2 updates, 2 admins, 2 chats, 2 codes, 1 file | 300 thousand |
| `Volume` | rows, version and schema through commands, starts and a crash; the bot comes up | 3 commands, 1 crash, 2 movies, 5 origins, both backends | 42 thousand |
| `Bot` | referrals, gate, campaigns, backups, toggles; every update ends | 27 workloads of 1 to 3 updates, 4 users, 2 targets, 1 restart, 1 move | 90 thousand |
| `LookupPoisoned` | counterexample to `HitsAreReadable` | 2 viewers | - |
| `PayReviewTwice` | counterexample to `ReviewedOnce` | 1 receipt, 2 reviews | - |
| `PayExtension` | counterexample to `GrantNeverCrashes` | 1 payment, 1 grant | - |
| `VolumeSetup` | counterexample to `ProvisionedIsUsable` | 1 command | - |

Why the bounds suffice. The cache needs one key more than places for an eviction and three for
the order to matter. In the delivery model every hazard is between one session that fills, one
that hits and one that edits: two viewers and one editor. TTL 1 and a read of at most 1 make
the bound of `BoundedStaleness` 2, and the clock goes to 3, so an entry that lived longer would
be seen; longer clocks repeat the same situations, and the theorems hold for any. Renames that
race need two editors, two movies and two codes; time adds nothing there. In the payment model
a lost or double decision needs two reviewers of one request, a reused id needs two receipts.
`ExpiryExplained` is checked on PostgreSQL; that it also holds with manual grants, with
revocations and on SQLite is the theorem `ExpiryIsExplained`.
In the registry every hazard is between two updates and what they find: a reservation, a
conversation in any of its states, a captured message. Two codes are what two imports need to
deadlock on, and what makes one of them fail at its last row with the others written. The run
is on PostgreSQL, where more interleaves; its safety properties are theorems for both backends.
In `Volume` three commands are enough to go up, down and up again around a start, and one crash
may fall between any two statements of any of them; five origins stand for the volumes a
deployment may be found with. In `Bot` each workload is a set of updates that can get into each
other's way and what they find; every pair of handlers that shares a row, a conversation or the
file is in one of them, with a third update where two do not suffice (two invited users and a
second tap, two toggles around a gate). A threshold of 2 makes two invitations a bonus, a batch
of 3 has two failures and one delivery that outlives them, and four recipients make a second
batch; 2 attempts are one retry, 1 kept copy makes the daily job prune. `Workloads`, `moves`
and `restarts` are its bounds. `MaxTime`, `MaxId` and `FillDelay` are the only bounds on what
would be unbounded; `MaxTime` bounds the clock, `MaxId` the ids, and `FillDelay` is an
assumption: a SELECT is answered within it.

Deadlock is checked in every run: when all tasks have ended, `AllOver` stutters.

**Fairness.** `FairSpec` is weak fairness of each task that has begun: the event loop runs
ready coroutines, database calls return (or, on SQLite, time out after `busy_timeout`), and
Bot API calls return or raise after aiogram's timeout, which is why `Reply` and `Send` have
a failing branch instead of a stuck one. Arrivals, the clock and restarts get none. Strong
fairness is not needed, since a finite number of tasks competes for a lock. In `Bot` one turn of a task is any of
its steps, deliveries of its batch included; a lock it waits for is freed because its holder's
turns end in a commit or a rollback. `Volume` assumes that statements are executed and that
the bot is started again when it is down (`railway.toml`, `restartPolicyType`, at most ten
times in a row; the model needs fewer).

### What the counterexamples say
* `HitsAreReadable` - a viewer's update loads a movie, caches the instance, and fails later
  (Telegram refuses, a lock times out). The rollback expires the cached instance; the next
  viewer of that code gets an exception instead of an existing movie, for up to 60 s.
  `BoundedPoisoning` is the part that does hold.
* `ReviewedOnce` - `mark_reviewed` checks the status it read and does not check again when
  it writes. `ApprovalPaidOut` is the part that does hold.
* `ProvisionedIsUsable` - the revisions declare keys that SQLite does not number, and none of
  them adds `search_logs.platform`; after `alembic upgrade head` the bot cannot store a movie.
  `CreatedIsUsable` is the part that does hold: a database that only the bot made.
* `GrantNeverCrashes` - SQLite returns `premium_expires_at` without a time zone; the second
  grant compares it with an aware `now`.

### Seen while modelling, without a run
* `views_count += 1` loses counts when two deliveries race (`movie_repository.py:124`, whose
  docstring says "Atomically"). Only the upper bound is checked.
* Banned users are served and Premium users are refused Premium movies on the code path,
  since `db_user` is never injected (`movie_code.py:188-189, 229`).
* Two edits that race can leave an entry under a code that neither invalidates, against
  `movie_service.py:5-6`. `InvalidatedNeverServed` leaves out edits that a rename overtook, so
  of these races it says nothing; `BoundedStaleness` is what bounds their effect.
* A Stars payment whose confirmation message fails is rolled back with its grant
  (`premium.py:349`).
* A duration of 0 days makes an approval that is reviewed but not granted; `ApprovalPaidOut`
  speaks of requests of at least one day.
* Two grants that race lose days (they never add any: `NeverBeyondGrants`), and a grant
  racing a revocation can leave `is_premium` false with an expiry, as only changed columns
  are written.
* On SQLite the id of a rolled-back request is handed out again, so an old button can
  review another request; `ReviewsWhatItShows` holds on PostgreSQL.
* Reserving a released code again raises `IntegrityError`: the row stays, and its code is
  unique (`reserved_code.py:23`, `movie_service.py:296-297`).
* A generated code ignores reservations, and `create_movie` releases whatever reservation
  its code has, whoever made it (`movie_service.py:134-144, 174-176`).
* The lock around code generation is released before the row is inserted, so two admins can
  draw the same code, against the docstring (`code_generator.py:5-7`); the unique index
  fails the second one whole, which is what `ToldIffStored` checks.
* A reservation committed while a creation of its code is under way stays active on a code
  that is taken.
* In a group the capture takes every media message, those of a bulk upload or a form of the
  same chat included (`media_queue.py:51-65`).
* `receive_code` clears the conversation before it creates (`media_queue.py:94-95`): a code
  that is refused loses the capture, and a second text can take the next one.
* `import_json` and `use_sequential_code` have no caller. The duplicate check of the bulk
  upload reads committed rows only, so two updates can store one file twice.
* `MovieService.set_visibility` has no caller, so visibility can only be changed outside the bot.
* A page, a site or another bot (`chat_id` is `None`) can never be passed, confirmed or not:
  `_is_member` refuses it before it looks at confirmations (`force_sub_service.py:151-155`,
  against 3-6 and 165-166). One active mandatory page closes the bot to everybody; the
  confirmation cache is never reached.
* "Check" asks neither the blacklist nor maintenance mode (`movie_code.py:289-320`), so
  `GreetedOnlyIfAdmitted` speaks of both for /start only.
* Two failures of one batch that are written down at once abort the campaign
  (`broadcast_service.py:106-115`), against 61-63; nothing of it is stored, and the rest of
  the batch is delivered all the same.
* Where the confirmation of a registration cannot be sent, the registration is rolled back;
  an update that failed is never handled again, one that was done may be, after a restart,
  and a toggle then flips back.
* On SQLite an invitation that reaches the threshold while the referrer's Premium has an end
  raises `TypeError`, and the invited user cannot register; he fails again with every /start.
* `edit_setting` reads a setting and then writes the negation of what it read
  (`settings_center.py:87-88`). Of two toggles at once, on two panels, the second writes what
  the first has written already; both are confirmed and the setting flips once. (On one message
  Telegram refuses the second edit, since nothing changes, and that toggle is rolled back.)
  `ToggleLostOnlyToAnother` is what does hold: nothing else loses a confirmed toggle.
* On PostgreSQL two registrations at once can lose an invitation, and with it a bonus.
* `BlacklistService.add` says that it reactivates an entry (`blacklist_service.py:28`); it
  adds another. Bans and mutes are stored and kept from broadcasts, and nothing else asks.
* Backups are said to be "point-in-time copies" (`backup_service.py:24`): what was committed
  since the last checkpoint is missing, and a file that changes while it is copied is two
  states in one. A copy cut short by a restart stays among the backups.
* `README.md:263` and 121 disagree about migrations at the start. PostgreSQL cannot be set up
  by any documented path: `create_all` fails on a lowercase enum default, revision 2 on a type
  that does not exist. A downgrade to the base and an upgrade while a table is set aside leave
  a database the bot never comes up on; a start cut short between `CREATE TABLE movies` and
  its unique index leaves it without one for good.

## 5. Proofs

All proofs hold for any number of tasks, users, movies, targets and updates and any TTL,
under the named assumptions of the modules, which TLC evaluates on every run:
`CacheAssumption`, `TTLCacheAssumption`, `LookupAssumption`, `NoneAssumption`,
`PaymentsAssumption`, `RegistryAssumption`, `RegistryNoneAssumption` (kinds of tasks are
disjoint, a message was captured in one chat, numbers are naturals, `max_size` is positive,
codes are finitely many, `None` is no other value), and for `Bot` those of its parts. Of
these, `WorkloadAssumption` says of what a run starts with that rows are cells, the
conversation is one, and an update carries what its kind carries (a /start a user or nobody,
a button the target, key, user or entry it was made for); `MembersAssumption` that members of
a target are users; `UpdatesAssumption` that `None` is no user and no
value of a switch; `NothingIsSaid` that "greeted" is not `None`; `NoRowAssumption` that what a
row holds is not `None` either; `CampaignAssumption` that users are finitely many, since a
campaign counts them; `ThresholdAssumption` that the threshold of a bonus is positive (the code
grants none otherwise, `referral_reward_service.py:44`); `RewardsAssumption` that rewards are on
unless a row says otherwise (`settings_service.py:90`). `VolumeAssumption` is about the values
of the run's constants: there is a film, origins and backends are those the model knows, and
the bounds are naturals. `WorkloadAssumption` also says that rows named after an update (its
reward, bonus, campaign, failures and log entry) are not there before it: the database numbers
rows when they are added. And it says that the users found at the start were invited by nobody
and that no counter is set yet, so that what is counted is what the run itself invites.

| Theorem | Property | Inductive invariant |
|---|---|---|
| `TTLCacheProofs` `TypeCorrect`, `NeverOverfull`, `Refinement` | `TypeOK`, `SizeBounded`, `ImplementsLossyMap` | `IInv` |
| `OrderIsTotal`, `LiveEntriesAreKept` | `OrderMatchesEntries`, `LiveEntryLostOnlyWhenFull` | `IInv`, `AnyTwo` |
| `MovieLookupProofs` `TypeCorrect`, `StalenessBounded`, `PoisoningBounded` | `TypeOK`, `BoundedStaleness`, `BoundedPoisoning` | `IInv` |
| `InvalidationIsFinal` | `InvalidatedNeverServed` | `WInv` on `IInv` |
| `ViewsAreDeliveries` | `ViewsNeverExceedSends` | `VInv` on `IInv` |
| `PaymentsProofs` `TypeCorrect`, `ApprovalIsPaidOut`, `ExpiryIsExplained` | `TypeOK`, `ApprovalPaidOut`, `ExpiryExplained` | `IInv` |
| `GrantsBoundExpiry` | `NeverBeyondGrants` | `NInv` on `IInv` |
| `ClicksDecideWhatTheyShow` (PostgreSQL) | `ReviewsWhatItShows` | `VInv` on `IInv` |
| `RegistryProofs` `TypeCorrect`, `CapturesUsedOnce`, `ToldIsStored`, `ReservationsAreRespected`, `CapturesAreKept` | `TypeOK`, `CaptureUsedOnce`, `ToldIffStored`, `ReservationsRespected`, `CaptureNotReplaced` | `IInv` |
| `BotProofs` `BotTypes` | `TypeOK` | `TInv` |
| `AdminProofs` `SentOnceHolds` | `SentOnce` | `SInv` on `TInv` |
| `CampaignsBalance` | `CampaignsAccountForAll` | `AInv` on `SInv` |
| `BackupsHold` | `BackupsHoldSettled` | `BInv` on `TInv` |
| `GateProofs` `GateHolds` | `GreetedOnlyIfAdmitted` | `GInv` on `TInv` |
| `ReferralsHold` | `ReferralsAddUp` | `RInv` on `GInv` |
| `VolumeProofs` `VolumeTypes`, `RowsAreKept`, `StartsAreUsable`, `StampsAreTrue` | `TypeOK`, `RowsSurvive`, `CreatedIsUsable`, `StampNeverAhead` | `IInv` |
| `TablesAreTheVersions` | `TablesFollowVersion` | `ShapeOK` on `IInv` |

* `TTLCacheProofs`. The invariant relates each entry to the history: an entry's value and
  expiry are those of the last `set` of its key. Size is bounded because `MadeRoom` leaves
  fewer than `max_size` keys, which rests on lemmas about the cardinality of held keys. The
  order is total because a key enters it last and leaves it whole; a live entry is then lost
  only as the first of a full cache.
* `MovieLookupProofs`. The bounds are not inductive alone. `IInv` adds where a task may be
  given its locals (`Control`), that an instance outdated at `staleAt` was read before it,
  that it is filled at most `FillDelay` after that read, and that an entry expires at most
  TTL after its fill. `WInv` says why invalidating one code is enough: an instance sits in the cache
  under the code it was asked for, which is still the code of its row as long as no edit of
  the movie has been committed; a copy that was taken out stays out, since its viewer is past the only step
  that caches it. `VInv` bounds the views of rows and of instances by the deliveries that may
  already be in them: instances are shared and written back by sessions that did not count,
  so the bound has to hold of each instance, not only of the row. Its lemmas are about one
  delivery joining a finite set.
* `PaymentsProofs`. `IInv` adds `Control` (what each label implies about `job` and `draft`),
  `IdsFresh` (an id handed out is not used by another open transaction or row) and
  `PayersStored`. Approval and grant are in one commit; nothing else writes either, and
  restarts touch no committed row. `NInv` bounds a draft by what is granted so far and what is
  about to be: a racing grant writes the same date over, and only `granted` grows.
  `VInv` says of each button and click that its id has been passed by the sequence and belongs to
  one payment; this is where PostgreSQL is needed, since SQLite hands the id of a rolled-back
  row out again and the statement is false there.
* `RegistryProofs`. The invariant adds `Control` and `Routed` (what each label implies about
  the locals), `Locked` (an uncommitted row is locked by its task and still absent from the
  table, so a commit overwrites nobody's row), `Respects` (a task that has passed the
  reservation check may end the reservation it finds, or it was made after that check) and
  `Captures` (a captured message is in one conversation or with one task, and its own update
  has been handled). `LocalStep`, `ChatStep`, `TakeStep` and `WriteStep` prove it once for
  each shape of step; each action is an instance.
* `BotProofs`. `TInv` is what the next two modules rest on: where a task may be depends on the kind
  of its update (`Located`), its locals are of the update's kind (`Typed`), what it has
  written is in its session, an ended task has no transaction, and a backup's number is the
  successor of the greatest. `WaysMove` says once what each of the ways a handler ends a step
  (`Pass`, `Answer`, `Load`, `Put`, `Add`, `Change`, `Converse`) does; each component's
  actions are instances.
* `AdminProofs`, campaigns. `SentOnce` is a budget: for each message and user, the tasks that still owe
  it to him, the conversation that holds it, and what he got do not exceed `composed`
  (`BudgetKept`). `ConfirmSend` hands the budget from the conversation to one task, a leg spends
  it, a failed delivery drops it, and a recipient is in one batch (`LegsPlaced`), also when
  the campaign has been aborted and its legs go on. `CampaignsAccountForAll` follows from what
  holds of the account in the session until it is committed (`Balanced`): the total is what is
  counted as sent, as failed, and who is still due; the failed are those whose failure is
  written or on its way (`Lost`); nobody is due and lost; and a user who was counted as sent has
  the message. A delivery that outlives its campaign touches no account. A transaction writes no
  other task's campaign or failures (`Owned`), and a commit happens when no delivery is left, so
  what it brings into the database is balanced (`Reported`). `Columns` and `StepsTouch` of
  `BotProofs` say once which columns every other step may write.
* `AdminProofs`, backups. `FileFollows`: the file differs from what is committed only in `recent`; a
  copy under way is as far from the database as that (`CopyFollows`), and `recent` is
  emptied only when nobody copies. `Differ` is a distance, so the triangle inequality carries
  each commit.
* `GateProofs`. A task at the gate has none of the cells it decides by in its session, so what
  it reads is what is committed then (`GatePlaced`). Every target demanded all the while is
  still to be asked about, found missing, or has had the user as a member since he came, and
  each door that was shut all the while is one he did not pass (`GateFound`); what `seen`
  holds against him only shrinks. No other end of an update greets anybody (`QuietWays`).
  `ReferralsAddUp` is about what is committed, so `RInv` says of each open registration what it
  would bring (`Joins`): by where the task is, which of the user, the referrer's counter, the
  reward and the bonus are in its session (`Progress`), that its user is not in the database
  yet, and that the counter it has read is the one that is committed, on SQLite, or is not ahead of
  it, on PostgreSQL (`Before`). What keeps that true under the commits of others is `Exclusive`:
  no row is written by two transactions, and on SQLite all writers exclude each other. A commit
  happens only when all parts are there (`Complete`), so each commit adds one invited user, one
  to the counter, one reward, and a bonus when `Due`; that these are as many bonuses as the
  quotient is arithmetic (`NextQuotient`).

* `VolumeProofs`. A command is a list of statements that `FlattenSeq` makes of the revisions, so
  the proof has first to say what such a list is. The community module defines `FlattenSeq` by a
  recursive function; `Flattens` is what its definition unfolds to, and the induction on its
  length is done on a set of numbers (`UpTo`: a set that holds 0 and the successors holds all,
  from the well-foundedness of `<`). `UpgradeProgram`, `DowngradeProgram` and `BootProgram` then
  give what holds of a whole command: each statement belongs to a revision the command passes
  (`Step`), a table of batch mode is made, filled and swapped in that order (`CopiesSwapped`),
  movies are set aside, made, carried over and only then dropped (`InTurn`, `MadeFirst`), a
  stamp comes after what it promises (`Truthful`), and the last statement is a commit.
  `Effect` says what one statement does to tables, rows and version.
  `IInv` joins the two. That rows survive is not inductive: between their copy and the drop of
  the old table they are twice in what the connection sees, so `RowsOK` says in which
  statements that is so, and that the transaction is open then, so that a crash takes it back;
  and that a downgrade drops `movies` before its transaction begins. On PostgreSQL neither an
  upgrade nor a start ever commits anything, since each has a statement ahead that is refused
  (`PgOK`, `Doomed`). `StampOK` says of an upgrade that what a stamp still to come promises is
  there or comes before it, and of a downgrade that nothing still ahead takes a column from the
  version it will stamp; `UsableOK` that the starts before the first command leave the version
  empty and never a table without its columns.
  `ShapeOK`, on top of it, is for the tables to the last flag, on SQLite, where a command commits
  piece by piece (on PostgreSQL `PgOK` already says it). In an upgrade, `Building` says that what
  there is together with what the statements left still make is what the newest version has;
  in a downgrade, `TakingDown` that what there is without what they still take is what the
  version to be stamped has. With nothing left both are equality. That a command ends with the
  whole of a revision done, and nothing of another, is in `UpgradeLaid` and in what each
  downgrade takes back of its upgrade (`MadeBy`, `AddedBy`), revision by revision.

Stated as they are checked, with two exceptions made so that they can be reasoned about:
`NeverBeyondGrants` and `SentOnce` count in a history variable (`granted`, `composed`) that
is updated where the code grants or composes, instead of summing over all tasks.

Only model-checked: the liveness properties, `ComesUp` and every `TasksFinish`, which hold under
fairness and are outside the provers' reach, and `ToggleLostOnlyToAnother`, which needs the
settings that are toggled and those that are typed to be different ones, as `Workloads` has them. What the four runs that expect a violation find
needs no proof.

## 6. Not modelled

Keyboards, texts, formatting, pagination, statistics, logging and the health endpoint keep
no state a property could be about. The whitelist, the list of admins, collections, sources,
warnings and advertisements are single-row edits that nothing modelled reads. The admin login
keeps attempts and sessions, but `is_admin_logged_in` and `touch_session` have no callers, so
no other behaviour depends on it. A restore overwrites the file under open connections and a
log that belongs to the old one; what is read afterwards depends on pages, and the handler asks
for a restart. Copies within one second share a name. Connection pooling, cancellation in the
middle of a handler other than by a restart, and the cascade of deleting users (no handler
does) are left out. TTLCache's hit and miss counters are left out, and so are types and lengths
of columns and Alembic's offline mode.

Simplifications to know of, none of which hides a stored effect:

* A killed process may be handed any updates it had taken, which includes sets that Telegram
  would have seen acknowledged; a message whose whole composition is handed over again counts
  as composed again. And a workload has few updates: what needs four at once is not in it.
* A delivery that outlives its aborted campaign and fails calls `add_failed_user` on the closed
  session (`broadcast_repository.py:22-26`). That begins a transaction nobody ever commits,
  about a campaign that was rolled back; `NoteFailure` leaves it out.
* `CountLocks` leaves out the lock on the users row that PostgreSQL takes. Only two deliveries
  to one user could meet there, and the PostgreSQL run has one viewer.
* `Rebuild` drops the indexes of the old table in one statement; the code drops them one by one.
* An update of the owner that is throttled or ignored counts as connected in its last step.

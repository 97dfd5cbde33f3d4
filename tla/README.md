# Verification of the Community Address Book for RustDesk

TLA+ models of the address book's own protocols, checked with TLC on small
instances and, for the core, proved with TLAPS for every instance. Paths and
line numbers refer to `src/`.

## The system

One Flask application (`app/__init__.py`) over one SQLite database, served by
gunicorn worker processes with several threads each (`entrypoint.sh`: an HTTPS
listener, optionally an HTTP one), plus shell and Python tools on the host.

| Component | State it keeps | Operations | What makes it correct |
|---|---|---|---|
| Restore journal, `app/restore.py` | managed files below `DATA_DIR`, SQLite sidecars, `.restore-transaction/`, `.restore-generation` | `replace_files`, `recover_pending_restore` | all files change or none; no foreign WAL; a journal can always be rolled back |
| Maintenance lock and workers, `app/restore.py`, `app/config.py`, `create_app`, `_reload_runtime_keys`, `_exclusive_restore` | `.restore.lock`, each worker's cached keys, generation and connections | start a worker, admit a request, reload, restore, kill | requests see the current keys and database; restores do not cross; nobody waits for ever |
| Accounts and sessions, `app/__init__.py` 888–2056 | table `users`, browser cookies | setup, logins, own changes, administration | rows verify; a local administrator remains; changes revoke sessions; spent codes stay spent |
| Schema migration, 793–889, 1039–1078 | columns of `users`, signature version | add columns, convert, reseal | a killed migration is repeatable; nothing invalid is legitimised |
| Runtime configuration, `app/config.py` | `config.json`: keys, setup token | create, read, remove the token | keys never change and are what every worker uses; the token is there until it is needed no more |
| Login protection and audit, 1091–1315 | `auth_events`, `auth.log`, transient secrets | count failures, prune, rotate, pop | guesses are limited, by own failures only; nothing is lost in rotation |
| Groups, devices, blocklist, imports, 2069–2583, 3055–3212 | `groups`, `devices`, `import_blocklist` | forms, CSV and database imports, delete-and-block | a blocked id does not come back; nothing but a stale form leaves a device in a group that is gone |
| hbbs live status, `app/rustdesk_live.py`, 3892–3945 | `devices.online`, status settings | batched query, update | all batches or none; every device gets the answer for its own id |
| Backups, 2648–2753, 4185–4454 | `BACKUP_DIR` | create, validate, encrypt, restore | what a restore destroys was saved; a full backup fits its own keys |
| Update check, 4530–4721 | cached check result | compare versions | order of versions is the order of numbers |
| Updater, `scripts/update.sh`, `scripts/update_transaction.py` | installation tree, pre-update copy, containers | snapshot, replace, health check, roll back | old or new state, never a mixture |
| Installer, entrypoint, helper scripts | host directories, certificates | set up, restart | straight-line set-up |
| Browser code and templates, `app/static/js/app.js` | page state | filters, resumed connections | rendering |

How they interact. Every HTTP request runs inside `MaintenanceMiddleware`: it
holds `.restore.lock` shared until the response has been streamed, is refused
(503) while a restore manifest exists, and compares the restore generation on
disk with the worker's before it is served. A restore request gives the shared
lock back, asks for the exclusive one without waiting, writes a safety backup,
calls `replace_files`, reloads the keys and takes the shared lock again. A
starting worker takes the exclusive lock twice: to read `config.json` and to
migrate the database. The end of the first setup writes `config.json` under the
shared lock. Logins and the audit log use no lock of the application at all:
rows of `auth_events` are counted in one transaction and written in another,
and `auth.log` is rotated by whoever notices a new week. Accounts are signed with the key of `config.json`, which
is why a database and a configuration file have to change together. Requests
of different threads and workers share nothing else but files and SQLite
transactions, which pysqlite opens only before the first write.

Hard behaviour, listed line by line under `hazards` in `PROJECT.json`: kills
and failing file operations inside a restore and inside its rollback; the gap
between the shared and the exclusive lock; caches shared by threads; users read
at the beginning of a request and written at the end; rows, ids and codes that
change in between.

## Modules

| Module | Models |
|---|---|
| `AtomicStore` | abstract specification: a replacement of files takes effect in one step, or fails, or is killed |
| `RestoreFiles` | `replace_files` and `recover_pending_restore`, one action per file operation; implements `AtomicStore` |
| `Maintenance` | EXTENDS `RestoreFiles`: the lock, the workers and their caches, requests and restores; the steps of `RestoreFiles` happen while a thread or a starting worker holds the lock exclusively |
| `Maintenance_proofs` | the proofs about `RestoreFiles`, and then about the composition |
| `Accounts` | users, cookies and the requests that read and write them |
| `Accounts_proofs` | the proofs about it, for any number of request threads |
| `SchemaMigration` | what a start does to the users table of an older release, killed and repeated |
| `SchemaMigration_proofs` | the proofs about it |
| `Devices` | groups, devices, the import blocklist, imports, and the live status query |
| `Devices_proofs` | the proofs about it and about the frame headers of `HbbsCodec` |
| `Updater` | `update.sh` and `update_transaction.py`: two invocations, faults, kills, rollback by script and by hand |
| `Updater_proofs` | the proofs about it and about the numbers of `Versions` |
| `LoginLimit` | failed logins: counting, checking, recording, pruning, forgetting |
| `LoginLimit_proofs` | the proofs about it |
| `LogRotation` | `auth.log`, its weekly rotation and the removal of old files, one action per file operation |
| `LogRotation_proofs` | the proofs about it |
| `SetupToken` | `config.json` and the setup token: workers starting, the first setup, `config.json.tmp` |
| `SetupToken_proofs` | the proofs about it |
| `HbbsCodec` | the frames and protobuf messages of the live query, as functions |
| `Versions` | release numbers as the web interface and the updater compare them, as functions |
| `MCRestoreFiles`, `MCMaintenance`, `MCAccounts`, `MCSchemaMigration`, `MCDevices` (with `HbbsCodec`), `MCUpdater` (with `Versions`), `MCLoginLimit`, `MCLogRotation`, `MCSetupToken` | small instances |

A definition named "Mutant of ..." in a comment is no part of a specification:
it is a plausible mistake in the definition that follows it, kept to show which
property notices it.

### RestoreFiles

Disk variables: `live` (the managed files), `wal` and `shm` (SQLite sidecars),
`generation`, and the journal as `journal` (the directory), `copy`
(`old/<file>`), `manifest` (the file) and `record` (its list). A WAL is a pair
`base`, `result`: frames that turn one database into another. What SQLite reads
is `LogicalDb`: the result if the main file is that base (or already the
result), and `Corrupt` if it is another database. The rest of the variables is
the memory of the process that holds the lock: `pc` names the next file
operation, `todo` the files the current loop has still to visit.

`Save`, `WriteManifest`, `UnlinkWal`, `UnlinkShm`, `Install`, `NewGeneration`,
`UnlinkManifest`, `SyncJournal` are lines 112–133 in order; `Startup`, `Undo`,
`UndoWal`, `UndoShm`, `UndoGeneration`, `UndoUnlinkManifest`, `UndoSync` are
lines 75–96; `RemoveEntry` and `RemoveJournal` are `shutil.rmtree` in either
place. `...Fails` actions are an exception at that operation, with or without
its effect: `atomic_write` renames first and syncs the directory afterwards, so
a raise does not mean that nothing happened. `Crash` is SIGKILL at any point.
The loops visit files in any order (the code has one order; every prefix of it
is among those checked). `WriteFile`, `WriteDb`, `WriteWal` and `Checkpoint`
are other requests and SQLite while nobody holds the lock exclusively.

The model writes the page cache, not the platter: a power failure that loses
what was not synced is outside it.

### Maintenance

A thread goes `idle`, `admitted`, (`reload`, `mark`,) `serve`, `idle`; a
restore goes `serve`, `gap` (no lock), `verify`, `backup`, `replace`,
`replacing`, `reload_keys`, `release`, `regain`, `tail`. A worker goes `down`,
`config`, `create`, `up`, with the recovery of a journal in either of its two
critical sections. `pool` is the inode of `addressbook.db` that a worker's
connections are open on; `os.replace` makes a new inode. Which database is
valid under which keys is the constant `KeyOf`. The other actions of `/backup`
run in `serve`: `CreateBackup` and `DeleteBackup` are one step each (the
snapshot is one SQLite transaction, publishing takes a name that is free), a
full backup is two (`BeginFullBackup` takes the database, `FinishFullBackup`
the files), with everything that the shared lock admits in between.

### Accounts

A user's row is a record of the columns that decide who may do what, its
`signature` and, as history, the `account` it belongs to (ids can be reused). A
request is a record that holds the row it loaded, the row it wants, and a
stage; the stages are the points where another thread can run: `insert`,
`load`, `decide`, `commit`, `accept`, `delete`, `clear`, `start` or `keep`. `Updated` is
the rule of SQLAlchemy's unit of work that matters here: columns equal to the
loaded ones are not written, and of a collection only the difference. The
rows of `user_groups` are the column `groups`; `Row` is what the application
sees of it, because a membership in a group that is gone stays in the table (no
foreign keys are enforced) and is not joined. Group ids are signed, so
`CommitDeleteGroup` signs every member of the group again, with a new version:
its members are logged out, the administrator who deleted it included if he is
one. Its write transaction is open before the members are read, so only the
administrator's own row, loaded when the request began, can be out of date.
`Reauth` and `AcceptReauth` are `/reauth` with a recovery code: the code is
looked up and left where it is (1573, `consume_recovery=False`), so one code
answers `/reauth` any number of times. The release notes call recovery codes
"einmalig nutzbar"; what holds is that a code which a login or a change of the
second factor has taken off the row is accepted nowhere again, and that is what
`CodesUsedOnce` says.

`revoked` in a cookie, `spent`, `replayed`, `setups`, `accounts` and
`overtaken` are history variables that only properties read. `overtaken` notes
that a request has committed although what it went by was no longer so: the row
it had loaded, a group it gives, or that another local administrator remains
(`Commits`, `AsLoaded`). `Take` bounds with `MaxBeside` how many requests begin
beside another one.

Passwords and recovery codes are fresh numbers, the HMAC is the signed payload
itself, and knowing a password or a TOTP code is a free choice of the browser.

### SchemaMigration

`columns` and `row` are the users table, restricted to the columns that decide
what is converted and signed; `found` and `flags` are the memory of the process
(`user_cols` and the two `_SECURITY_SIGNATURE_...` entries of `app.config`).
`AddColumn` is one ALTER TABLE, which commits by itself because pysqlite has
not begun a transaction yet; `Convert` is everything from the first UPDATE to
the commit; `EnsureSignatures` the second transaction. `Releases` are the
tables that earlier releases left, signed rightly, wrongly or not. The format
that 0.5.2 to 0.5.24 signed with is no longer in the source: it is format 0,
which nothing accepts.

### Devices

`device`, `group` and `blocked` are the tables; a device's row has the three
columns that anything here depends on: the RustDesk id, the group and the
online flag. Ids are handed out as SQLite does (`NextAfter`), so ids of deleted
rows come back. A request that only talks to SQLite is one action. Two things
last long enough for anything to come in between, and are several: a device
form that is open in a browser (`OpenForm`, `SubmitForm`) and a live query
(`BeginQuery`, `HbbsAnswers` once per batch, `CommitQuery`; or `HbbsFails`).
`Requested` are the ids in the order of the first device that has each (`Firsts`,
`Kth`), `query[q].loaded` is what the session holds of each device (`Loaded`)
from before the network calls; `Written` is the UPDATE of changed columns only, and
`CommitQuery` fails as a whole if one of the rows is gone (SQLAlchemy's
StaleDataError). `Answer` is the bit field hbbs sends and `Decoded` what the
client reads from it; of the protobuf framing only "an answer, or an error that
writes nothing" remains. An import of several rows is the sequence of its
one-row imports, because nothing comes between them in this model. `barred`,
`touched` and `present` are history that only properties read. `SubmitForm`
stores the group the form was opened with, whether or not it still exists: line
4494 takes any number that was posted.

### HbbsCodec and Versions

Functions without state. Bytes are numbers and text is a sequence of them;
reading gives a record that says what was read, or `Failed` where the code
raises `RustDeskLiveStatusError`. `FirstIn` is the generator `_pb_iter_fields`
as its caller uses it: fields behind the answer are never looked at, so a
malformed one there is no error. `Failed` anywhere is the action `HbbsFails` of
`Devices`, an answer is `HbbsAnswers`. A release is a triple; `UpdateOffered`
and `UpdateInstalled` are what the web interface and the script make of an
installed release and a package, `Older` what both mean.

### LoginLimit

An attempt (`attempt[t]`) is `counted` or `refused`, then `failed`, `passed` or
`denied`, then recorded, with other threads, processes and the clock in
between; both forms, password and second factor, go through it. `events` is
the table, a function from ids to rows; a new row gets the id after the highest
(`NewId`). `Record` is `_record_auth_event`: the
pruning when it is due in that process, and the row; `RecordFails` is its
`except`, after the pruning was or was not committed. `wrong` and `lost` are
history: what was really guessed, and which of it left no row that counts.
`/reauth` is not among the attempts: it asks for password and second factor of
a session that is accepted already (1569–1576), calls no `_is_login_blocked`,
and records its failures as `reauth_fail`, which line 1301 does not count.
Guesses there are therefore neither limited nor part of what the two properties
say.

### LogRotation

`dir` leads from names to inodes, and `writer[w]` is a thread with its local
variables, so a writer may append to a file that was renamed or removed since
it opened it. The states `read` to `unlink` are the lines of
`_rotate_auth_log_if_needed` in order; `write_text` is two steps, because it
truncates first. Modification times are the numbers of the last lines.
`written`, `expired`, `overlapped` and `late` are history; the last notes that
a rotation listed the old files while a writer was still to append to one of
them (`Behind`). Only the weekly setting is modelled; other numbers of days
change nothing but the bucket's name.

### SetupToken

Each worker starts in two critical sections (`config`; `create` and `finalize`)
with a gap between them, then serves; `/setup` is `commit` and `finish` under
the shared lock, which two requests can hold. `write[w]` is
`_write_runtime_config`: open `config.json.tmp`, fill it, rename it, on an
inode that another writer may have opened too. `Raised` is the difference
between the two callers: a start fails, `_finalize_setup_token_if_admin_exists`
logs the error and goes on with what it had. The three keys are one `key`;
random values are fresh numbers.

### Updater

`tree` is the installation with one file of each kind that is treated
differently, `data` stands for both persistent directories, `image` is what
the container was built from. A running script goes `prompt`, `down`,
`snapshot`, then (traps set) `unzip`, `obsolete`, `local`, `build`, `up`,
`health`; `rb_...` are the steps of `rollback_failed_update` and of
`update_transaction.py rollback`. `Then` and `Undone` say what `set -e` and the
traps make of a command that fails after it had its effect, `Fail` of one that
fails before or is interrupted. `stuck` is an updater that was killed or whose
rollback failed: the administrator follows `ADMIN-GUIDE.md:26`. Such an
administrator also answers no to a second update meanwhile; the script cannot
know. `owed` and `before` are history variables.

## Runs and what they show

| Run | Instance | Shows |
|---|---|---|
| `restore` | database and two other files, two contents; at most 2 replacements, 2 faults, 2 other writes | `IInv`, `ManifestIsSound`, `ServedDatabaseIsIntact`; the refinement `ImplementsAtomicStore` |
| `restore_interrupted` | database and one file | refutes `InterruptedRestoreIsRecovered` |
| `maintenance_safety` | two workers, three threads, one version per key, one backup | `ServedStateIsCurrent`, `FullBackupsFitTheirKeys` |
| `maintenance_writes` | two workers, one thread each, two versions per key, writes | `KeysFitDatabase`, `ReplacedDatabaseIsBackedUp` |
| `maintenance_liveness` | two workers, two threads of one and one of the other, one replacement, 1 fault or kill | under fairness, `RequestsEnd` and `RestartRecovers` |
| `accounts` | two request threads, two browsers, two user ids, one group; a fresh installation or two administrators, one with a second factor; 4 requests, one of them begun beside another | `SignaturesVerify`, `LocalAdminRemains`, `ChangesRevokeSessions`, `CodesUsedOnce`, until a request is overtaken |
| `migration` | two users, every released table layout, 2 kills | `NothingInvalidIsSigned`, `MigrationIsComplete` |
| `devices` | three devices, three RustDesk ids, two groups, batches of two, one query, 3 requests, forms as old as they may be | `OnlyFormsMisfile`, `DeletedStaysOut`, `StatusIsWhatHbbsSaid`, `EditsSurviveQueries`; while starting, that bit field, frames, varints, requests and responses are read as they were written, and broken off ones are noticed |
| `updater` | two invocations, two releases, 2 faults, 1 kill, 2 writes | `AllOrNothing`, `RunningFitsData`, `AcceptedWritesSurvive`, `ServiceIsBack`; while starting, where release numbers are ordered and where not |
| `login_limit` | two processes with a thread each, two addresses, limit 2, window and retention of one tick, table of two rows, 4 attempts, 2 ticks, 1 fault | `GuessesAreLimited`, `RefusedForOwnGuesses` |
| `log_rotation` | three writers, three weeks, 5 lines or faults, one rotated file kept, 1 fault or kill | `NoLineVanishes`, `WeeksAreKept` |
| `setup_token` | two workers, 2 kills, 1 failing write; any token, completion mark, administrator and environment to begin with | `WorkersAgree`, `KeysSurvive`; under fairness, `TokenIsSpent` |

Each run of a module with a type invariant checks that too, once per module
(`IInv` contains the one of `RestoreFiles`).

Why the bounds are enough. In `restore`, two files besides the database give
a loop with a visited, a current and an unvisited file; two faults give a
failure and a kill in its rollback, or two failures; two replacements give one
that meets the leftovers of the other; two other writes give a WAL that is
older than a replacement and one that is younger. More files, calls and faults
repeat these, and the theorems below hold without any bound. In the
maintenance runs two threads of one worker share caches and the third has its
own; two restores race. In `maintenance_liveness` two threads are what it takes
for requests of one worker to overlap while the other one starts; there
`MaxFaults = 1` is the kill that leaves a journal. In `accounts` two
administrators who are there already save the requests that would create them:
two log in and two change or delete each other, or one logs in with the
password and a code and both threads use the code; one pair of overlapping
requests is what every refutation below needs. Longer sequences are the same
configuration with `MaxBeside = 0`, `Administrators = {0}` and six requests:
set up, prepare and enable a second factor, log in with the password and a code
in the other browser, and use the code again; or set up, create a second
administrator in a group, log him in, let him delete the group. That passes
too. In `migration` rows do not influence each
other: two are enough for a good and a bad one, and a kill matters in two places (between
columns, before signing). In `devices` three devices give duplicates of one id and a second
id, and a query of two batches; address books of up to three devices with any
ids, groups and status are initial states, so the three requests are all spent
on what matters: one starts the query, two change something under it. With two
queries and two RustDesk ids nothing is violated either (1.4 million states). In
`updater` two faults are a failing command and a
failing rollback, and the kill can hit the administrator's attempt. In
`login_limit` the settings are below their floors, so that the clamps matter;
four attempts are two that reach the limit, one that passes it in parallel and
one that is refused; with the row limit of two, pruning by number and by age
both happen. In `log_rotation` three weeks are two rotations and the removal of the
first file; the third writer lets one rotate while two others append late, and
with five lines (a fault costs one) that is enough to refute `WeeksAreKept`
without its condition `~late`; two writers or four lines are not. In `setup_token`
the two kills can hit both workers, or a start and its repetition; which values
are random does not matter. The codecs are evaluated at the edges of their
sizes, and for every answer of up to four bytes out of eight that matter. Symmetry is
used for users, browsers, code names, request threads, RustDesk ids, group names,
updaters, addresses and log writers, and never with liveness properties. Deadlock is checked only in
`migration`: elsewhere bounded counters run out, and a server nobody uses stands
still.

### What TLC refutes

* `restore_interrupted` — `app/restore.py:124` writes the manifest and sets
  `prepared` only afterwards. If the write raises after the rename (the
  directory sync fails), the `finally` clause removes a journal whose manifest
  exists; a kill after the first entry leaves a manifest without its copies,
  and every later start fails at line 88. The release notes promise recovery at
  startup. `ManifestIsSound` shows that the files themselves are still the old
  ones then: removing the journal by hand is safe.

The others have no run of their own; each is one change of a configuration
away.

* `LocalAdminRemains` without its condition `~overtaken`, in
  `MCAccounts.cfg`: the last-administrator check (1816, 1866) counts
  before the write transaction and is not repeated in it, so two administrators
  who demote or delete each other leave none. `ADMIN-GUIDE.md:155` says the last
  active local administrator is protected.
* `SessionsBelongToTheirAccount`, as an invariant of the same configuration:
  `users.id` is a plain rowid and new users start at session version 1, so the
  cookie of a deleted newest user is good for the next user that is created. No
  concurrency is needed. `docs/security/SECURITY-REPORT.md:33` says
  security-relevant account changes revoke existing sessions.
* `GroupReferencesExist`, as an invariant of `MCDevices.cfg`:
  `_fill_device_from_form` (4494) stores the posted group id as it comes, and no
  connection asks SQLite to enforce foreign keys. A form that was open while the
  group was deleted leaves a device that refers to nothing: every backup of that
  database is refused (3812), and the next new group can get the id and its
  users the device. What `devices` checks and `ReferencesAreKept` proves,
  `OnlyFormsMisfile`, is that such a form is the only way there, as long as
  requests that only talk to SQLite do not overlap.
* `RestartRecovers` without its hypothesis `RequestsPause`: `flock` promises no
  order, so requests of the other worker, though each ends at once with a 503,
  can overlap for ever and keep the starting worker from the exclusive lock.
  Nor does anything start a worker for a journal that is left because `rmtree`
  merely failed (92–96, 142; the caller's error is answered and the worker goes
  on): until somebody restarts one, that journal refuses every further restore.
* `NoLineVanishes` without its condition `~overlapped`: two processes notice
  the new week together, both find the same free name, and the second rename
  replaces last week's log by the few lines written since; or one that computed
  the date before midnight rotates the new week's log back under the old name.
  The docstring (1209) says "at most once per ISO week". Related, and the reason
  for the conditions of `WeeksAreKept`: while the state file cannot be written,
  every event rotates again; an append that comes after the rename makes the
  renamed file look new, so that a younger one is removed before it; and an
  append that is still under way when a rotation lists the files by age (1256)
  can go to one of those it is about to remove. The last one came out of the
  proof: `Outdated` was not inductive, and with three writers and `~late` taken
  away TLC finds a line of last week that is gone.
* `KeysSurvive` without `~raced'`: two `/setup` requests of an empty address
  book hold the shared lock together and write through one `config.json.tmp`.
  The second `open` empties the inode that the first is about to rename, so
  `config.json` is empty until the second has written, and stays so if it is
  killed: no worker starts any more, and the keys are gone.
* `GoodUsersAreMigrated`, as an invariant in `MCSchemaMigration.cfg`: the
  conversion commits `security_signature_version`, but which users are to be
  signed is only in memory (873–874). After a kill before line 758 has
  committed, the next start finds nothing to do, and users whose old signature
  was valid are rejected from then on. A kill between `ADD COLUMN role` and the
  conversion likewise leaves no administrator. `NothingInvalidIsSigned` shows
  that the error is on the safe side.

Release numbers: `ReleasesAreConfused` in `MCUpdater` holds what the formulas
give outside the range of the theorems. In the script 0.10.0 and 1.0.0 are both
1000 (`update.sh:84` writes the numbers behind each other), so the web interface
would offer an update from one to the other that the script refuses as not
newer; in the web interface (4538) 1.0.100 and 1.1.0 are the same; `v100.0.0` in
a package name is read as the compact form of 1.0.0. No release so far has such
a number.

What `GuessesAreLimited` does not promise: an attempt whose recording fails
does not count, and when the table is at its row limit, any other events push
failures out of it that are younger than the window.

### What concurrent requests break

`LocalAdminRemains` above is not alone. Without the condition `~overtaken` TLC
also refutes, in `MCAccounts.cfg`, `SignaturesVerify` (1103: the signature is computed over the row a
request loaded, UPDATE writes only the columns it changed, so two changes of a
user merge into a row with a signature of neither, and that user cannot log
in), `ChangesRevokeSessions` (1082: both requests write version n+1),
`CodesUsedOnce` (4086: both find the code in the list they loaded), the part of
`AccountsTypeOK` about codes without a factor, and, as an invariant of its own,
`OneAdminBySetup` (1470: both find no user). All have one cause, a row read
before and written inside the transaction, and one remedy (begin the write
transaction before reading, or compare the version in the UPDATE); they are
not listed as further runs. `overtaken` marks the commit where the damage is
done. Until there is one the rules hold, whatever overlaps: two requests for
different users, a login beside an edit, a request that is slow to answer; the
run shows that for its instance, and `Accounts_proofs` for any number of
threads.

Nor has one rare race of the updater a run of its own: with `Targets = {2, 3}`
in `MCUpdater.cfg` TLC refutes `RunningFitsData`. Version and package are
compared (`update.sh:588`) before the lock is taken (596), so an invocation
that was overtaken by a whole update to release 3 installs release 2 over it.
It is the hypothesis `Ordered` of two theorems below.

## Fairness

* `RestoreFiles!Fairness`: file operations under the lock return, and a worker is
  started again while a journal is left. Only the refuted
  `InterruptedRestoreIsRecovered` is checked under it, where a generous
  assumption makes the counterexample stronger: recovery fails although workers
  are started again and again.
* `SetupToken!Fairness`: a worker goes on with the step it is at and is started
  again when it is down; nobody is obliged to complete the setup, and kills and
  failing writes are not fair. Other requests, which hold the lock shared too,
  are not in this module; that they leave gaps is the assumption below.
* `MaintenanceFairness`: weak fairness for every step of a thread, of a worker
  (a killed one is started again: gunicorn respawns its workers, compose has
  `restart: unless-stopped`) and for file operations; also for `BootLock`,
  because `flock` wakes a waiter when the lock is free and nobody else wants it,
  and no more than that. Strong fairness only for `Regain`: a restore asks for
  the *shared* lock again, which overlapping requests do not keep from it; it
  meets only the exclusive holders, other restores and starting workers, and
  they come one by one, each on the order of an administrator or of a process
  that had to start first, with the lock free in between.
  Arrivals, `BeginRestore` and kills are not fair.

`RestartRecovers` assumes `RequestsPause`, that in the end nobody uses the
application, in place of a promise `flock` does not give. It speaks of a worker
that is down, because only that gets a worker started, and of journals whose
copies are complete; `restore_interrupted` is the case it leaves out.

## What is proved

`Maintenance_proofs` proves first, for any finite or infinite set of files, any
contents and any number of calls, faults and writes, from the constant
assumptions `DbAssumption` (the database is a managed file), `NullAssumption`
(the markers are not contents) and `BoundAssumption` (bounds are numbers):

| Theorem | Statement |
|---|---|
| `InductiveInvariant` | `Spec => []IInv` |
| `TypeCorrect` | `Spec => []TypeOK` |
| `SoundManifest` | `Spec => []ManifestIsSound` |
| `IntactDatabase` | `Spec => []ServedDatabaseIsIntact` |
| `AtomicReplacement` | `Spec => ImplementsAtomicStore` |

None of the last four is inductive by itself: whether a rollback gives the old
files back depends on what the call saved before it wrote the manifest. `IInv`
says so phase by phase. `SavingInv`: until the manifest exists nothing has been
installed, and exactly the visited files have a record and a copy of what they
hold. `PreparedInv`: afterwards every touched file has both, the loops leave
new files behind them, and no WAL once it is unlinked. `UndoingInv`: a rollback
leaves old files behind it. `CleanupInv`: a manifest that is being removed
without a rollback belongs to a replacement that installed nothing — the case
that makes `ManifestIsSound` a disjunction. `DbInv`: what recovery would leave
as the database is never a mixture. `PhaseInv` ties the disk to the phase.

The refinement maps `store` to what recovery would leave on disk (`Effective`:
the copy where a manifest and a copy exist, otherwise the file as SQLite reads
it). `UnlinkManifest` is `Commit`; every step before it, every step of a
rollback, and every kill leaves `Effective` as it was; ends of calls are
`Return` or `Raise`. `StepIInv` and `StepRefines` have one step per action.

About the composition it proves, for any workers, threads, files, contents, calls,
faults and kills, from the assumptions above and `WorkerAssumption` (every
thread has a worker, `config.json` is a managed file other than the database,
holders of the lock are told apart):

| Theorem | Statement |
|---|---|
| `MaintenanceInvariant` | `MaintenanceSpec => []MInv` |
| `MaintenanceTypeCorrect` | `MaintenanceSpec => []MaintenanceTypeOK` |
| `ServedStateCurrent` | `MaintenanceSpec => []ServedStateIsCurrent` |
| `KeysAlwaysFitDatabase` | `MaintenanceSpec => []KeysFitDatabase` |
| `FullBackupsRestorable` | `MaintenanceSpec => []FullBackupsFitTheirKeys` |
| `SafetyBackupComesFirst` | `MaintenanceSpec => ReplacedDatabaseIsBackedUp` |
| `ComposedReplacementIsAtomic` | `MaintenanceSpec => ImplementsAtomicStore` |

`MInv` is the journal's `IInv` and six parts. `LockInv`: a stage determines
which lock is held, so the exclusive lock excludes every stage of every other
thread. `HolderInv`: the files change in `replacing` and in the recovery of a
starting worker only. `CacheInv` is the argument for comparing generations: the
exchange raises the generation before it ends, success or rollback, so a worker
that has the present one read its keys and opened its connections after the
last exchange. That holds although threads of one worker share the cache and
one of them marks it current for the others. `ThreadInv` carries it through the
stages, over the gap of a restore in particular: what was `seen` before the
unlock is compared after the lock. `WalInv` says whose frames a WAL has,
because the SQLite connections that a restore closes checkpoint it. `KeysInv`
and `BackupInv` speak of `Effective`, what a recovery would leave, and so hold
through a killed exchange as well; a full backup in two steps is right because
its thread keeps the shared lock (`ThreadInv`, stage `archive`). The proof reuses
the step lemmas of the journal, so that the composition has only to
show that its steps are steps of `RestoreFiles` or leave its variables alone.

`Accounts_proofs` proves, for any request threads, ids, browsers, groups and
number of requests, one beside another or not, from `AccountsAssumption` (ids
are positive numbers, bounds are numbers) and `NoUserAssumption` (the mark for
a free id is no row):

| Theorem | Statement |
|---|---|
| `AccountsTypeCorrect` | `Spec => []AccountsTypeOK` |
| `SignaturesAlwaysVerify` | `Spec => []SignaturesVerify` |
| `LocalAdminAlwaysRemains` | `Spec => []LocalAdminRemains` |
| `RevokedSessionsStayRevoked` | `Spec => []ChangesRevokeSessions` |
| `CodesAreUsedOnce` | `Spec => []CodesUsedOnce` |

The invariant is `TypeInv /\ (~overtaken => SafeInv)`: the code has no lock that
would keep a request from being overtaken, so its rules end there. `SafeInv` is
inductive for any number of threads because each of its parts about a request
says what the request loaded, not what the table still holds; `Commits` compares
the two when it writes. `RequestInv`: what a request wants to write is the
loaded row changed by its rule and signed, and the codes it is to store are its
own number's. `UsersInv`: rows verify, belong to different accounts and share no
recovery codes. `SessionsInv`: no session is newer than its user, and a revoked
one is strictly older -- which the reuse of an id does not spoil because the new
user is another account, nor an answer that comes late, because it takes the
version of the row and the mark of the cookie as they are then. `CodesInv`: a
spent code is in nobody's list, and codes about to be stored are newer than all
others, so a spent one never comes back. `AdminInv`: a request that takes a
local administrator away counted another one, who is still there when it
commits, or it was overtaken.

`SchemaMigration_proofs` proves, for any users and any number of kills, from
`NoSignatureAssumption` (the marker for "no signature" is not a signature) and
`MigrationAssumption`:

| Theorem | Statement |
|---|---|
| `NothingInvalid` | `Spec => []NothingInvalidIsSigned` |
| `SchemaTypeCorrect` | `Spec => []SchemaTypeOK` |
| `MigrationCompletes` | `Spec => []MigrationIsComplete` |

The invariant of the first says why a repeated migration is not fooled: the columns a start
finds include those of the older release (`FoundInv`), so a missing signature
counts as new only where there was no such column; a row that did not verify
keeps its signature and the role it could cover (`BadRowsInv`); and where roles
were added, signatures are of no format that is accepted (`OldSignatures`).
`BadRowsFail` draws the conclusion: such a row verifies in neither format. The
other two rest on `CompleteInv`, the path of a migration nobody kills:
`Untouched` until the rows are converted in one transaction, `HalfDone` while
only the flags in memory say what is left to sign, `Done` at the end, where
every later start stays.

`Updater_proofs` proves, for any number of invocations, releases, failures,
kills and writes, from `UpdaterAssumption` (targets are releases after 1,
bounds are numbers) and `MarksAssumption` (the marks are no releases and no
data):

| Theorem | Statement |
|---|---|
| `UpdaterInvariant` | `Spec => []UInv` |
| `UpdaterTypeCorrect` | `Spec => []UpdaterTypeOK` |
| `NoAcceptedWriteIsLost` | `Spec => []AcceptedWritesSurvive` |
| `ServiceComesBack` | `Spec => []ServiceIsBack` |
| `ServiceFitsData` | `Ordered`: `Spec => []RunningFitsData` |
| `UpdateIsAllOrNothing` | `Ordered`: `Spec => AllOrNothing` |

`OneBusy`: one invocation at most is past its prompt, one that was killed and
left the rest to the administrator included. `CopyInv` is the centre: whoever
changes files has a backup that holds the tree, the data and every owed write
of the moment the service stopped. `InstallInv` and `RollBackInv` say how far
the loops have come; `PreparingInv`, that nothing has changed before the
snapshot; `RestInv`, what the installation is between updates. `Ordered` (one
invocation, or one release to install) excludes the race of
`update.sh:588` described above, and only what relates data to releases
(`NotOlder`) needs it.

`SetupToken_proofs` proves, for any finite number of workers, any kills and
failures of writes, from `SetupTokenAssumption`:

| Theorem | Statement |
|---|---|
| `SetupTokenInvariant` | `Spec => []STInv` |
| `SetupTokenTypeCorrect` | `Spec => []SetupTokenTypeOK` |
| `ServingWorkersAgree` | `Spec => []WorkersAgree` |
| `KeysAlwaysSurvive` | `Spec => KeysSurvive` |

Until two setups have crossed (`raced`), `WriterInv` says that one worker at
most writes, that the inode it holds is the one named `config.json.tmp`, and that
its text has the keys of the file that is still there; so the rename changes no
key, and a kill before it changes nothing. `LockInv` is mutual exclusion of the
two critical sections of a start, `AgreeInv` what the memory of a worker has to
do with the file, `TypeInv` counts the accounts that requests are about to make.

`Devices_proofs` proves, for any ids, names, queries and number of requests,
from `DevicesAssumption` (ids are positive numbers, the marker for "no group" is
no name) and `MarksAssumption` (the markers for "no device" and "no query" are
no row and no query):

| Theorem | Statement |
|---|---|
| `DeletedAreNotImported` | `Spec => DeletedStaysOut` |
| `DevicesTypeCorrect` | `Spec => []DevicesTypeOK` |
| `StatusFromHbbs` | `Spec => StatusIsWhatHbbsSaid` |
| `EditsAreKept` | `Spec => EditsSurviveQueries` |
| `ReferencesAreKept` | `Spec => OnlyFormsMisfile` |

The first rests on `BlocklistInv`: what history calls barred is in the
blocklist, because every deletion writes both and only a release removes
either. `ImportsAreFiltered` and `OthersAddNone` then say that only an import
adds a device, and only one that is not blocked.

The others follow from `StatusInv`. Its part about a running query is
`QueryOK`: the ids are distinct, those of the batches so far have an entry, the
entry is true for just those that hbbs called online, each device that was loaded
has its id among them, and a device that nobody touched since is still as it was
loaded. Without the last, the UPDATE of changed columns could leave an untouched
device with neither state; without distinct ids, a later batch could contradict
an earlier one. Three facts about data carry it: every number up to the size of a
finite set is the place of one of its elements (`Places`), so `Requested` lists
every id once (`RequestedIds`); and `Decoded` reads from `Answer` what hbbs put
there (`AnswersAreDecoded`), which is `j = (j \div Bits) * Bits + j % Bits` with
the bits of a byte counted from its high end. `OnlyTheseEnd` says that only
a commit or a failure ends a query. For `ReferencesAreKept`, names of groups are
names and rows are rows, so that a group an import creates or finds exists
afterwards (`FiledRight`, with `LastExists` and `NextIsNew`: the id after the
largest is new) and that writing one column leaves the others; a dangling
reference that is there already may be repaired by a new group that gets the
id, but no step other than a form's makes one.

Without any assumption, the first in `Devices_proofs` and the others in
`Updater_proofs`:

| Theorem | Statement |
|---|---|
| `HeaderIsRead` | for every length up to 2^30 - 1, the header says its own size and the length |
| `WebOrdersReleases` | the web interface's number orders releases with minor and patch up to 99 |
| `ScriptOrdersReleases` | the script's number does with minor up to 9 and patch up to 99 |

A header is read low byte first, so the first says that the bytes of a number
of one to four bytes add up to it (`TwoBytes`, `ThreeBytes`, `FourBytes`, each
from the one before by `Divided`) and that the two low bits of the whole are
those of its first byte. The other two are `Lexicographic`: three numbers are
ordered as digits of a base that none of them reaches.

`LoginLimit_proofs` proves, for any finite number of threads, any processes,
addresses and settings, and any number of attempts, faults and ticks, from
`LoginLimitAssumption` (settings are integers, the floors and ceilings numbers
in order):

| Theorem | Statement |
|---|---|
| `LoginLimitInvariant` | `Spec => []LLInv` |
| `LoginLimitTypeCorrect` | `Spec => []LoginLimitTypeOK` |
| `GuessesStayLimited` | `Spec => []GuessesAreLimited` |
| `RefusalsAreDeserved` | `Spec => RefusedForOwnGuesses` |

`GuessesAreLimited` counts guesses, `_is_login_blocked` counts rows, and neither
count bounds the other by itself. `KeptInv` ties them: a guess of the retention
period that is not lost is with the thread that made it or in a row, so pruning
by age takes none of the window (`Settings`: the clamps make no window longer
than the retention). `RowsInv` and `GuessesInv` make that one-to-one.
An address that is admitted therefore has fewer than `Limit` rows, and every
other guess of its window is held by another thread. `BoundInv` is what the
next step needs: the guesses of an address and the threads that were admitted
and may still add one are at most `Limit - 1` and the number of threads
together. A guess moves one from the second number to the first, the clock and
the losses only lower the first. `RefusalsAreDeserved` maps the counted rows to
their guesses, which `RowsInv` makes distinct.

`LogRotation_proofs` proves, for any writers, weeks, lines and faults, from
`LogRotationAssumption` (bounds are numbers; there is a week):

| Theorem | Statement |
|---|---|
| `LogRotationInvariant` | `Spec => []LRInv` |
| `LogRotationTypeCorrect` | `Spec => []LogRotationTypeOK` |
| `LinesStay` | `Spec => []NoLineVanishes` |
| `WeeksStay` | `Spec => []WeeksAreKept` |

`FilesInv`: a file has one name at most, and none once it was removed.
`OneRotates`: as long as two rotations have not overlapped, the name that one
of them has found free stays free, so its rename replaces nothing; with that
every file is named or removed as too old, which is `LinesStay`, faults and
kills included. The rest holds while rotations do not overlap, nothing fails
and no append is late (`QuietInv`). `StateInv`: what a rotation read of the
state file and of `auth.log` is still so. `NamesInv`: rotated files have the
names of different weeks, all over, and lines no younger than their name.
`Appending`: nor will an append under way bring a younger one. `Outdated`: a
file that was removed, or is about to be, has no line of the last `Keep` weeks
and gets none. Its counting argument is `OldLines`: a file is removed if `Keep`
others are newer by their last line; with its own these are the names of
`Keep + 1` different weeks, none before the week of its last line and all
before the present one. `LowestExists` gives
the free name that `FreeName` looks for.

Only model-checked: liveness (`RequestsEnd`, `RestartRecovers`, `TokenIsSpent`;
it needs fairness and ENABLED), and the varints and fields of `HbbsCodec`, which
are recursive. Every invariant and every action property of a passing run is a
theorem, two of `Updater` under the hypothesis named above.

## Not modelled

Cryptography (HMAC, Fernet, TOTP) beyond "fits or does not fit"; file formats
other than those of the live query; rendering; the content of configuration;
loss of unsynced data at a power failure; restores in the models of accounts
and logins; passwords and descriptive columns of devices, parsing of imported
files, the SSH transfer; usernames and profile fields in the signature, the
copies of the account actions under `/settings`; what a user sees of the devices,
which follows from role and memberships; transient secrets and the window of a
fresh authentication; limits that an administrator changes while failures are counted; the waiting time in
the message to a locked-out user; the re-signing in
`scripts/reset_security_lockout.py`, which writes the database without the
lock. The component list in `PROJECT.json` says for each part whether it is
modelled, and the hazards without a property say what is planned for them.

Of the documentation, one imprecision has no run: `ADMIN-GUIDE.md:293` asks
for a restart after a full restore so that `config.json` is read again; the
keys are in fact reloaded by every worker (`_reload_runtime_keys`), other
settings are not.

## Plan

Done, in this order: the restore journal (the one place where a mistake loses
all data), the lock and the workers around it, accounts, the migration of the
users table, the updater, devices with imports and live status, backups, failed
logins, the audit log, `config.json` and the setup token, the codec of the live
query, release numbers.

1. `Accounts`: restored databases that revive sessions.
2. `Devices`: requests that overlap (the blocklist read before the rows are
   inserted, two imports that create one group).
3. Transient secrets and the continuation after a fresh authentication.

# A verification project for Crowley's Cloud

TLA+ modules of the server (C++, `src/server`) and of the parts of its clients
(Flutter, `src/lib`; Svelte, `src/server/web`) that take part in its protocols,
the TLC configurations that check them on small instances, and theorems about
them for every instance, checked by TLAPS. Paths below are relative to the
repository (`src/` here is its root).

Contents: [the system](#1-the-system), [modules](#2-modules),
[the models and the code](#3-the-models-and-the-code),
[runs](#4-runs-bounds-and-fairness), [proofs](#5-proofs),
[findings](#6-findings), [not modelled](#7-what-is-not-modelled),
[plan](#8-plan).

## 1. The system

A server stores the files of several users. With `hash_files` on, the default
treated here, the content of a file is an encrypted *blob*
`storage_root/data/<sha256 of the plaintext>`; identical files of all users
share one blob. Rows of SQLite tables say which user has which path with which
hash. Every storage request takes `configMutex` shared, enters the maintenance
gate, and, when it changes something, takes `storageMutex`; most handlers keep
all three until they return.

| Component (main sources) | State it keeps | Operations | What is hard about it | What makes it correct |
|---|---|---|---|---|
| Key rotation, gate, start-up (`EncryptionRotationService.cpp`, `StorageActivity.hpp`, `DurableFiles.hpp`, `main.cpp`) | key file, journal rows, `.rotate-new` files, `blocked_`, leases, worker thread | start, resume, recover, stop; enter/leave; the worker's `run()` | ends of the process between rename, sync and journal; loss of power; handlers and streams that still run; failed steps | the key of every object is kept somewhere at every moment; nothing is served under the wrong key; a begun rotation ends |
| File store and trash (`TrashService.cpp`, `FileIndexService.cpp`, `FileController.cpp`) | `file_index`, `trash`, `data/` | upload, create folder, move, trash, destroy, restore, purge, expiry | shared blobs; one row per path but several trash entries; several statements without a transaction | no deletion takes what others name; restoring never overwrites unasked; deleted things are found again |
| Thumbnail queue (`ThumbnailQueue.cpp`) | a queue, two key sets, two workers, a condition variable | enqueue (two overflow policies), pop, finish, clear, stop, set capacity | lost wakeups, duplicates, bounds, a key that was replaced meanwhile | sets exact, no task forgotten, no stale key used, stop returns |
| Uploads and quota (`FileController.cpp`, `QuotaService.cpp`; `lib/main.dart`, `lib/sync_service.dart`, `web/src/api/files.js`) | `.tmp_uploads`, `upload_reservations`, the clients' offsets | status, chunk, publish, release; reserve; retry, cancel | lost answers, late and repeated chunks, parallel uploads, failures in between | bytes in place, quota kept, success means published, no reservation left |
| Accounts (`UserService.cpp`, `AuthController.cpp`, `AdminController.cpp`, `JwtMiddleware.cpp`) | users, refresh tokens, `auth_version`, reset codes | register, log in, refresh, log out, revoke, block, change roles, reset, change the signing secret | a request is authorised before it is carried out; the last administrator; a crash between revocation and the new secret | what was revoked stays out; somebody can administer; the superuser stands |
| Account deletion (`UserService.cpp` 464-690, `main.cpp`) | `account_deletions` with its manifest and phase, a reservation without expiry, staged copies | start, copy, transfer, clean up, finish, retry, resume at start-up | interrupted between any two steps, others go on between the attempts, two deletions at once, a start that skips resumption | nothing that others have is lost, nothing of the account remains, it ends |
| Session keeping of the clients (`client.js`, `auth.js`, `files.js`; `authenticated_http_client.dart`, `auth_service.dart`) | tokens in stores and localStorage, `isRefreshing`, `failedQueue`, broadcasts; secret store of the app | send, refresh, retry, wait, sign in and out, reload | several requests and tabs find the token expired at once; answers and broadcasts that come late | nobody waits in vain; nobody is signed out without a cause |
| Configuration (`ConfigService.cpp`) | `config.local.json`, `config_`, revision | save, rotate signing secret, finish encryption rotation | two places of the same value | partly: the encryption key, the signing secret, the trash retention |
| Rate limiter, public links, sharing flags | counters; share tokens; `is_shared` | allow; create, open, revoke; share, unshare | flags of folders and what is below | not modelled (section 7) |
| Clients: transfers, folder synchronisation | transfer items, pause and cancel flags; saved sync state | pause, resume, cancel; scan, upload | callbacks after a cancel | not modelled, but for the upload loops |

How they interact. Handlers and the rotation meet at the gate: a handler holds a
lease, `start()` closes the gate under `configMutex` exclusively, and the worker
waits for the leases before it touches a blob. Streams and thumbnail tasks carry
the encryption key they were started with: the worker waits for the streams, and
a task with another key is dropped. The file store and
the quota meet in `usage()`, which sums live rows, trash rows and reservations.
A deletion removes blobs by the same rule as the trash, and both hold
`storageMutex`; it reserves the recipient's room where uploads reserve theirs. A
handler is authorised by the middleware, and by `getAuth` a second time once it
holds the lock. `ConfigService` writes the configuration file that the rotation needs to be
durable before it removes its key file. `main.cpp` opens the database, starts the
thumbnail workers, lets the rotation recover and then resumes account deletions.

The behaviours hard to test in this code are listed, line by line, under
`hazards` in `PROJECT.json`, with the properties that watch them.

## 2. Modules

| Module | Contents |
|---|---|
| `EncryptionRotation` | rotation, gate, requests, start-up, failures |
| `BlobVault` | the abstract specification of what rotation promises; `EncryptionRotation!Vault` is the refinement mapping |
| `FileStore` | index, blobs and trash, statement by statement |
| `ThumbnailQueue` | queue, workers, condition variable, stop |
| `ResumableUpload` | clients, late requests, chunk handler, quota |
| `Accounts` | users, roles, tokens, revocation, reset codes, the signing secret |
| `AccountDeletion` | what becomes of the files of a deleted account, in both storage layouts |
| `Sessions` | tabs, app and server around one refresh token |
| `Totals` | sums of sizes over sets of rows, which the quota, the trash and the deletions use |
| `MC...` | the instances TLC checks: sizes, candidates, symmetry |
| `...Proofs` | inductive invariants, lemmas, theorems; `TotalsProofs` has the lemmas about sums |

A definition commented `Variant:` is what a plausible mistake would make of the
definition after it. No specification uses it: putting it in place of that
definition must make TLC report the property it is registered with under
`mutants`.

## 3. The models and the code

### EncryptionRotation

State: each file the rotation writes has two values, what processes see
(`source`, `staged`, `keyFile`, `conf`) and what a loss of power leaves
(`...Disk`) until its directory is synced. The database rows `row`
(`encryption_rotation`) and `journal` (`encryption_objects`) are durable at
commit. `index` is the set of hashes that `file_index` or `trash` names. The
process has `blocked` (the gate), `lease`, `memKey` (`config_.encryptionKey`),
`pc` (the worker) and `starter` (a call of `start()`).

A ciphertext is the pair of its key and its nonce, so comparing digests is
comparing pairs: the journal can tell a replaced object from an old one exactly
when the code can.

Actions: `BeginRequest` to `FinishRequest` are the handlers as the gate sees
them; `StartRotation` to `StartFails` are `start()`; `Drain` to `WorkerExits` are
`run()`, one action per step that an end of the process can separate from the
next: staging, flush, journal, rename, directory sync, journal, and for the
configuration and the key file likewise. `Pause` is the catch of `run()`.
`Shutdown`, `ExitProcess`, `Kill`, `LosePower` and `Boot` are the process.

What storage requests write is taken as durable at once; their own durability is
not the subject. An administrator may set `CROWLEYS_ENCRYPTION_KEY` before a
restart during a rotation; at other times only the key in use could be right.

### FileStore

`index[o][p]` is the row of owner `o` and path `p` (directory or file, hash,
size, live or deleted); the uniqueness constraint of the table is the function.
`data` is the set of blobs, `trash` the table of entries. Handlers hold
`storageMutex`, so `call` is the one under way; each of its SQL statements and
each removed blob is a step, and `Cut` ends it anywhere, for an end of the process
or an exception. The shared scope is the owner 0: it
has rows but no trash, because `deletePaths` only clears the sharing flag
there (`FileController.cpp:1902-1909`) and calls `moveToTrash` for private paths
alone; its rows share blobs with everyone else's.

Paths are sequences of names, and the SQL prefix test is `IsPrefix`. `Candidates`
stands for `name (1)`, `name (2)` and so on.

### ThumbnailQueue

`queue` is `queue_`, `pending` and `active` are the two key sets, `capacity` and
`stopped` their namesakes; `worker`, `handler` and `stopper` are the program
counters of the threads, `task` what each worker popped. What one holding of the
mutex does is one action; between actions it is free.
`notify_one` is a step of its own, as in the code, which calls it after
unlocking; a wakeup may also be spurious. `rotation` is a key rotation as the
queue sees it: the gate closes, handlers and workers leave, the queue is cleared,
the key is exchanged, the gate opens. A task holds the key it was scheduled with, and `MayProcess` is the comparison at
the start of `processTask()`. `BeginStop`, `NotifyAll` and `Join` are `stop()`.

### ResumableUpload

`part[p]` are the bytes in `.tmp_uploads` for path `p`, each the local file
(*version*) it came from and its position there; `stored[p]` the published file;
`reserved`, `trashed`, `limit` the quota of the user. `session` are the clients:
asking for the offset, sending a chunk, waiting, trying again. `wire` are the
requests on their way. When a connection breaks, its request stays on the wire
without a client (`live = FALSE`) and may still arrive, at any time, or be handled
already. A cut of the process takes all of them.

`Accept` is everything from the check of the offset to the reservation, `Write`
the append, `Publish` the encryption, rename and upsert, `Clean` the removal of
the temporary file and the answer, `Release` the destructor of `UploadQuota`.
`Fail` is an exception or a refused encryption in one of these; a failed write may
leave any part of the chunk (`Partial`).

Clients: `Tries = 3` is `lib/main.dart`, `Tries = 1` the synchronisation and the
web interface. A client that gets 409 repeats the same chunk and fails in the
end; the next upload asks for the offset again. The size limit of a request, the
batch upload by form and the 503 replies of maintenance are left out.

### Accounts

One SQLite connection serves all threads, and a statement or a transaction holds
its lock to its end, so a call into `UserService` is one action. What is *not* one
action is a handler that makes several calls or relies on what it read before:
`request[r]` is between `authenticate` and `issueTokens` (`"login"`), between the
middleware's `verifyAccessToken` and the call that needs the claims (`"claims"`),
or between `requireAdmin` and the call that revokes sessions (`"revoke"`).
Administrative calls read their actor again inside the transaction and are one
step.

An access token is the account, what it was signed with (password hash,
`auth_version`, secret) and, as history, how often the account had been revoked
then. `Honoured` compares as `verifyAccessToken` does; `RevokedStaysOut` compares
the history. `secret` is the key in memory and `saved` the one in the file, since
a rotation of the signing secret may fail between its transaction and `persist`.
A refresh token is a row of `refresh`, by session.

Two races are in the model and outside `RevokedStaysOut`, because the token they
hand out was issued after the revocation: `login` checks the password, then a
change of password commits, then `issueTokens` signs for the new state; and
`getSyncToken` is authorised before a revocation and signs a token of 365 days
after it. `docs/administration.md:51-52` says that rotation invalidates
synchronisation tokens; one handed out like this is as valid as any.

### AccountDeletion

A deletion is `job[u]` (the row of `account_deletions` with the reservation),
`run` is the attempt of `finishDeletion` under way: it holds `storageMutex`, so
there is one, and a `Fail` (an exception) or a `Crash` ends it between any two of
its steps. `hashed` is the layout: with hashes a transfer changes rows only, with
plain files each is staged, verified, renamed and then its row moved. `status`
`"gone"` is a deleted row of `users`. `Reindex` is `rebuildIndex()` on a user's
directory, which in the direct layout may find copies, even staged ones, of a
deletion that failed half-way.

`Resume` and `Serve` are `resumeDeletions()` at start-up, which `StartUp(rotating)`
skips when a key rotation was interrupted (`main.cpp:166-169`).

### Sessions

An access token and the refresh token it came with are one number. A request
records who sent it, in which *lane* its refresh would run (its tab's, shared by
all `apiFetch` calls, or alone: uploads by XMLHttpRequest and all requests of the
app) and where it is: sent, waiting in `failedQueue`, its refresh on the way to
the server, its refresh answered. `Rotate` is the server, which replaces the
presented token in one transaction; a token it has revoked is refused
(`RefreshRefused`). `held` are a tab's stores or the app's secret store, `stored`
is localStorage, `inbox` the broadcast channel. What JavaScript does between two
awaits is one action: adopting the new tokens, emptying the queue and sending its
requests again (`Refreshed`) is one, ending a session with everything that
`clearSession` does is one.

`Expire` lets access tokens expire at any time and in any number of steps, with
one exception: the token a request is being retried with outlives that retry.

## 4. Runs, bounds and fairness

Each run is `tlc -config <run>.cfg MC<module>`. Runs marked *refuted* check one
property that a document or test of the repository states and the code does not
keep; section 6 explains them.

| Run | Instance | Checks |
|---|---|---|
| `rotation_crash` | 2 objects, 2 keys, 2 nonces, 2 requests, 2 rotations, 1 fault of any kind but loss of power, 2 restarts | `TypeOK`, `ServedUnderCurrentKey`, `Recoverable`, `RefusesOnlyForCause`, and that the module implements `BlobVault` (`KeepsVaultPromise`) |
| `rotation_completes` | 2 objects, 1 request, 2 rotations, 2 faults (failed steps, losses of power), 2 restarts; fair | `SurvivesPowerLoss`, `RotationCompletes` |
| `rotation_orphan_row` | 1 rotation, 2 failed steps; fair | *refuted* `ContinueCompletes` |
| `filestore_calls` | user and shared scope; a directory, its file and their numbered names; 2 contents; 5 calls, 2 trash entries, 1 call cut short; trash on and off | `TypeOK`, `RowKeepsContent`, `RestoreKeepsLive`, `DeletionIsRecorded` |
| `filestore_expiry` | the same paths, 1 content, 6 calls, none cut short | *refuted* `TrashKeepsContent` |
| `thumbnails` | 3 thumbnails, 2 workers, 2 handlers, 2 keys, both policies, capacities set to 0 and 2; fair | `TypeOK`, `InFlightExact`, `ReadsUnderLiveKey`, `NoLostWakeup`, `AcceptedLeavesQueue`, `StopReturns` |
| `upload_offsets` | 2 clients, 2 paths, files of 2 and 3 bytes in chunks of 2, a quota of 4, 2 bytes of trash, 1 attempt, 1 late request, 1 fault | `TypeOK`, `BytesInPlace`, `ReservationIsResumable`, `OkMeansPublished`, `QuotaHolds` |
| `upload_ends` | 1 client with 3 attempts, 1 path, 1 late request, 2 faults, 1 end of the process, no quota or one that just fits; fair | `UploadEnds`, `PublishedAtLast` |
| `accounts` | 3 accounts, 1 session and 1 outstanding access token, 1 handler between its steps, all registration modes, 2 changes of signing keys | `TypeOK`, `AdminRemains`, `SuperuserStands`, `RevokedStaysOut`, `DeletionHasHeir` |
| `deletion` | 2 administrators and a user, 2 rows, 2 contents of 1 and 2 bytes, a quota of 3, 1 trash entry, both layouts, 2 faults | `TypeOK`, `ContentKept`, `NothingRemains`, `SharedSurvives`, `ReservedRoomIsKept` |
| `deletion_completes` | the same with 1 content, a quota of 2 and 1 fault; fair | `DeletionCompletes` |
| `sessions` | 2 tabs and an app, 3 requests, 3 tokens, 1 event from outside (sign-out, lost answer, reload, revocation) | `TypeOK`, `DeniedForCause`, `WaitersHaveAFlight` |

**Why the bounds are enough.** The rotation treats objects alike and one at a
time; two make "some replaced, some not" possible, and two keys with two
rotations bring a key back that was in use before, the case in which a stale
journal or a stale staged file could be mistaken for a new one. Two nonces
distinguish two encryptions of one object under one key. Two requests are one
that changes storage next to one that streams. In the file store, all hazards
come from one path having one row while several entries, names and contents
refer to it: a directory with one file and a second name for each is the
smallest tree with a prefix, a conflict and a numbered name, and five calls are
enough to upload, delete, put something in the place, and restore or purge. In
the queue, three thumbnails overflow a capacity of two while a worker has none
left, and a capacity of 1 (0 is clamped) is below a queue that was accepted under
2. Three accounts are an administrator, another one, and the account they act on;
two changes of keys let something be revoked and then undone or repeated. The
deletion has two administrators, so that a recipient can be deleted itself, two
rows that may share their content with each other or with somebody's trash, a
quota that one row exhausts and two faults, so that an attempt fails, its retry
fails too, and others act between them; administrators, and ids of rows, are alike,
so states that differ only in them are explored once. Three requests are one that refreshes,
one that waits and one of another tab, an upload or the app; three tokens are the
first, its successor and the one a stale answer competes with. In the uploads, the files need one chunk and two chunks, so offset 0, a middle
offset and a last, shorter chunk occur; the quota of 4 fits either pair only
partly. Counters have bounds of their own: `MaxRotations`, `MaxFaults`,
`MaxRestarts`; `MaxCalls`, `MaxTrash`, `MaxCuts`; `MaxLate`; `MaxChanges`,
`MaxTokens`. The bound
`MaxCalls` stops the file store altogether; the refuted run of it says
`CHECK_DEADLOCK FALSE` for that reason, as do the runs of `Accounts`,
`AccountDeletion` and `Sessions`, whose budgets end or in which all users may be
gone. In `filestore_calls` the retention setting
still changes after the last call, so the check stays on.

`rotation_crash` and `rotation_completes` divide the faults. The first has failed
steps, failing directory syncs, shutdown, kill and a key forced by the
environment. The second has losses of power and failed steps: `LosePower` may undo
any unsynced renames, or none, which is a kill; a kill that keeps the renames
and is *followed* by a loss of power breaks `SurvivesPowerLoss` (section 6), and a
failing directory sync has the same effect as that kill, so neither is in the
second run.

**Fairness.** Weak fairness of the threads the process has, never of a choice a
user has:

- `EncryptionRotation`: the worker (`Run`), the thread of a call of `start()`, and
  handlers that entered the gate end (a handler that never ends would hold
  `drain()` for ever, as in the code). `Resume` is the administrator who uses
  Continue as `docs/administration.md:72` asks; `ExitProcess` and `Boot` are a
  shutdown that ends and a service manager that starts the server again. Nothing
  makes a request or a rotation begin.
- `ThumbnailQueue`: workers take their steps, which takes processing one image to
  end; a handler that has unlocked the mutex calls `notify_one`; `stop()` goes on
  to `notify_all` and the joins.
- `ResumableUpload`: clients take their next step; a live request is accepted
  or rejected when `storageMutex` is free; a handler goes on. A user whose upload
  failed starts one again, which is what `PublishedAtLast` is about. Late requests
  have no fairness: they may arrive, wait for ever or vanish.
- `AccountDeletion`: `Progress`, one action whose parts exclude each other, is an
  attempt that goes on, a process that is started again, and start-up. `Retry` is
  strongly fair: an administrator who is shown an account in deletion tries again
  for as long as it is there, and gets `storageMutex` although uploads take it in
  between. The bound on faults is what keeps an attempt from failing for ever.
- `Accounts` and `Sessions` state no liveness. For sessions,
  `WaitersHaveAFlight` is what can be said safely: whoever waits has a refresh
  under way that will empty the queue.

Properties name their own exceptions. `RotationCompletes` excludes dangling
references (the code refuses them) and the orphaned row (the defect of section
6). `DeletionCompletes` excludes transfers obstructed by what was indexed meanwhile
or by a file that was lost. `ReservedRoomIsKept` excludes two cases in which the
code charges somebody without asking for room: a copy of a failed deletion that
becomes a row by an index (`Indexed`; the run's instance has it), and an entry of
the shared storage that somebody else replaced between two attempts and that the
transfer takes all the same (`ReplacedArrives`; it takes a third administrator,
because the recipient's own replacement asks for its room, and with three TLC finds
it). Those two aside, nobody's usage and reservations together grow beyond the
quota; a quota of 0 is none. `RefusesOnlyForCause` excludes the orphaned row too, so
only `rotation_orphan_row` shows that one. `ContentKept` promises nothing of a staged copy that was indexed by chance.
`ReservationIsResumable` excludes ends of the process,
after which a reservation waits for its expiry.

## 5. Proofs

All theorems hold for every value of the constants that satisfies the `ASSUME`s of
the module: sets given by name, bounds that are naturals, `None` outside the data.
No set of the rotation, the queue or the clients is assumed finite. Where rows are
summed, the sets summed over are: the paths of an upload model, the accounts, rows
and contents of `AccountDeletion`, the paths and owners of `FileStore`; they stand
for rows of tables, which are finite. The theorems marked † have a hypothesis about
the faults, explained below the table.

| Theorem | States | Argument |
|---|---|---|
| `EncryptionRotationProofs!TypeCorrect`, `WorkerIsAlone` | `TypeOK`; a worker past `drain()` is alone | `Gate`: a thread that is under way has the gate closed, a closed gate admits no handler, and past `drain()` no lease is left. `WorkerAlone` alone is not inductive: that nobody enters depends on `blocked`, which depends on the starter, which excludes the worker. |
| `KeysAreRecoverable`†, `OpenGateServesOneKey`† | `Recoverable`, `ServedUnderCurrentKey` | `KeyInvariant`: without a key file there is one key, in the blobs, the configuration and memory (`OneKey`); with one there are two (`TwoKeys`); the journal covers all blobs once enumerated (`JobJournal`); and what each step of the worker has established (`WorkerKeys`), so that the key file goes only when nothing has the old key. `Streams` ties open responses to the key in memory. |
| `PowerLossIsSurvived`† | `SurvivesPowerLoss` | `Synced`: what is on the disk is what processes see, but between a rename or removal and the sync that follows it (`BlobsSynced`, `ConfigurationSynced`, `KeysSynced`), and in that one step what the disk still has is as good: the old blob while both keys are kept, the old configuration while the key file stands, the key file while everything has the new key. A loss of power then changes at most one name, and `KeyInvariant` survives it (`PowerKeys`), so the same invariant serves processes and disk. |
| `RotationKeepsVaultPromise`† | `KeepsVaultPromise`: `BlobVault` is implemented | With `KeyInvariant` what can be fetched is what is referenced and present (`ReadableBlobs`); each step is then one step of `BlobVault` or none. A start of the process opens the store under the key it was closed with, because without a key file the configuration has the key in use (`SameKey`). |
| `RetriesAreNotRefused`† | `RefusesOnlyForCause` | `RetryInvariant`: the journal says of no object more than is true of its file (`ObjectsStand`), the row is this job's, finished or without a job (`RowStands`), the key in memory is one of the two (`ConfigurationStands`), and what the steps of `processObject()` have established (`Progress`). It survives a kill anywhere because each step changes the file or the row, in an order that keeps it. A loss of power keeps it because the journal calls an object done only after its directory is synced: of a prepared one the disk has both names as they are seen, or both as they were before the rename (`JournalSynced`). |
| `ThumbnailQueueProofs!QueueTypes`, `DeduplicationIsExact`, `WorkersUseLiveKey`, `NoWakeupIsLost`, `QueueIsBounded` | `TypeOK`, `InFlightExact`, `ReadsUnderLiveKey`, `NoLostWakeup`; the queue never grows beyond its capacity | one `IInv`: the properties with `BusyHasTask`, `StopIsKnown` (workers leave only after `stop()`; otherwise a queue could be left without workers) and `DrainedStaysDrained` (between clear and the new key nobody holds a lease; otherwise a worker could read across the exchange). |
| `AccountsProofs!AccountTypes`, `AnAdministratorRemains`, `TheSuperuserStands`, `DeletionsHaveHeirs`, `RevokedSessionsStayOut` | the five properties of `accounts` | administrators: `isLastActiveAdmin` is asked in the transaction that takes one away, and the superuser is blocked, demoted or deleted by nobody; heirs: jobs exist exactly for accounts in deletion, and an account that is a recipient is not deleted; revocation: a token that was signed with the present key, hash and version was signed after the last revocation (`Signatures`), which needs that versions, hashes and secrets only grow and that an interrupted rotation of the secret leaves every version new. |
| `AccountDeletionProofs!DeletionsKeepContent`, `GoneAccountsLeaveNothing`, `SharedFilesSurvive` | `ContentKept`, `NothingRemains`, `SharedSurvives` | one `IInv`: a job's rows are those of its account or were transferred (`JobsStand`, `ManifestStands`), an attempt has behind it what its next step relies on (`RunStands`, `CopiesStand`: in the direct layout, every row of the manifest but those still to do has its verified copy), files belong to rows (`FilesStand`), and each step of the clean-up leaves less of the account (`CleanedUp`). |
| `DeletionTypes`, `RoomIsKept` | `TypeOK`, `ReservedRoomIsKept` | `RoomStands`: while a deletion is copying and all entries of its manifest are still its account's, the room it reserved is the sum of what they take up. Each of them `RowStays`: only an account that is not in deletion uploads over a row, and it becomes its uploader then. Every step then either ends within the quota or lets `Spent` (usage and reservations) not grow. What asks for room, an upload or the start of a deletion, exchanges one term of the sum (`RowCharged`, `ReservedGrows`), and `HasRoom` counted the others; trash moves a charge (`DiscardKeepsRoom`); the transfer charges no more than the rows of the manifest (`TransferCharges`) and gives back as much room (`ReservedFalls`); the rest charges rows that were charged before (`ChargesShrink`). |
| `SessionsProofs!SessionTypes`, `WaitersAreServed` | `TypeOK`, `WaitersHaveAFlight` | `QueueInv`: `isRefreshing` of a tab means a request of that tab is with the server (`RefreshersFly`), and waiting means `isRefreshing` (`WaitersWait`). It holds although a stale answer clears the flag of a later refresh, because the same step empties the queue. |
| `NobodyIsDeniedWithoutCause` | `DeniedForCause` | `IInv`: no token is known in two sessions (`TokensBelong`) or before it is issued (`TokensIssued`); in a calm session, one without a cause, refreshes under way have live tokens and lanes of their own, and a token in an answer is known to nobody else (`FlightsStand`); who holds a used token is refreshing with it or would contest it (`HeldStand`); broadcasts bring tokens the tab never presented (`MailStands`). `HeldStand` is what makes it inductive: a tab that presents an uncontested token twice is stopped by `isRefreshing`, or has the new one. |
| `FileStoreProofs!StoreTypes` | `TypeOK` | with `IInv`: a restore or purge under way names an entry that is still there (`EntryNamed`), what it writes back is a row because the entry has a hash or is a directory, and the size of a trashed directory is a sum of numbers over finitely many rows (`EntryTypes`). |
| `RowsKeepTheirContent` | `RowKeepsContent` | `DoomedOnlyInTarget`: from the statement that counts references to the last `unlink`, a doomed hash is named by a row of the deletion at most, because a count of at most one names one row (`SoleReferenceIsUnique`) and the rows stand still meanwhile. |
| `DeletionsAreRecorded`, `RestoresKeepLiveRows` | `DeletionIsRecorded`, `RestoreKeepsLive` | `LiveInv`: a call that is about to mark rows has its trash row (`EntryStands`), and a restore about to write has found, or left, no live row at its target (`RestoreStands`). Both rest on `StatementsKeepLive`: no other statement turns a live row into a deleted one. The renaming `UPDATE` needs that moving a subtree there and back is the identity (`RebaseInverts`). |
| `ResumableUploadProofs!UploadTypes`, `BytesStayInPlace`, `SuccessIsPublication`, `ReservationsAreResumable` | `TypeOK`, `BytesInPlace`, `OkMeansPublished`, `ReservationIsResumable` | `WireOK`: a request fits its file, and the client of a live one waits for just it; `CallOK`: what the handler's checks established (the number of bytes equals the offset, the last byte is of the file whose size was compared) still holds at each later step; `SessionsOK`: a client without bytes left to send, or about to learn so, has been published. |
| `QuotaIsKept` | `QuotaHolds` | `Admitted`: until the handler publishes, what `reserve()` found is still true, since nothing else stores, trashes, reserves or changes the quota while the mutex is held and reservations of other paths do not grow. Publishing then exchanges one term of the sum (`UsedAfterStore`). |
| `TotalsProofs` (lemmas) | a sum over a finite set is a number; what adding, removing or replacing an element does to it; it is monotone; it is additive over disjoint sets | `Total(size, S)` is defined as the number of units, pairs of an element and one of `1 .. size`, so the theorems about cardinality apply and no induction is needed. |

† `PowerLossIsSurvived` assumes `Tolerated`: `Faults` has neither kills nor failing
directory syncs. The others assume `Bearable`: `Faults` has no loss of power, or is
`Tolerated`. Losses of power, failed steps, shutdowns, restarts and keys forced by
the environment are covered together, and so are kills, failing syncs and all of
these but losses of power. What is excluded is false of the code: a kill between a
rename and its directory sync leaves a name that no later step syncs, and a loss of
power may undo it after the old key is gone (section 6, first item of the list).
The hypotheses are as weak as they can be in terms of `Faults`: with kills and
losses of power, or with failing syncs and losses of power, TLC finds each of the
five properties violated on two objects.
`TypeCorrect` and `WorkerIsAlone` assume nothing about faults.

TLC checked each property before it was proved, and the inductive invariants on
the same instances; the rotation's invariants also with failed steps, losses of
power and forced keys in one instance.

Every safety property and action property of the passing runs is proved.
Checked by TLC only: liveness (`RotationCompletes`, `AcceptedLeavesQueue`,
`StopReturns`, `UploadEnds`, `PublishedAtLast`, `DeletionCompletes`), which needs
fairness and `ENABLED`. The two refuted properties have counterexamples, not
proofs.

## 6. Findings

| Run | Where | What |
|---|---|---|
| `rotation_orphan_row` | `EncryptionRotationService.cpp:287` | A run that fails before it has a journal inserts a row without a job; `initializeJournal()` takes it for another rotation and refuses every Continue and every start. |
| `filestore_expiry` | `TrashService.cpp:659` | Purging or expiring one entry of a path removes the row and the blob that a later entry of that path is about. |

Each counterexample is a short path of legal calls; the quotation it contradicts
is in `PROJECT.json`.

More was met while modelling and is in the models, without a run of its own:

- `EncryptionRotationService.cpp:217`: an object that already has the new digest
  is skipped together with the directory sync that a kill had prevented; the keys
  are removed while a loss of power can still undo the rename.
  (`docs/administration.md:70`: the key file is removed "only after all objects
  are checked and the new configuration is durable".) With `"kill"` added to the
  faults of `rotation_completes`, `SurvivesPowerLoss` fails.
- `TrashService.cpp:581`: restoring a folder under a numbered name that a deleted
  row has fails for its children without notice; the folder is empty and its
  files belong to no entry, so they can be neither restored nor purged
  (`server/README.md:178`).
- `TrashService.cpp:150`: a restored folder keeps its old size, which the next
  move to the trash charges whatever the folder holds by then
  (`server/test/admin_accounts_test.py:205`: "must preserve its charge").
- `FileController.cpp:1293`: a resumed upload is continued on whatever bytes are
  there if their number fits, and a mix of two versions of the file is published
  with status 201 under the hash of the mix.
- `UserService.cpp:613`: in the direct layout, when the recipient's directory is
  indexed while copies of a failed deletion lie in it, the rows of the copies
  occupy the paths of the transfer, whose statement then fails on every attempt;
  a missing source file stops a deletion in the same way.
  `docs/administration.md:35` says that a failed deletion resumes.
- `UserService.cpp:613` again: between two attempts another administrator may
  replace an entry of the shared storage that is in the manifest; it is
  transferred to the recipient nevertheless, which may take the recipient beyond
  its quota: only what the account itself had uploaded has room reserved.
- `AuthController.cpp` and `docs/administration.md:19-21`: a public request for
  recovery does create a code and stores it where administrators read it; after
  five failed attempts a new request creates the next code.
- README.md:182 ("The client automatically requests new JWT access tokens using
  its refresh tokens without interrupting user actions") is not kept when two
  requests of the app, two uploads, or two tabs present one refresh token: the
  server refuses the second, and a tab that is refused signs all tabs out by
  AUTH_LOGOUT. An answer that arrives after a sign-out signs the tab, and by
  broadcast the others, in again. A reload during a refresh loses the session. A
  lost answer leaves the app with a revoked token until its user signs in. All of
  these are `contested` or `struck` in `Sessions`, and `DeniedForCause` says that
  there is no other way to lose a session.
- `FileController.cpp:1774-1800`: renaming a folder that is shared explicitly
  clears `is_shared` of the files below that are not, against the comment of
  `setSharedFlag`; restoring a shared folder leaves them without it too; a file
  that is no longer shared inside a shared folder is still served, because
  `getSharedFileOwner` looks at its ancestors.

## 7. What is not modelled

- **Sharing flags and public links.** What `is_shared` of a folder means for what
  is below it is decided differently by sharing, moving, restoring, uploading and
  serving (section 6), so there is no promise to check; share tokens are single
  statements with an expiry.
- **Rate limiter, configuration revisions.** One mutex, or one exclusive lock,
  around a comparison and an assignment: nothing can come between.
- **Transfers and folder synchronisation of the app.** One isolate each; their
  order of work depends on platform services that are not in the repository. The
  upload loop and its cancellation are in `ResumableUpload`, its 401s in
  `Sessions`.
- **Accounts**: quotas (`SetLimit` of `ResumableUpload` has them), the audit log,
  lists. Migration of databases older than roles: `Database.cpp:278-305` may make
  a blocked or pending earliest account the superuser, which `Init` excludes.
  `changePassword` writes the hash and revokes refresh tokens in two statements
  without a transaction (`UserService.cpp:450-462`): an end of the process between
  them is modelled, but is no revocation, so the refresh tokens that survive it are
  not within `RevokedStaysOut`.
- **AccountDeletion**: folders and moves (in `FileStore`); who may delete whom (in
  `Accounts`); the thumbnail worker, which takes no `storageMutex` and may write
  `.thumbs/<id>` after it was removed; `rebuildIndex()` of the shared scope, which
  finds in the model just the rows it has, since an upload writes file and row in
  one action, and the one that a move in the direct layout calls. What uploads
  reserve is in `ResumableUpload`; here an upload asks for room and publishes in
  one action.
- **Sessions**: the request that revokes the refresh token at the server when
  signing out (`AuthModal.svelte:120-134`), and what happens between the two
  writes of `saveTokens` of the app; requests of a tab that is signed out, whose
  401 would clear the session and broadcast AUTH_LOGOUT (`client.js:164-168`); a 401
  for another reason than an access token that ran out.
- **FileStore**: the direct mode (`hash_files` off), in which paths are files;
  `rebuildIndex()`; sharing flags, among them the statement of `setSharedFlag`
  (`FileIndexService.cpp:763-780`), which makes a deleted row of the path it is
  given live again, as a directory that keeps the hash of the file it was; listing,
  search, thumbnail columns. Trash
  entries whose rows another account's deletion removed are in `AccountDeletion`.
- **Uploads**: the batch by multipart form and uploads to the shared scope;
  `uploadLimitBytes`; a temporary file that cannot be removed after publication;
  what a loss of power undoes; pausing and token refresh in the client's loop. The
  short overcount between publication and release, when the reservation and the
  new file are both charged, only refuses, and is in the model. Time is left out:
  a reservation may expire whenever no handler runs. A release that throws in
  `~UploadQuota` (`FileController.cpp:84-89`) is swallowed and leaves the reservation
  until it expires; here statements do not fail, so `Release` does not.
- **Rotation**: durability of what storage requests write; free space; several
  servers on one storage.
- **Pure computation and I/O**: encryption, images, archives, ranges, content
  types, JSON, packaging, presentation. A ciphertext is its key and nonce.
- SQLite statements and transactions are atomic and durable; handlers take the
  mutexes in one order (`configMutex`, gate, `storageMutex`), so their deadlock
  is not a subject, with the exception of what the gate and the queue
  wait for, which the models contain.

Of the lines under `src/`, most are of this kind: the two vendored image headers
(`include/stb`) alone are more than half of the C and C++, and image processing,
hashing, HTTP parsing, route tables, presentation and localisation make up most of
the rest. The map names what the models translate.

## 8. Plan

The order was by what users lose when it is wrong: contents and keys
(`EncryptionRotation`, `BlobVault`), rows and blobs (`FileStore`), bytes on their
way (`ResumableUpload`), the one concurrent data structure (`ThumbnailQueue`),
then who may act (`Accounts`), what a deletion leaves (`AccountDeletion`) and how
clients keep their sessions (`Sessions`). What is left:

1. **Proofs**: which of the excluded faults could be admitted if
   `processObject()` synced the directory of an object it finds replaced;
   strengthenings that say more than the runs' properties do.
2. **Models**: the sharing flags, once the code decides what they mean; the
   direct mode of `FileStore`; pausing in the transfer manager.

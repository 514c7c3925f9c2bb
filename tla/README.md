# Telegram Drive: a verification project in TLA+

Telegram Drive keeps a user's files in a Telegram channel. A Go agent
(`src/agent-go`) holds the metadata in SQLite, a cache of the files on disk and
one connection to Telegram; a web app (`src/web-pwa`) and a mounted virtual drive
are its clients. This directory holds TLA+ models of the agent, the TLC
configurations that check them and theorems about them that TLAPS checks.

## 1. The system

### Components

Paths are below `src/agent-go/internal` unless they say otherwise.

| component | state it keeps | operations | calls / is called by |
|---|---|---|---|
| file bytes (`drive/service.go`, `cache.go`, `retry.go`, `operations*.go`) | rows of `files`, `file_versions`, `transfers`; `uploads/`; retry table; cache policy | save, import, sync pass, restore, stream, evict, clean, trash, restore, delete for ever | Telegram client, event bus; HTTP server, workers of `cmd/agent/main.go`, sync roots, virtual drive |
| Telegram client (`telegramstorage/service.go`) | `clientMu`, the session file | upload, download, stream a range, scan history, create and verify a channel | Telegram; everything above it |
| chunk cache and coalescing (`drive/chunk_cache.go`, `stream_cache.go`) | entries and byte count, files in `chunks/`, fetches in flight | get, put, evict, scan, do | `StreamFromTelegram` |
| channel import (`drive/channel_import.go`) | scan cursor per user | scan a page, import a message | Telegram client, `file_versions` |
| folder tree (`drive/service.go`, `operations*.go`) | `folders`, `files.folder_id`, `deleted_at` | create, move, rename, star, trash, restore, delete, resolve a path | HTTP server, virtual drive, WebDAV |
| sync roots (`drive/sync.go`) | `sync_roots`, `sync_entries`, a watcher per root, changes waiting for the debounce | create, enable, scan, watch, removal | import of a file, the user's disk |
| storage channel (`drive/storage_settings.go`) | peer kind, channel id and access hash per user | create, select, verify, ensure | Telegram client, sync pass |
| shares (`drive/share*.go`, `api/share_page.go`) | `shares`, `share_access_log` | create, update, delete, resolve, count | HTTP server, file bytes, folder tree |
| devices (`devices/`) | `pairing_codes`, `devices`, `device_tokens` | start pairing, exchange, resolve a token, revoke | HTTP server, remote backend |
| users (`users/`) | `users`, `user_sessions` | register the first account, log in, resolve, log out | HTTP server |
| Telegram login (`auth/`) | the code or QR session in progress, the session file | send a code, verify, password, start and cancel QR | HTTP server, Telegram |
| virtual drive (`vfs/`, `webdavfs/`, `remote/`) | mount status, open handles, temporary files | mount, unmount, switch backend, open, write, release | file bytes, folder tree; the desktop app |
| tunnel (`tunnel/`) | the running process and its status | start, stop, parse output, exit | HTTP server |
| event bus (`drive/events.go`) | subscribers with a buffer of 16 | subscribe, publish | every writer; browsers |
| HTTP server (`api/`) | rate buckets, tus uploads on disk | auth gate, rate limit, uploads, resumable uploads and their janitor | everything |
| database (`db/`) | schema version | migrate | everything |
| backups (`drive/backup.go`) | copies of the metadata | create, prune, restore | Telegram client |
| web app (`src/web-pwa/src/state`) | upload queue, synced photo hashes | enqueue, pump, reconcile, retry; hash, ask, upload | HTTP server |

Views, thumbnails, HLS, logs and the platform wrappers keep no state the others
rely on; `PROJECT.json` lists them with the reason they are not modelled.

### How they interact

The database is the only shared memory that survives a stop. Almost every
operation is a sequence of single SQL statements and disk operations with nothing
held between them, run by many goroutines: the HTTP handlers, the sync worker's
ticker (two seconds), the cache worker, the watcher of the sync roots, the channel
scanner. What is locked is small: the Telegram client (`clientMu`), the retry
table, the cache policy, the chunk cache's map. The request context of a handler
reaches every statement, so a client that goes away makes the rest of its call
fail while the effects so far stay.

### What is hard, and what makes each component correct

* *File bytes.* Passes, downloads, cleaners and deletions interleave statement by
  statement; any statement may fail; the agent may stop anywhere. Correct: no
  uploaded byte is lost before the file is deleted for ever, labels
  (`telegram_synced`, `completed`) are true, the newest version is whole, the
  user's own folder is never written or thinned out, everything queued is resolved.
* *Chunk cache.* Three critical sections per operation around disk work without
  the lock. Correct: a hit returns the bytes of its range, the byte count is that
  of the entries, the budget holds after every put, followers get what they asked.
* *Channel import.* Races the agent's own uploads to the same channel; the cursor
  is persisted page by page. Correct: each foreign message gets one row, own
  messages get none, no message is passed over for ever.
* *Folder tree.* Checks and writes are separate statements, a subtree is collected
  level by level. Correct: no cycle, nothing in a folder that is gone, trash takes
  all of a subtree, parallel uploads share the folders of their path.
* *Sync roots.* Watcher, scan, debounce and the user see the disk at different times.
  Correct: what the watcher was told of is imported, an entry never claims content
  the file does not have.
* *Shares, devices, users, limiter.* Counters, codes and a first account under
  concurrent requests. Correct: limits hold, a code pairs one device, one account
  is registered, no burst exceeds its bound.
* *Virtual drive, WebDAV, tus.* Bytes wait in a temporary file until a save that may
  fail, beside renames, removals and a stop. Correct: what was closed is saved or kept.
* *Mounts, tunnel, Telegram login.* Goroutines and processes that outlive the request
  that started them. Correct: the status is true, no flag and no request is stuck.
* *Event bus, web app.* Lost events and stale answers (not modelled).

The hazards, each at its line, are in `PROJECT.json`.

## 2. How the project is laid out

| module | models | checked by | proved in |
|---|---|---|---|
| `DriveFiles`, `DurableBytes` | the life of a file's bytes, and what it promises | seven runs through `MCDriveFiles` (section 3) | `DriveFilesProofs`, `DriveFilesRefinement` |
| `ChunkCache` | the range cache and the coalescing of fetches | `transfers` through `MCTransfers`, `torn_range` | `ChunkCacheProofs` |
| `ChannelImport` | the scanner beside the sync pass's posts and records | `transfers`, `switched_channel` | `ChannelImportProofs` |
| `DriveTree` | the folder tree and its requests | `metadata` through `MCMetadata` | `DriveTreeProofs`, `MetadataProofs` |
| `SyncFolders` | a synced folder, its watchers and scans | `metadata` | `SyncFoldersProofs`, `MetadataProofs` |
| `Shares` | shared links, their visitors and their owner | `metadata` | `MetadataProofs` |
| `Accounts` | account, sessions, devices, gate, limiter | `metadata` | `MetadataProofs` |
| `MountedDrive` | files written over FUSE, WebDAV and tus | `services` through `MCServices` | `ServicesProofs` |
| `Mounts` | the mount manager and its mounter | `services` | `ServicesProofs` |
| `Tunnel` | the cloudflared process and the links | `services` | `ServicesProofs` |
| `TelegramLogin` | QR sessions and the requests around them | `services` | `ServicesProofs` |

`DriveFiles` sees other components as events (a pass, a deletion, a policy change);
`ChannelImport` sees the sync pass as posts and records. `ChunkCache` and
`ChannelImport`, and the modules of sections 6 and 7, touch none of each other's state:
what a link sees of its file, or a synced folder of the drive, is a choice inside its
module. `MCTransfers`, `MCMetadata` and `MCServices` therefore put them side by side,
with one variable (`transfer`, `part`, `service`) naming the one that moves, so that
TLC adds their state spaces up; an invariant of a module is checked in every state its
own specification reaches. `MetadataProofs` and `ServicesProofs`
prove that: every behaviour of the composition is a behaviour of each part, so what is
proved of the parts holds of it.

Every safety property a passing run checks, invariant or action property, is also a
theorem. (Of `MCTransfers` the parts are proved, each in its own module.) What stays with TLC alone is liveness (`PassReturns`, `PendingResolves`,
`UploadingSettles`, `CallersReturn`, `OnlyTextHidesFiles`, `MountEnds`,
`CancelReturns`): the provers installed handle neither fairness nor ENABLED. The
theorems speak of the models; three of the core's (one pass at a time) and one of the
import's (one channel) have a hypothesis that the code alone does not guarantee, named
where they are described.

The order was: what loses data first, then what confuses, then what annoys. Left for
later work: the browser's upload queue and photo list, the phone login, and one
instance in which `DriveTree` and `DriveFiles` share the rows of files.

## 3. The core: DriveFiles

### State and code

| variable | code |
|---|---|
| `row[f]` | `files`: `deleted_at` (status), `sync_state`, `local_path`, `cache_origin` |
| `versions[f]`, `latest[f]` | `file_versions`: what the named messages hold, and the one with the highest number |
| `transfer[f]` | the `telegram_sync` row of `transfers` |
| `cache[f]`, `source[f]` | `dataDir/uploads/<id>-<name>`; the file in the user's synced folder |
| `retry[f]` | `retryState` in `retry.go` |
| `paused` | `paused` in `cmd/agent/main.go`, set from the tray (`TogglePause`) |
| `client` | `clientMu` where it is held across steps (a download) |
| `save[f]`, `del[f]` | the local state of `saveFileFromReader` / `importSyncSourceFile` and of `PermanentDeleteFile` |
| `pc`, `queue`, `item`, `payload`, `ctx` | `SyncPendingToTelegram`: one element of `Passes` per concurrent run |
| `rpc`, `ritem`, `rget` | `GetDownloadableFile`, `GetStreamableFile` |
| `cpc`, `cqueue`, `citem`, `policy` | `CleanupCache`, `CachePolicy` |

An action is one statement, transaction, disk operation or call of Telegram;
changes of memory next to one (the retry table) are part of its action. A file is
`absent`, `partial` or `whole` on disk, a message `whole` or `torn`; names, sizes,
hashes and ids are model values. `local_path` and `cache_origin` are two fields,
since the code reads one where it means the other.

Passes: `PassBegin` is the SELECT of `pendingTelegramUploads`, which the ticker does
not reach while `paused`, `PassTake` the loop
and the gate, then `stat`, mark, progress, upload, progress, record, completed and
the eviction of `cloud_only`, each with its error path. `Disconnect` cancels the
context of a pass started by `POST /v1/files/sync`. `Crash` forgets everything
that is not in the database or on disk.

### Abstractions

* One call saves one identifier, so the set of files bounds the number of uploads.
* The names of `Events` switch the environment: `crash`, `disconnect`,
  `store_fails` (any statement, removal or write of the agent may fail, a busy
  database included), `read_fails` (a download may break off), `trash`, `delete`,
  `remove_source` (the user removes a file from the synced folder), `pause` (the tray
  stops the ticker from starting passes, and lets it go on).
* `smart` evicts least recently used files down to a budget: any non-empty subset
  of the evictable snapshot. `updated_at` orders a pass's list by the second: any
  order.
* The read of a row and the `stat` that follows it in a download are one step; so
  are a failed upload's possible effects at Telegram (a message nobody records).
* The source's content does not change; nobody but the agent touches `uploads/`.
  Thumbnails, ownership (`user_id`), renames, moves and the choice of the storage
  channel are left to the other modules.

### Runs

| run | instance | what it shows |
|---|---|---|
| `core_one_pass` | one file, one pass that may be cancelled, a reader, a cleaner, all policies, all events | the safety properties and three action properties under every failure the model has |
| `core_two_passes` | one file, worker and request, a reader, `cloud_only`, `disconnect`, `delete`, `read_fails` | the inductive invariant `Durability`, and that the agent implements `DurableBytes`, when passes race |
| `core_live` | two files of one content, one of which may lie in a synced folder (`OneFolderSpec`), a pass, a reader, `cloud_only`, `trash`, `remove_source`, `pause` | passes return and settle their labels, queued files are resolved or put off by a pause, the answer to a duplicate upload keeps its bytes until their owner takes them away |
| `restore_over_source` | one file, a pass, a reader, `remove_source` | violated: a restore writes into the user's folder |
| `torn_version` | one file, two passes, a reader, `read_fails` | violated: the newest version may be torn |
| `lost_duplicate` | two files of one content, a pass, a reader, `remove_source` | violated: an upload answered with a queued import is lost with the import's source |
| `stuck_uploading` | one file, a pass, `crash` | violated: a stop during an upload leaves `telegram_uploading` for ever |

`LatestIsWhole` and `UploadingSettles` hold where their run says and fail where the
violating run adds the second pass or the stop. A cancelled request or a failing
statement leaves `telegram_uploading` behind just like a stop: it is the label itself
that cannot be changed back then, and nothing looks at it later. `DuplicateKeepsBytes`
says what holds of an upload that is answered with another row, under every event:
that row's bytes stay on disk or on Telegram, unless it is an import and the user
removed its source before any message was recorded (`TakenAway`).
`UploadedContentStays` has no such exception, and `lost_duplicate` shows that the code
does not keep it. The four findings about the core in `PROJECT.json` quote what the
repository promises. Deadlock is not checked: a drive
with nothing to do may rest.

Bounds: the properties speak of one file at a time, except the answer to a
duplicate, which needs two, and in which only one of the two needs a source; two passes are the two that exist (the worker's, which
never overlaps itself, and the handler's); two readers of one file differ from one
only in what they are served, which no property here speaks of. The proofs below
carry the safety properties to any number of all of them (those that need one pass at a
time to one pass), and to empty files, which the runs do not instantiate.

Fairness (`FairSpec`): the scheduler runs every started goroutine (weak fairness of
each step of a pass, save, deletion, reader and cleaner), the ticker starts a pass
every two seconds unless it is paused (then `PassBegin` is not enabled, and
`PendingResolves` promises nothing until the user lets it go on), the clock closes retry windows, and a `sync.Mutex` is handed to
whoever has waited a millisecond, so an upload waiting for `clientMu` gets it
although downloads keep coming (strong fairness of the upload's two outcomes).
`TelegramSpec` adds that an upload tried for ever succeeds once; without it a queued
file may be retried for ever. Nothing makes a user, a failure or a stop happen.

### Proofs

`DriveFilesProofs` and `DriveFilesRefinement` hold for every number of files,
passes, readers and cleaners, every set of policies and events, any assignment of
hashes. They assume only `ConstantsAssumption`, and what is named below.

* `TypeCorrect`: the type invariant. It also says that a pass past `next` has an
  item, and a cleaner that clears a path one.
* `DurabilityHolds`: `Spec => []Durability`. `BytesSomewhere` alone is not
  inductive: an eviction is harmless only because a pass reaches it after the
  record, a restore may truncate only because it found a version, a torn upload may
  be recorded only above a whole one. `Durability` says so part by part (`RowInv`,
  `DiskInv`, `CallInv`, `PassInv`, `ReaderInv`, `CleanerInv`) around one idea:
  `Backed(f)`, f's row is gone or a whole version of it is recorded. Versions are
  only removed with the row, so `Backed` is stable, and every step that takes local
  bytes away or adds a torn version has it as its precondition.
* `BytesSurvive`, `LabelsAreTrue` and `TransfersAreTrue` follow: `BytesSomewhere`,
  `SyncedHasVersion` and `CompletedHasVersion`.
* `SourceIsSpared`: `SparesSource`. A pass and a cleaner evict only what is
  in `uploads/` (`Evictable`), a download writes; only the user and `DeleteUnlink` take a file out of the synced folder.
* `LatestHoldsWithOnePass`, `SyncedStaysWithOnePass`, `EvictionsWithOnePass` assume
  `\A p, q \in Passes : p = q`. The worker never overlaps itself, so this is the agent
  while nobody calls `POST /v1/files/sync`; `torn_version` shows the second pass break
  the first of them. The invariant is `OnePassInv`: what the pass has listed and not
  done is not synced and has no version, and nobody restores it, so what is on disk is
  not a torn restore (`FreshInv`, `OneListInv`); the item in work is in nobody else's
  hands (`OneItemInv`); a cleaner's list is of synced files (`OneCleanInv`).
* `DuplicatesKeepBytes` excludes no event. `TwinInv` says that the row an upload was
  answered with has been stored and is not empty; `Durability` then says where the bytes
  of an uploaded row and of an evicted one are, and what is left is an import with its
  source in place, or without it and without a version (`TakenAway`).
* `Implements`: `Spec => ImplementsDurableBytes`. The status of an uploaded file is
  `kept` while its row exists, its copies are the whole file in `uploads/` and a
  whole recorded version. Each step is an `Accept`, `Copy`, `Drop` or `Discard` of
  one file, or leaves the mapped variables alone.

Only model-checked: `PassReturns`, `PendingResolves`, `UploadingSettles`.

## 4. Range reads: ChunkCache

### State and code

| variable | code |
|---|---|
| `file[k]` | `chunks/<aa>/<hash>` of the range `k`: absent, torn (opened and not yet written, or cut short), or whole |
| `entries[k]`, `used` | `chunkCache.entries` (the size of the entry) and `chunkCache.used` |
| `inflight[k]` | `chunkCoalesce.inflight`: the caller whose fetch is registered |
| `stage[c]`, `range[c]`, `live[c]` | a call of `StreamFromTelegram`: where it is, its key, whether its context lives |
| `meta[c]`, `got[c]`, `linked[c]` | the entry `Get` has looked up, the bytes in hand, whether the file `os.WriteFile` has open is still in the directory |
| `leader[c]`, `outcome[c]` | `existing` of a follower and what `close(entry.wait)` makes visible |

`Get` is three steps (`GetLookup`, the read, `GetDrop`), `Do` is `Follow`, or `Lead`,
`Fetch`, `Unregister`, `Publish`: the entry leaves the map before the channel is
closed. `Put` is `OpenRange` (which truncates), `WriteRange`, `InsertRange`; leader and followers
each do all of it. `Restart` is a stop and the scan of the directory.

Abstractions: a range has two units of bytes and a torn file one; `evictLocked` tries
older entries in any order, the newest last, for its access time is the latest; a file
is removed with its directory entry, so a write that was already open goes nowhere
(`linked`). A hang-up is tried only where the context is read. A call for a whole file
(length 0) is coalesced and never cached, and is left out. The events are
`fetch_fails`, `hang_up`, `disk_full` (`MkdirAll` or `os.WriteFile` fails, before or
after it has truncated the file), `remove_fails` (`os.Remove` of an eviction fails, as
of a file that is being read on Windows) and `restart` (a stop at any moment, also
within a write, and the scan that makes an entry of every file as it lies there).

Two variables are histories the program does not have. `kept` names the entries the
last eviction tried and could not remove. `leaked` is what stays counted without an
entry: `Get` subtracts the size of the entry it looked up and removes the one that is
there by then, so when the first was torn and the second is whole the difference stays
in `used` until the next start.

### Runs

| run | instance | what it shows |
|---|---|---|
| `transfers` | two callers, two ranges, budget of one, all events | one fetch per range, no lost wake-up, a count that is accounted for, eviction down to the budget or through every entry, every call returns |
| `torn_range` | one caller, one range, `restart` | violated: a success serves a truncated range |

Two ranges over a budget of one make every Put evict, two callers are a leader and a
follower, a reader and an evictor, or two writers of one file. The run reaches the
double subtraction of `GetDrop`: after it the count is too low and the files exceed the
budget, although `chunk_cache.go:16` says that eviction keeps the total under it. That
is why the properties bound the count and not the disk.
Deadlock is not checked: callers may rest. Fairness: the goroutine of every call
runs, and a request to Telegram returns (it has the request's context, and the client
library gives up on a dead connection); nothing makes a caller begin or hang up.

### Proofs

`ChunkCacheProofs` holds for any ranges, callers, budget and events, from
`ChunkAssumption`.

* `TypeCorrect`, `OneFetch`, `NoWakeUpIsLost` follow from `FlightInv`:
  `FollowersAreAwaited` needs `Registered` (a range is registered exactly while its
  leader fetches or unregisters it, so whoever follows finds a leader that has yet
  to publish) and `Settled` (what is published is an outcome).
* `CountHasBacking` and `PutKeepsBudget` follow from `CountInv`, whatever fails and
  whenever the agent stops: the count is at most the entries and what `Get` has
  leaked. An eviction takes the same from both; when it has tried every entry, the
  entries left are the ones it could not remove. The step of `InsertRange` is the lemma
  `InsertCounts`, by the cardinality of the entries.

Only model-checked: `CallersReturn`.

## 5. Files from other clients: ChannelImport

### State and code

| variable | code |
|---|---|
| `settings` | `storage_settings`: the configured channel, or `Self` |
| `history[h]`, `outbox` | the messages of a channel at Telegram, by number; those of the sync pass not yet recorded |
| `imported[m]`, `recorded` | how many import rows name a message; the messages named by versions of uploads |
| `cursor` | `channel_scan_state.last_message_id` |
| `forgone` | history: messages whose import failed once, or one of whose files was deleted for ever |
| `scanPC`, `peer`, `last`, `batch`, `item`, `loops` | the scan: position, channel, its cursor, the rest of the page, the message in hand, pages asked for |

`ScanBegin` reads settings and cursor (only the scanner writes the cursor); a page is
`ScanPage`, then per message `NextMessage`, the check, the transaction; the cursor is
saved when the page is done. The pass, seen from here, posts (`OwnPost`) and later
records or fails to; `DriveFiles` models the rest of it. Telegram answers with the
oldest page behind the cursor; message numbers have no gaps. The scanner runs only
with exactly one account, which the instance has; names, kinds and sizes of files are
left out.

### Runs

| run | instance | what it shows |
|---|---|---|
| `transfers` | one channel and Saved Messages, three messages in pages of two, up to two of them text, one stop, all events | once each, nothing passed over, no deleted file back from behind the cursor, and only a page of text keeps a foreign file away |
| `switched_channel` | two channels of two messages, `switch` | violated: the cursor of the first channel hides files of the second |

`MaxId`, `MaxTexts` and `MaxStops` bound what Telegram and the environment do; three
messages are a full page and a rest, and any of them may be the drive's own. With
`MaxTexts = Page` the run contains the stall: a page without media comes back empty,
which ends the scan (`channel_import.go:107`) and leaves the cursor before that page, at
this scan and every later one. `CHANGELOG.md:18` says that files sent to the channel
appear, so `ForeignAppears` fails there; `OnlyTextHidesFiles` names the state
(`Stalled`) and says that nothing else keeps a file away. A message that
the pass has posted and not recorded is imported: the model shows the double row, and
no property forbids it. Fairness: the ticker starts scans and the goroutine runs;
a page or a saved cursor that is tried for ever succeeds in the end.

### Proofs

`ChannelImportProofs` holds for any channels, page size, bounds and events.

* `ImportsOnce` and `PassedStaysPassed` need `ScanInv`: the rest of the page lies
  behind the scan's own cursor, that cursor is never before the saved one, and a
  message about to be inserted has no row, because nobody else imports.
* `NothingIsPassedOver` assumes `OneChannel`: what the scan has behind it is
  accounted for but the message in hand (`Behind`), and the page holds every media
  message up to its last (`Ahead`), so a saved cursor is covered.

Only model-checked: `OnlyTextHidesFiles`.

## 6. The tables of the drive: DriveTree, SyncFolders, Shares, Accounts

### State and code

| module | variables | code |
|---|---|---|
| `DriveTree` | `parent`, `title`, `folderRow`, `home`, `fileRow` | `folders` and `files`: `parent_id`, `name`, `deleted_at`, `folder_id`, and whether the row is there |
| | `creating`, `req` | `folderCreateMu`; the local state of the request each slot runs |
| | `raced`, `byUpload` | history: a request wrote on what it had read before another's write; folders made by uploads and untouched since |
| `SyncFolders` | `enabled`, `updatedAt`, `entries`, `files` | `sync_roots`, `sync_entries`, the rows the entries stand for |
| | `entry`, `watch`, `scanning`, `scan`, `import` | `syncWatchers`, the goroutines with fsnotify's queue and the debounce table, `ScanSyncRoot`, `importLocalFile` |
| | `disk`, `noticed`, `retouched` | the user's folder; history: changes a registered watcher was told of, files edited without a change of mtime |
| `Shares` | `link`, `shared`, `visit`, `edit` | `shares`; whether the file is there for its owner; a visitor's and an owner's request |
| | `granted`, `relimited` | history: downloads let through; links whose limit was changed |
| `Accounts` | `accounts`, `session`, `code`, `device`, `token` | `users`, `user_sessions`, `pairing_codes`, `devices`, `device_tokens` |
| | `guest`, `writer` | transactions in progress and SQLite's write lock |
| | `bucket`, `lastCleanup`, `passed` | `rateLimiter`; history: requests let through up to each second, per key |

`DriveTree` has one action per statement wherever another request matters: a move
walks up with one SELECT per ancestor and then writes, a trash or a permanent
deletion collects level by level, an upload's path is looked up and made folder by
folder under `folderCreateMu`. Any request can fail between two of its steps. A
collection that the database cuts short without an error (`rows.Err()` is not read,
`operations_v2.go:338`, `:362`) is not modelled: it takes a connection that fails
while its rows are read and answers the next statement, for a cancelled request fails
at that one. A row of
another owner is to these statements a row that is not there.

`SyncFolders` has one root (roots do not touch each other). Every edit of the user
queues an event at each watcher that has added the directory; `TickStart` replaces a
watcher whose stamp is not `updated_at`, which every scan touches; a scan ends
at the first file it finds gone (`ScanFile`); an import reads
the mtime, then the content, then records.

`Accounts` models SQLite in WAL mode as far as two transactions need it: a snapshot at
the first statement, one write lock, `SQLITE_BUSY_SNAPSHOT` for a transaction whose
snapshot is not the latest when it first writes.

### Run `metadata`

| part | instance |
|---|---|
| tree | every tree of three folders and a file to begin with, two names, two request slots, two operations in all, `HopLimit` and `MaxTree` 4 (200 and 50000 in the code) |
| synced folder | two paths, two contents, two watchers, three seconds, two acts of the user (edits, settings, scans), two rows |
| shares | one link, two visits at a time, three in all, one edit, limits 0 and 1, two dates |
| accounts | two users, a session, a code, two devices, two transactions at a time, one key with a burst of 2 in a window of 2 seconds, four seconds |

Two overlapping operations are what the tree's properties are about: a third request
only repeats what a second can do to the first, and the proofs cover any number. The
limits 200 and 50000 stand at 4, which three folders do not reach: what happens at them
is not what the run is about (a request that meets a limit is refused, which is what
any failing statement does to it), and the proofs hold for any value. Two watchers
are the one that is replaced and its successor, two rows the two contents. Ids that
have not been drawn are interchangeable, so the constraint `DrawnInOrder` drops the
states in which a later one is drawn before an earlier one, and `InOrder` begins with
every tree up to the names of its ids. Deadlock is not checked: operations, acts and
seconds are bounded, so the system stops.

* `CyclesNeedARace`, `NothingDangles`: the checks of the code are enough for requests
  that do not write on stale reads, whatever was trashed, restored or half deleted
  before. With two overlapping moves a cycle does arise, and a file saved into a folder
  while it is deleted for ever is left behind: that is in the code.
* `UploadsShareFolders` holds with races; `TrashTakesTheTree` without.
* `NoticedChangesArrive` follows a change from the registered watcher's queue through
  the debounce to its entry. A change between two watchers is not noticed: that is in
  the code, as is a file changed within the second of its mtime (`retouched`).
* `EntriesTellTheContent`: an entry with the file's mtime has the file's content.
* `LimitHolds`: the guard of one UPDATE keeps concurrent downloads within the limit,
  although each checked it long before.
* `FirstComeOnly`: one account, one device per code, through the snapshot check.
* `BurstBounded`: less than twice the burst in any window, whatever is swept.

### Proofs

Each of the four modules is proved about for every value of its constants, from the
assumption in the module; `MetadataTypeCorrect` and `MetadataIsSound` say it of the
composition.

* `DriveTreeProofs`, `TreesStayTrees`: a cycle would have to be closed by one move. The
  walk keeps the set of ancestors it has passed, and while the request is not stale that
  set still reaches up from its destination without the moved folder (`Slots`, `Clear`);
  with `ParentsDrawn` no unused folder is anybody's parent.
* `PathsAreShared` needs `UploadsLive` and that a request about to insert holds
  `folderCreateMu`.
* `TreesStayReachable`, `TrashTakesAll` are about what a request knows (`KInv`). While it
  is not stale, the place it is going to write to stands; what it has collected holds the
  children of every folder it has looked into, behind that folder (`Below`), and what is
  still to look into is the end of the list (`Remains`). At the end of the collection the
  list is closed under children, so a trash reaches all of the subtree: any chain of
  parents that leads to its folder stays in the list. A deletion goes through the list
  backwards and removes no folder before what lies in it, so that a failure half way
  leaves nothing behind in a folder that is gone.
* `SyncFoldersProofs`, `EntriesAreTrue`: an import holds the mtime it read first; if the
  file still has it and was not retouched, what was read after it is the content
  (`ContentInv`), and rows only get new content together with such an entry.
* `NoticedIsNotLost`: the map of watchers compares nothing but seconds, and a goroutine
  that leaves deletes the map's entry. That never hits its successor, because a watcher
  is only replaced in a later second than its stamp (`StampInv`: the stamps rise, the
  registered one's is the latest). So the registered watcher is alive, and a noticed
  change is in its queue with no removal behind it, in its debounce table, or in its
  import with the mtime the file has (`NoticeInv`).
* `MetadataProofs`, `LimitIsKept`: `LimitHolds` with `UnusedIsEmpty` (a row that was
  never made has counted nothing) and `EditsAreCurrent` (an edit in progress is of a row
  that exists and, unless its limit was edited, carries the limit that row has).
* `OneAccountOneDevice`: the holder of the write lock is the one transaction that writes,
  with the latest snapshot (`LockHeld`); a fresh snapshot still tells the truth about the
  account and the code it read (`SnapshotsHold`); the device of a code has used it up
  (`CodesUsedUp`).
* `BurstsAreBounded`: the limiter keeps a fixed window, the property is about a sliding
  one. `LimiterInv` says what the bucket knows of the history: while it is open, its
  count is what was let through since it was opened, and less than a burst was let
  through in the window before that; while none is open, less than a burst was in the
  window up to now. A sliding window meets one bucket and what was before it, hence less
  than two bursts. The sweep only drops buckets that are not open. `passed` is kept as a
  running total so that a window is a difference of two values.

Nothing of safety is left to TLC here, and no liveness is stated.

## 7. The services: MountedDrive, Mounts, Tunnel, TelegramLogin

### State and code

| module | variables | code |
|---|---|---|
| `MountedDrive` | `handle`, `inode` | `writeHandle`, `writeFile` or a tus upload; the temporary files |
| | `tempName`, `unsaved`, `pending` | names in `fuse-tmp/`: `<leaf>.tdtmp`, `<leaf>.tdtmp.unsaved`; `driveFS.pending` |
| | `listing`, `renaming` | rows of files in the order they were touched; a rename or removal between its statements |
| | `given`, `clash` | history: what each handle was given to write; handles that shared a FUSE name |
| `Mounts` | `mounter`, `mounting`, `cancel` | `Manager` |
| | `flag`, `hostUp`, `engine`, `ended` | `fuseMounter.mounted`, the host, the goroutine of an attempt, its context |
| `Tunnel` | `process`, `output`, `current`, `status` | cloudflared, its output, `Service.cmd`, `Service.status` |
| | `known`, `config`, `saving` | the drive's copy, `share_config`, `UpdateShareConfig` in progress |
| `TelegramLogin` | `qr`, `login`, `asker` | `Service.qr`, the sessions with their goroutines, the requests |

A file over FUSE is written anywhere, over WebDAV and tus one block after the other;
closing it reads the temporary file block by block, and then either a live row has this
content and is the answer (`SaveKnown`, no row is made) or a new one is added
(`SaveUnknown`, `SaveStreamFile`). A save may fail at any block: FUSE keeps the file,
WebDAV gives it up with an error, tus leaves it to the janitor (`Sweep`; the twelve
hours of `tusTempTTL` are any time). A file that cannot be rewound or opened
(`CloseFails`), and one the agent stops over (`Crash`), stays under its temporary name
over FUSE (`stranded`), where the next `Create` of that leaf truncates it. Over a remote backend a failed save may have made
its row all the same.

`Mounts` has the request, its goroutine inside `fuseMounter.Mount` and the host as
three actors; `SwitchBackend` replaces the mounter whatever is running.

### Run `services`

| part | instance | property |
|---|---|---|
| drive | two folders, two names, two files, one block, one rename or removal | `SavedOrKept` |
| mounts | two mounters, two attempts, one unmount | `MountEnds` |
| tunnel | three processes, one update of the settings | `StatusTellsTheTruth` |
| login | two requests at a time, two sessions | `CancelReturns` |

Two files are what can meet in the temporary folder, in one folder or two; a block is
whole, a hole or another file's. Two processes are the old and the new tunnel, the
third one comes after both. Deadlock is not checked: handles, attempts, processes and
sessions are bounded.

Fairness: the deadline of a waiting mount fires (`time.After`); of the host nothing is
assumed, its `Mount` may hang. A QR goroutine whose context is done leaves, closes
`done`, and the request waiting for that is scheduled; no answer of Telegram and no
password is owed.

### Proofs

`ServicesProofs` holds for every value of the constants of the four modules;
`ServicesTypeCorrect` and `ServicesAreSound` say it of the composition.

* `StatusIsTrue`: `StatusTellsTheTruth` needs `OthersAreOver` (unless `hasty`, every
  process but the current one is reaped and its output read) and `CopyIsTrue` (the
  drive's copy is the status).
* `NothingWrittenIsLost`: `SavedOrKept` speaks of a file by its handle, the code finds it
  by a name in a shared folder. `DriveInv` has the link: every handle writes to a
  temporary file made for its kind and leaf (`FilesStand`), a name in `fuse-tmp/` is of
  one file (`NamesStand`), and a handle outside `clash` has the file to itself (`Alone`:
  no other working handle of its leaf, and none on the kept file). Then the file holds
  what the handle was given, and what the save has copied so far is that (`Whole`); what
  was saved is held by a row, what failed is under the kept name, what was left is
  under its temporary one (`Stored`). Rows keep their
  bytes through renames and removals, which are about a row that exists (`RowStands`).
* `MountsTypeCorrect`, `LoginTypeCorrect`: the types, which in `Mounts` say that an
  attempt, a cancellation and an `Unmount` are about a mounter that was built.

Only model-checked: `MountEnds` and `CancelReturns`.

### What the models show of the code and no property forbids

* A stopped cloudflared that exits late marks the tunnel started after it inactive;
  `Stop` then does nothing (`hasty`). A process that ends by itself leaves its URL.
* `<leaf>.tdtmp` is shared by files of one name in different folders, and so is
  `<leaf>.tdtmp.unsaved` (`clash`); the comment at `vfs/platform_fuse.go:238` speaks
  of `<name>.<id>.unsaved`.
* A PUT that breaks off is closed, and saved as far as it came. Writing a name again
  adds a second row; the one touched last is found.
* A file whose content the drive has makes no row: a copy of `a` to `b` is no `b`, and
  when `a` is trashed nothing of it is left to see.
* What lies in `fuse-tmp/` when the agent starts is never looked at again.
* A tus upload that was complete when the agent stopped is never imported, though its
  client was told so, and the janitor removes it.
* `Unmount` between the optimistic flag and the host's mount leaves the host mounted
  and the manager sure it is not; a switch of the backend replaces the mounter under a
  running attempt.
* Two overlapping `StartQR` leave a session nobody can cancel.
* `RestoreFolder` brings back its own row, without what was trashed with it.

## 8. Not modelled

* *Event bus and web app.* The bus drops events by intent and the browser polls; what
  the browser then shows depends on the order of its own answers, which no module has.
* *Login by phone and code.* Its requests share three fields under one mutex and
  otherwise hold a conversation with Telegram of which the agent keeps nothing.
* *Reading through the virtual drive and WebDAV, folders there.* Range reads are
  `ChunkCache`, folder operations `DriveTree`; the adapters add attributes and paths.
* *Starring, search, zip, photo views, visitor tracking.* Flags and reads no other
  operation depends on.
* *Schema and migrations, backups, key storage.* One goroutine each, before or beside
  everything else; the tables are the variables of the modules.
* *Views, thumbnails, HLS, logs, desktop, tray, installer.* Presentation, image work
  and platform calls.

Permanent deletion also removes rows of `shares` and `sync_entries`: in `Shares` the
target may go at any time (`MoveTarget`, `DeleteShare`), `SyncFolders` leaves it out.

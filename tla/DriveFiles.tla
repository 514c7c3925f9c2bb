----------------------------- MODULE DriveFiles -----------------------------
(***************************************************************************)
(* The life of a file's bytes in the agent (internal/drive/service.go,     *)
(* cache.go, retry.go, operations.go, operations_v2.go).                   *)
(*                                                                         *)
(* A file is saved by an upload or imported from a folder the user syncs,  *)
(* sent to Telegram by a sync pass, evicted from the local cache, fetched  *)
(* back by a download, trashed, restored and permanently deleted.  Sync    *)
(* passes, downloads, cache cleaners, saves and deletions run concurrently *)
(* and share nothing but the database, the disk, the retry table and the   *)
(* mutex of the Telegram client; one action is one SQL statement or        *)
(* transaction, one disk operation or one call of Telegram.                *)
(***************************************************************************)
EXTENDS FiniteSets

CONSTANTS
    Files,      \* file identifiers (newID); one call saves one identifier
    Passes,     \* concurrent runs of SyncPendingToTelegram
    Requests,   \* the passes that run for POST /v1/files/sync
    Readers,    \* concurrent downloads (GetDownloadableFile, GetStreamableFile)
    Cleaners,   \* concurrent runs of CleanupCache
    HashOf,     \* the SHA-256 of the bytes each file identifier carries
    EmptyHash,  \* the hash of no bytes at all
    Policies,   \* the cache policies in use: "mirror", "smart", "cloud_only"
    Events,     \* what the environment may do (EnvironmentEvents)
    None        \* no item, no holder

EnvironmentEvents ==
    {"crash", "disconnect", "store_fails", "trash", "delete", "remove_source",
     "read_fails", "pause"}

ASSUME ConstantsAssumption ==
    /\ Requests \subseteq Passes
    /\ Events \subseteq EnvironmentEvents
    /\ Policies \subseteq {"mirror", "smart", "cloud_only"}
    /\ None \notin Files /\ None \notin Readers

-----------------------------------------------------------------------------
VARIABLES
    row,       \* files: status, sync_state, local_path and cache_origin
    versions,  \* file_versions: what the messages they name hold
    latest,    \* what the message of the highest version_number holds
    transfer,  \* transfers: the phase of the telegram_sync row
    cache,     \* dataDir/uploads/<id>-<name> on disk
    source,    \* the file in the user's synced folder
    retry,     \* retryState: absent, window closed, window elapsed
    client,    \* who holds telegramstorage.clientMu across steps
    paused,    \* main's flag behind the tray's pause entry
    save,      \* the call that saves each file identifier
    del,       \* the call that permanently deletes each file
    pc, queue, item, payload, ctx,  \* of each sync pass
    rpc, ritem, rget,               \* of each reader
    cpc, cqueue, citem,             \* of each cleaner
    policy     \* CachePolicy.Mode

dbVars      == <<row, versions, latest, transfer>>
diskVars    == <<cache, source>>
agentVars   == <<retry, client, paused>>
callVars    == <<save, del>>
passVars    == <<pc, queue, item, payload, ctx>>
readerVars  == <<rpc, ritem, rget>>
cleanerVars == <<cpc, cqueue, citem, policy>>
vars == <<dbVars, diskVars, agentVars, callVars, passVars, readerVars, cleanerVars>>

SyncStates == {"pending_telegram_upload", "telegram_uploading", "telegram_synced",
               "telegram_upload_failed", "local_missing", "metadata_only"}
Origins    == {"upload_cache", "sync_source", "restored_cache"}
Statuses   == {"absent", "live", "trashed", "deleted"}
OnDisk     == {"absent", "partial", "whole"}
Payloads   == {"whole", "torn"}    \* all the bytes of a file, or a prefix of them
Items      == [id : Files, path : {"cache", "source"}]

PassPCs    == {"idle", "next", "stat", "missing", "missing_transfer", "mark", "start",
               "upload", "failed", "failed_transfer", "report", "record", "done",
               "evict", "evict_remove", "evict_clear"}
ReaderPCs  == {"idle", "version", "download", "fetching", "relabel", "serving"}

NoRow   == [status |-> "absent", state |-> "metadata_only", path |-> "none",
            origin |-> "upload_cache"]
NewSave == [pc |-> "idle", how |-> "upload", dup |-> None]
NewDel  == [pc |-> "idle", path |-> "none"]

Empty(f)   == HashOf[f] = EmptyHash
Exists(f)  == row[f].status \in {"live", "trashed"}
Live(f)    == row[f].status = "live"

(* What lies at an item's local path, and the disk after writing there.     *)
At(i)      == IF i.path = "cache" THEN cache[i.id] ELSE source[i.id]
Write(i, c) ==
    IF i.path = "cache"
    THEN cache' = [cache EXCEPT ![i.id] = c] /\ UNCHANGED source
    ELSE source' = [source EXCEPT ![i.id] = c] /\ UNCHANGED cache

(* pendingTelegramUploads and GetDownloadableFile: an empty local_path      *)
(* stands for uploads/<id>-<name>.                                          *)
DefaultPath(path) == IF path = "source" THEN "source" ELSE "cache"

(* UPDATE files ... WHERE id = ?: no row, no change; trashed rows change.   *)
UpdateRow(f, r) == row' = IF Exists(f) THEN [row EXCEPT ![f] = r] ELSE row
(* Seeded fault: a failure does not overwrite an earlier label.             *)
MarksProgress(f, s) == UpdateRow(f, IF s = "telegram_upload_failed" THEN row[f]
                                    ELSE [row[f] EXCEPT !.state = s])
MarkSyncState(f, s) == UpdateRow(f, [row[f] EXCEPT !.state = s])

ForgetPath(f) == UpdateRow(f, [row[f] EXCEPT !.path = "none"])
SetLocalPath(f, path, origin) ==
    UpdateRow(f, [row[f] EXCEPT !.path = path, !.origin = origin])

(* Seeded fault: the transfer is inserted when it is not there.             *)
UpsertTransfer(f, phase) == transfer' = [transfer EXCEPT ![f] = phase]

(* updateTransfer: a completed row is never overwritten.                    *)
UpdateTransfer(f, phase) ==
    transfer' = IF transfer[f] \in {"none", "completed"} THEN transfer
                ELSE [transfer EXCEPT ![f] = phase]

Row  == [status : Statuses, state : SyncStates, path : {"none", "cache", "source"},
         origin : Origins]
Save == [pc : {"idle", "writing", "lookup", "insert", "stored", "duplicate", "aborted"},
         how : {"upload", "import"}, dup : Files \cup {None}]
Del  == [pc : {"idle", "tx", "unlink"}, path : {"none", "cache", "source"}]

DbType ==
    /\ row \in [Files -> Row]
    /\ versions \in [Files -> SUBSET Payloads]
    /\ latest \in [Files -> {"none"} \cup Payloads]
    /\ transfer \in [Files -> {"none", "queued", "syncing_telegram", "failed", "completed"}]
DiskType  == cache \in [Files -> OnDisk] /\ source \in [Files -> OnDisk]
AgentType ==
    /\ retry \in [Files -> {"none", "closed", "elapsed"}] /\ client \in Readers \cup {None}
    /\ paused \in BOOLEAN
CallType  == save \in [Files -> Save] /\ del \in [Files -> Del]
PassType ==
    /\ pc \in [Passes -> PassPCs] /\ queue \in [Passes -> SUBSET Items]
    /\ item \in [Passes -> Items \cup {None}] /\ payload \in [Passes -> Payloads]
    /\ ctx \in [Passes -> {"live", "cancelled"}]
    /\ \A p \in Passes : pc[p] \notin {"idle", "next"} => item[p] \in Items
ReaderType ==
    /\ rpc \in [Readers -> ReaderPCs] /\ ritem \in [Readers -> Items \cup {None}]
    /\ rget \in [Readers -> Payloads]
    /\ \A r \in Readers : rpc[r] # "idle" => ritem[r] \in Items
CleanerType ==
    /\ cpc \in [Cleaners -> {"idle", "loop", "clear"}]
    /\ cqueue \in [Cleaners -> SUBSET Files] /\ citem \in [Cleaners -> Files \cup {None}]
    /\ policy \in Policies
    /\ \A c \in Cleaners : cpc[c] = "clear" => citem[c] \in Files

TypeOK == DbType /\ DiskType /\ AgentType /\ CallType /\ PassType /\ ReaderType /\ CleanerType

Init ==
    /\ row = [f \in Files |-> NoRow] /\ versions = [f \in Files |-> {}]
    /\ latest = [f \in Files |-> "none"] /\ transfer = [f \in Files |-> "none"]
    /\ cache = [f \in Files |-> "absent"] /\ source \in [Files -> {"absent", "whole"}]
    /\ retry = [f \in Files |-> "none"] /\ client = None /\ paused = FALSE
    /\ save = [f \in Files |-> NewSave] /\ del = [f \in Files |-> NewDel]
    /\ pc = [p \in Passes |-> "idle"] /\ queue = [p \in Passes |-> {}]
    /\ item = [p \in Passes |-> None] /\ payload = [p \in Passes |-> "whole"]
    /\ ctx = [p \in Passes |-> "live"]
    /\ rpc = [r \in Readers |-> "idle"] /\ ritem = [r \in Readers |-> None]
    /\ rget = [r \in Readers |-> "whole"]
    /\ cpc = [c \in Cleaners |-> "idle"] /\ cqueue = [c \in Cleaners |-> {}]
    /\ citem = [c \in Cleaners |-> None] /\ policy \in Policies

-----------------------------------------------------------------------------
(* Saving a file.                                                           *)

SaveGoto(f, l) == save' = [save EXCEPT ![f].pc = l]

(* The row a completed save inserts, with its transfer.                     *)
NewRow(f) ==
    [status |-> "live",
     state  |-> IF Empty(f) THEN "metadata_only" ELSE "pending_telegram_upload",
     path   |-> IF save[f].how = "upload" THEN "cache" ELSE "source",
     origin |-> IF save[f].how = "upload" THEN "upload_cache" ELSE "sync_source"]

(* Seeded fault: an error while the body is copied is taken for its end.    *)
AcceptsBrokenBody(f) ==
    /\ \/ save[f].pc = "writing" /\ "disconnect" \in Events /\ SaveGoto(f, "lookup")
       \/ save[f].pc = "insert" /\ "store_fails" \in Events /\ SaveGoto(f, "aborted")
    /\ UNCHANGED <<dbVars, diskVars, agentVars, del, passVars, readerVars, cleanerVars>>

(* saveFileFromReader creates the target file and streams the request body  *)
(* into it while hashing it.                                                *)
UploadBegin(f) ==
    /\ save[f].pc = "idle"
    /\ SaveGoto(f, "writing")
    /\ cache' = [cache EXCEPT ![f] = "partial"]
    /\ UNCHANGED <<dbVars, source, agentVars, del, passVars, readerVars, cleanerVars>>

UploadBody(f) ==
    /\ save[f].pc = "writing"
    /\ SaveGoto(f, "lookup")
    /\ cache' = [cache EXCEPT ![f] = "whole"]
    /\ UNCHANGED <<dbVars, source, agentVars, del, passVars, readerVars, cleanerVars>>

(* importSyncSourceFile hashes the user's file where it lies.               *)
ImportBegin(f) ==
    /\ save[f].pc = "idle" /\ source[f] = "whole"
    /\ save' = [save EXCEPT ![f] = [pc |-> "lookup", how |-> "import", dup |-> None]]
    /\ UNCHANGED <<dbVars, diskVars, agentVars, del, passVars, readerVars, cleanerVars>>

(* findFileByHash: a live row of size > 0 with the same hash.               *)
Twins(f) == {g \in Files : Live(g) /\ ~Empty(g) /\ HashOf[g] = HashOf[f]}

(* Seeded fault: the bytes removed are those of the row that was found.     *)
RemovesTheOther(f) ==
    /\ save[f].pc = "lookup"
    /\ \E g \in Twins(f) :
          /\ save' = [save EXCEPT ![f] = [@ EXCEPT !.pc = "duplicate", !.dup = g]]
          /\ cache' = IF save[f].how = "upload" THEN [cache EXCEPT ![g] = "absent"] ELSE cache
    /\ UNCHANGED <<dbVars, source, agentVars, del, passVars, readerVars, cleanerVars>>

(* The content is known: an upload's bytes are removed, the call returns    *)
(* the row it found.                                                        *)
SaveDuplicate(f) ==
    /\ save[f].pc = "lookup"
    /\ \E g \in Twins(f) : save' = [save EXCEPT ![f] = [@ EXCEPT !.pc = "duplicate", !.dup = g]]
    /\ cache' = IF save[f].how = "upload" THEN [cache EXCEPT ![f] = "absent"] ELSE cache
    /\ UNCHANGED <<dbVars, source, agentVars, del, passVars, readerVars, cleanerVars>>

(* No such row; the code reads an error of the query the same way.          *)
SaveLookup(f) ==
    /\ save[f].pc = "lookup"
    /\ Twins(f) = {} \/ "store_fails" \in Events
    /\ SaveGoto(f, "insert")
    /\ UNCHANGED <<dbVars, diskVars, agentVars, del, passVars, readerVars, cleanerVars>>

(* The transaction that inserts the row and queues its transfer.            *)
SaveInsert(f) ==
    /\ save[f].pc = "insert"
    /\ SaveGoto(f, "stored")
    /\ row' = [row EXCEPT ![f] = NewRow(f)]
    /\ transfer' = IF Empty(f) THEN transfer ELSE [transfer EXCEPT ![f] = "queued"]
    /\ UNCHANGED <<versions, latest, diskVars, agentVars, del, passVars, readerVars, cleanerVars>>

(* The body breaks off or a statement fails: the call returns an error and  *)
(* leaves what it has written in uploads/.                                  *)
SaveAbort(f) ==
    /\ \/ save[f].pc = "writing" /\ "disconnect" \in Events
       \/ save[f].pc = "insert" /\ "store_fails" \in Events
    /\ SaveGoto(f, "aborted")
    /\ UNCHANGED <<dbVars, diskVars, agentVars, del, passVars, readerVars, cleanerVars>>

SaveStep(f) ==
    \/ UploadBegin(f) \/ UploadBody(f) \/ ImportBegin(f) \/ SaveDuplicate(f)
    \/ SaveLookup(f) \/ SaveInsert(f) \/ SaveAbort(f)

-----------------------------------------------------------------------------
(* A sync pass: SyncPendingToTelegram, one statement or call at a time.     *)

CanSucceed(p) == ctx[p] = "live"
CanFail(p)    == ctx[p] = "cancelled" \/ "store_fails" \in Events
Goto(p, l)    == pc' = [pc EXCEPT ![p] = l] /\ UNCHANGED item
(* Seeded faults: the item is dropped but the loop's body goes on; the loop *)
(* goes on with the same item.                                              *)
LosesItem(p)  == item' = [item EXCEPT ![p] = None] /\ UNCHANGED pc
SameItem(p)   == pc' = [pc EXCEPT ![p] = "stat"] /\ UNCHANGED item
NextItem(p)   == pc' = [pc EXCEPT ![p] = "next"] /\ item' = [item EXCEPT ![p] = None]

(* Seeded faults: a failed file is not listed again; the list goes by the   *)
(* transfer instead of the file's label.                                    *)
NeverFailed(f)  == Live(f) /\ ~Empty(f) /\ row[f].state = "pending_telegram_upload"
NotCompleted(f) == Live(f) /\ ~Empty(f) /\ transfer[f] # "completed"

(* pendingTelegramUploads                                                   *)
IsPending(f) ==
    Live(f) /\ ~Empty(f) /\ row[f].state \in {"pending_telegram_upload", "telegram_upload_failed"}
Pending ==
    {[id |-> f, path |-> DefaultPath(row[f].path)] : f \in {g \in Files : IsPending(g)}}

(* The ticker starts none while the tray pauses it; a request is not asked. *)
PassBegin(p) ==
    /\ pc[p] = "idle" /\ Pending # {} /\ (paused => p \in Requests)
    /\ queue' = [queue EXCEPT ![p] = Pending]
    /\ Goto(p, "next")
    /\ UNCHANGED <<dbVars, diskVars, agentVars, callVars, payload, ctx, readerVars, cleanerVars>>

(* The next file of the list; uploadGateAllow passes over it while its      *)
(* retry window is closed.  (updated_at orders the list by the second; any  *)
(* order is allowed here.)                                                  *)
PassTake(p) ==
    /\ pc[p] = "next"
    /\ \E i \in queue[p] :
          /\ queue' = [queue EXCEPT ![p] = @ \ {i}]
          /\ IF retry[i.id] = "closed"
             THEN UNCHANGED <<pc, item>>
             ELSE pc' = [pc EXCEPT ![p] = "stat"] /\ item' = [item EXCEPT ![p] = i]
    /\ UNCHANGED <<dbVars, diskVars, agentVars, callVars, payload, ctx, readerVars, cleanerVars>>

PassEnd(p) ==
    /\ pc[p] = "next" /\ queue[p] = {}
    /\ Goto(p, "idle")
    /\ ctx' = [ctx EXCEPT ![p] = "live"]
    /\ UNCHANGED <<dbVars, diskVars, agentVars, callVars, queue, payload, readerVars, cleanerVars>>

PassStat(p) ==
    /\ pc[p] = "stat"
    /\ Goto(p, IF At(item[p]) = "absent" THEN "missing" ELSE "mark")
    /\ UNCHANGED <<dbVars, diskVars, agentVars, callVars, queue, payload, ctx, readerVars, cleanerVars>>

(* The local file is gone: two statements whose errors are ignored.         *)
PassMissing(p) ==
    /\ pc[p] = "missing"
    /\ \/ CanSucceed(p) /\ MarkSyncState(item[p].id, "local_missing")
       \/ CanFail(p) /\ UNCHANGED row
    /\ Goto(p, "missing_transfer")
    /\ UNCHANGED <<versions, latest, transfer, diskVars, agentVars, callVars, queue, payload,
                   ctx, readerVars, cleanerVars>>

PassMissingTransfer(p) ==
    /\ pc[p] = "missing_transfer"
    /\ \/ CanSucceed(p) /\ UpdateTransfer(item[p].id, "failed")
       \/ CanFail(p) /\ UNCHANGED transfer
    /\ retry' = [retry EXCEPT ![item[p].id] = "none"]
    /\ NextItem(p)
    /\ UNCHANGED <<row, versions, latest, diskVars, client, paused, callVars, queue, payload, ctx,
                   readerVars, cleanerVars>>

PassMark(p) ==
    /\ pc[p] = "mark"
    /\ \/ CanSucceed(p) /\ MarkSyncState(item[p].id, "telegram_uploading") /\ Goto(p, "start")
       \/ CanFail(p) /\ UNCHANGED row /\ NextItem(p)
    /\ UNCHANGED <<versions, latest, transfer, diskVars, agentVars, callVars, queue, payload,
                   ctx, readerVars, cleanerVars>>

(* updateTransfer before and after the upload; errors are ignored.          *)
PassProgress(p) ==
    /\ pc[p] \in {"start", "report"}
    /\ \/ CanSucceed(p) /\ UpdateTransfer(item[p].id, "syncing_telegram")
       \/ CanFail(p) /\ UNCHANGED transfer
    /\ Goto(p, IF pc[p] = "start" THEN "upload" ELSE "record")
    /\ UNCHANGED <<row, versions, latest, diskVars, agentVars, callVars, queue, payload, ctx,
                   readerVars, cleanerVars>>

(* UploadToPeer holds clientMu from the first byte it reads to the message. *)
PassUpload(p) ==
    /\ pc[p] = "upload" /\ client = None
    /\ ctx[p] = "live" /\ At(item[p]) # "absent"
    /\ payload' = [payload EXCEPT ![p] = IF At(item[p]) = "whole" THEN "whole" ELSE "torn"]
    /\ Goto(p, "report")
    /\ UNCHANGED <<dbVars, diskVars, agentVars, callVars, queue, ctx, readerVars, cleanerVars>>

(* It may fail at any point, also after Telegram has taken the message.     *)
PassUploadFails(p) ==
    /\ pc[p] = "upload" /\ client = None
    /\ Goto(p, "failed")
    /\ UNCHANGED <<dbVars, diskVars, agentVars, callVars, queue, payload, ctx, readerVars,
                   cleanerVars>>

PassFailed(p) ==
    /\ pc[p] = "failed"
    /\ \/ CanSucceed(p) /\ MarkSyncState(item[p].id, "telegram_upload_failed")
       \/ CanFail(p) /\ UNCHANGED row
    /\ Goto(p, "failed_transfer")
    /\ UNCHANGED <<versions, latest, transfer, diskVars, agentVars, callVars, queue, payload,
                   ctx, readerVars, cleanerVars>>

PassFailedTransfer(p) ==
    /\ pc[p] = "failed_transfer"
    /\ \/ CanSucceed(p) /\ UpdateTransfer(item[p].id, "failed")
       \/ CanFail(p) /\ UNCHANGED transfer
    /\ retry' = [retry EXCEPT ![item[p].id] = "closed"]
    /\ NextItem(p)
    /\ UNCHANGED <<row, versions, latest, diskVars, client, paused, callVars, queue, payload, ctx,
                   readerVars, cleanerVars>>

(* recordTelegramVersion: one transaction adds the version and marks the    *)
(* row telegram_synced.  A row deleted meanwhile gets its version all the   *)
(* same: nothing ties file_versions to files.                               *)
RecordTelegramVersion(p) ==
    LET f == item[p].id IN
    /\ versions' = [versions EXCEPT ![f] = @ \cup {payload[p]}]
    /\ latest' = [latest EXCEPT ![f] = payload[p]]
    /\ MarkSyncState(f, "telegram_synced")

(* Seeded fault: an error of recordTelegramVersion is ignored.              *)
RecordErrorIgnored(p) ==
    /\ pc[p] = "record"
    /\ \/ CanSucceed(p) /\ RecordTelegramVersion(p)
       \/ CanFail(p) /\ UNCHANGED <<row, versions, latest>>
    /\ Goto(p, "done")
    /\ UNCHANGED <<transfer, diskVars, agentVars, callVars, queue, payload, ctx, readerVars,
                   cleanerVars>>

PassRecord(p) ==
    /\ pc[p] = "record"
    /\ \/ CanSucceed(p) /\ RecordTelegramVersion(p) /\ Goto(p, "done")
       \/ CanFail(p) /\ UNCHANGED <<row, versions, latest>> /\ Goto(p, "failed")
    /\ UNCHANGED <<transfer, diskVars, agentVars, callVars, queue, payload, ctx, readerVars,
                   cleanerVars>>

PassDone(p) ==
    /\ pc[p] = "done"
    /\ retry' = [retry EXCEPT ![item[p].id] = "none"]
    /\ \/ CanSucceed(p) /\ UpdateTransfer(item[p].id, "completed")
       \/ CanFail(p) /\ UNCHANGED transfer
    /\ Goto(p, "evict")
    /\ UNCHANGED <<row, versions, latest, diskVars, client, paused, callVars, queue, payload, ctx,
                   readerVars, cleanerVars>>

(* maybeEvictAfterSync and CleanupCache: only files inside uploads/ that do *)
(* not come from the user's own folder leave the disk.                      *)
Evictable(f) == row[f].path = "cache" /\ row[f].origin # "sync_source"

PassEvict(p) ==
    /\ pc[p] = "evict"
    /\ \/ /\ CanSucceed(p) /\ policy = "cloud_only"
          /\ Exists(item[p].id) /\ Evictable(item[p].id)
          /\ Goto(p, "evict_remove")
       \/ /\ CanFail(p) \/ policy # "cloud_only"
             \/ ~Exists(item[p].id) \/ ~Evictable(item[p].id)
          /\ NextItem(p)
    /\ UNCHANGED <<dbVars, diskVars, agentVars, callVars, queue, payload, ctx, readerVars,
                   cleanerVars>>

(* evictCacheItem: the file leaves the disk, then the row forgets its path; *)
(* a file that cannot be removed keeps both.                                *)
PassEvictRemove(p) ==
    /\ pc[p] = "evict_remove"
    /\ \/ cache' = [cache EXCEPT ![item[p].id] = "absent"] /\ Goto(p, "evict_clear")
       \/ "store_fails" \in Events /\ UNCHANGED cache /\ NextItem(p)
    /\ UNCHANGED <<dbVars, source, agentVars, callVars, queue, payload, ctx, readerVars,
                   cleanerVars>>

PassEvictClear(p) ==
    /\ pc[p] = "evict_clear"
    /\ \/ CanSucceed(p) /\ ForgetPath(item[p].id)
       \/ CanFail(p) /\ UNCHANGED row
    /\ NextItem(p)
    /\ UNCHANGED <<versions, latest, transfer, diskVars, agentVars, callVars, queue, payload,
                   ctx, readerVars, cleanerVars>>

PassStep(p) ==
    \/ PassTake(p) \/ PassEnd(p) \/ PassStat(p) \/ PassMissing(p) \/ PassMissingTransfer(p)
    \/ PassMark(p) \/ PassProgress(p) \/ PassUpload(p) \/ PassUploadFails(p) \/ PassFailed(p)
    \/ PassFailedTransfer(p) \/ PassRecord(p) \/ PassDone(p) \/ PassEvict(p)
    \/ PassEvictRemove(p) \/ PassEvictClear(p)

(* The client of POST /v1/files/sync goes away: r.Context() is cancelled    *)
(* and every later statement and call of the pass fails.                    *)
Disconnect(p) ==
    /\ "disconnect" \in Events /\ p \in Requests
    /\ pc[p] # "idle" /\ ctx[p] = "live"
    /\ ctx' = [ctx EXCEPT ![p] = "cancelled"]
    /\ UNCHANGED <<dbVars, diskVars, agentVars, callVars, pc, queue, item, payload, readerVars,
                   cleanerVars>>

(* scheduleRetry's notBefore passes.                                        *)
RetryWindowElapses(f) ==
    /\ retry[f] = "closed"
    /\ retry' = [retry EXCEPT ![f] = "elapsed"]
    /\ UNCHANGED <<dbVars, diskVars, client, paused, callVars, passVars, readerVars, cleanerVars>>

-----------------------------------------------------------------------------
(* Reading a file: GetDownloadableFile and GetStreamableFile.               *)

(* getFile: its SELECT has no cache_origin column, so the struct's field    *)
(* keeps its zero value.                                                    *)
GetFile(f) == [id |-> f, path |-> row[f].path, origin |-> ""]

SafeRestorePath(file) ==
    IF file.origin = "sync_source" THEN "cache" ELSE DefaultPath(file.path)

ReaderGoto(r, l) == rpc' = [rpc EXCEPT ![r] = l]

(* Any file at the local path counts as the cached copy.                    *)
ReaderOpen(r, f) ==
    LET file  == GetFile(f)
        local == [id |-> f, path |-> DefaultPath(file.path)]
        hit   == At(local) # "absent"
    IN  /\ rpc[r] = "idle" /\ Live(f)
        /\ ReaderGoto(r, IF hit THEN "serving" ELSE "version")
        /\ ritem' = [ritem EXCEPT ![r] = IF hit THEN local
                                         ELSE [id |-> f, path |-> SafeRestorePath(file)]]
        /\ UNCHANGED <<dbVars, diskVars, agentVars, callVars, passVars, rget, cleanerVars>>

(* latestTelegramVersion finds a message to fetch ...                       *)
ReaderVersion(r) ==
    /\ rpc[r] = "version" /\ latest[ritem[r].id] # "none"
    /\ rget' = [rget EXCEPT ![r] = latest[ritem[r].id]]
    /\ ReaderGoto(r, "download")
    /\ UNCHANGED <<dbVars, diskVars, agentVars, callVars, passVars, ritem, cleanerVars>>

(* ... or none, or the call only streams (GetStreamableFile), or Telegram   *)
(* refuses before the target file is created.                               *)
ReaderLeave(r) ==
    /\ rpc[r] \in {"version", "serving"} \/ (rpc[r] = "download" /\ "read_fails" \in Events)
    /\ ReaderGoto(r, "idle")
    /\ ritem' = [ritem EXCEPT ![r] = None]
    /\ UNCHANGED <<dbVars, diskVars, agentVars, callVars, passVars, rget, cleanerVars>>

(* DownloadFromPeer truncates the target and fills it under clientMu.       *)
ReaderDownload(r) ==
    /\ rpc[r] = "download" /\ client = None
    /\ client' = r
    /\ Write(ritem[r], "partial")
    /\ ReaderGoto(r, "fetching")
    /\ UNCHANGED <<dbVars, retry, paused, callVars, passVars, ritem, rget, cleanerVars>>

ReaderFetched(r) ==
    /\ rpc[r] = "fetching"
    /\ client' = None
    /\ Write(ritem[r], IF rget[r] = "whole" THEN "whole" ELSE "partial")
    /\ ReaderGoto(r, "relabel")
    /\ UNCHANGED <<dbVars, retry, paused, callVars, passVars, ritem, rget, cleanerVars>>

(* Seeded fault: what has arrived is removed from the target path.          *)
RemovesBrokenFile(r) ==
    /\ rpc[r] = "fetching" /\ "read_fails" \in Events
    /\ client' = None
    /\ Write(ritem[r], "absent")
    /\ ReaderGoto(r, "idle")
    /\ ritem' = [ritem EXCEPT ![r] = None]
    /\ UNCHANGED <<dbVars, retry, paused, callVars, passVars, rget, cleanerVars>>

(* The transfer breaks off; what has arrived stays at the target path.      *)
ReaderBreaksOff(r) ==
    /\ rpc[r] = "fetching" /\ "read_fails" \in Events
    /\ client' = None
    /\ ReaderGoto(r, "idle")
    /\ ritem' = [ritem EXCEPT ![r] = None]
    /\ UNCHANGED <<dbVars, diskVars, retry, paused, callVars, passVars, rget, cleanerVars>>

(* UPDATE files SET local_path, cache_origin; an error is ignored.          *)
ReaderRelabel(r) ==
    LET f == ritem[r].id IN
    /\ rpc[r] = "relabel"
    /\ \/ SetLocalPath(f, ritem[r].path, "restored_cache")
       \/ "read_fails" \in Events /\ UNCHANGED row
    /\ ReaderGoto(r, "serving")
    /\ UNCHANGED <<versions, latest, transfer, diskVars, agentVars, callVars, passVars, ritem,
                   rget, cleanerVars>>

ReaderStep(r) ==
    \/ ReaderVersion(r) \/ ReaderLeave(r) \/ ReaderDownload(r) \/ ReaderFetched(r)
    \/ ReaderBreaksOff(r) \/ ReaderRelabel(r)

-----------------------------------------------------------------------------
(* Cleaning the cache: CleanupCache (CacheWorker, POST /v1/cache/clean).    *)

(* Seeded fault: the SELECT has no condition on sync_state.                 *)
CleanableUnsynced(f) == Live(f) /\ Evictable(f)
Cleanable(f) == Live(f) /\ Evictable(f) /\ row[f].state = "telegram_synced"

(* The rows the SELECT returns that the predicates accept: all of them, or  *)
(* as many, oldest first, as "smart" needs to come down to its budget.  The *)
(* call works on this snapshot and never reads a row again.                 *)
CleanerBegin(c) ==
    LET snapshot == {f \in Files : Cleanable(f)}
    IN  /\ cpc[c] = "idle" /\ policy # "mirror"
        /\ \E chosen \in SUBSET snapshot :
              /\ chosen # {} /\ (policy = "cloud_only" => chosen = snapshot)
              /\ cqueue' = [cqueue EXCEPT ![c] = chosen]
        /\ cpc' = [cpc EXCEPT ![c] = "loop"]
        /\ UNCHANGED <<dbVars, diskVars, agentVars, callVars, passVars, readerVars, citem, policy>>

(* evictCacheItem; an item that cannot be removed is passed over.           *)
CleanerRemove(c) ==
    /\ cpc[c] = "loop"
    /\ \E f \in cqueue[c] :
          /\ cqueue' = [cqueue EXCEPT ![c] = @ \ {f}]
          /\ \/ /\ cache' = [cache EXCEPT ![f] = "absent"]
                /\ citem' = [citem EXCEPT ![c] = f]
                /\ cpc' = [cpc EXCEPT ![c] = "clear"]
             \/ "store_fails" \in Events /\ UNCHANGED <<cache, citem, cpc>>
    /\ UNCHANGED <<dbVars, source, agentVars, callVars, passVars, readerVars, policy>>

CleanerClear(c) ==
    /\ cpc[c] = "clear"
    /\ \/ ForgetPath(citem[c])
       \/ "store_fails" \in Events /\ UNCHANGED row
    /\ cpc' = [cpc EXCEPT ![c] = "loop"]
    /\ citem' = [citem EXCEPT ![c] = None]
    /\ UNCHANGED <<versions, latest, transfer, diskVars, agentVars, callVars, passVars,
                   readerVars, cqueue, policy>>

CleanerEnd(c) ==
    /\ cpc[c] = "loop" /\ cqueue[c] = {}
    /\ cpc' = [cpc EXCEPT ![c] = "idle"]
    /\ UNCHANGED <<dbVars, diskVars, agentVars, callVars, passVars, readerVars, cqueue, citem,
                   policy>>

CleanerStep(c) == CleanerRemove(c) \/ CleanerClear(c) \/ CleanerEnd(c)

(* The policy is set while the agent runs.                                  *)
SetCachePolicy(mode) ==
    /\ policy' = mode
    /\ UNCHANGED <<dbVars, diskVars, agentVars, callVars, passVars, readerVars, cpc, cqueue, citem>>

(* The tray's entries "pause" and "resume".  A pass that runs goes on.       *)
TogglePause ==
    /\ "pause" \in Events /\ paused' = ~paused
    /\ UNCHANGED <<dbVars, diskVars, retry, client, callVars, passVars, readerVars, cleanerVars>>

(* cleanupOldTransfers drops completed transfers after a day.               *)
TransferExpires(f) ==
    /\ transfer[f] = "completed"
    /\ transfer' = [transfer EXCEPT ![f] = "none"]
    /\ UNCHANGED <<row, versions, latest, diskVars, agentVars, callVars, passVars, readerVars,
                   cleanerVars>>

-----------------------------------------------------------------------------
(* Trash, restore and permanent deletion.                                   *)

TrashFile(f) ==
    /\ "trash" \in Events /\ Live(f)
    /\ row' = [row EXCEPT ![f].status = "trashed"]
    /\ UNCHANGED <<versions, latest, transfer, diskVars, agentVars, callVars, passVars,
                   readerVars, cleanerVars>>

RestoreFile(f) ==
    /\ row[f].status = "trashed"
    /\ row' = [row EXCEPT ![f].status = "live"]
    /\ UNCHANGED <<versions, latest, transfer, diskVars, agentVars, callVars, passVars,
                   readerVars, cleanerVars>>

(* Seeded fault: the file is removed before its rows.                       *)
DeletesFileFirst(f) ==
    /\ "delete" \in Events /\ Exists(f) /\ del[f].pc = "idle"
    /\ del' = [del EXCEPT ![f] = [pc |-> "tx", path |-> row[f].path]]
    /\ cache' = IF row[f].path = "cache" THEN [cache EXCEPT ![f] = "absent"] ELSE cache
    /\ UNCHANGED <<dbVars, source, agentVars, save, passVars, readerVars, cleanerVars>>

(* PermanentDeleteFile reads local_path, removes every row of the file in   *)
(* one transaction, then removes the file it read the path of.              *)
DeleteBegin(f) ==
    /\ "delete" \in Events /\ Exists(f) /\ del[f].pc = "idle"
    /\ del' = [del EXCEPT ![f] = [pc |-> "tx", path |-> row[f].path]]
    /\ UNCHANGED <<dbVars, diskVars, agentVars, save, passVars, readerVars, cleanerVars>>

DeleteRows(f) ==
    /\ del[f].pc = "tx"
    /\ row' = [row EXCEPT ![f] = [NoRow EXCEPT !.status = "deleted"]]
    /\ versions' = [versions EXCEPT ![f] = {}]
    /\ latest' = [latest EXCEPT ![f] = "none"]
    /\ transfer' = [transfer EXCEPT ![f] = "none"]
    /\ del' = [del EXCEPT ![f].pc = "unlink"]
    /\ UNCHANGED <<diskVars, agentVars, save, passVars, readerVars, cleanerVars>>

(* Seeded fault: no transaction, the versions are gone when the rest fails. *)
DeletesHalf(f) ==
    /\ del[f].pc = "tx" /\ "store_fails" \in Events
    /\ versions' = [versions EXCEPT ![f] = {}]
    /\ latest' = [latest EXCEPT ![f] = "none"]
    /\ del' = [del EXCEPT ![f] = NewDel]
    /\ UNCHANGED <<row, transfer, diskVars, agentVars, save, passVars, readerVars, cleanerVars>>

DeleteFails(f) ==
    /\ del[f].pc = "tx" /\ "store_fails" \in Events
    /\ del' = [del EXCEPT ![f] = NewDel]
    /\ UNCHANGED <<dbVars, diskVars, agentVars, save, passVars, readerVars, cleanerVars>>

(* IsLocalPathServable holds of uploads/ and of folders that are still      *)
(* registered as sync roots.                                                *)
DeleteUnlink(f) ==
    /\ del[f].pc = "unlink"
    /\ \/ del[f].path # "none" /\ Write([id |-> f, path |-> del[f].path], "absent")
       \/ del[f].path # "cache" /\ UNCHANGED diskVars
    /\ del' = [del EXCEPT ![f] = NewDel]
    /\ UNCHANGED <<dbVars, agentVars, save, passVars, readerVars, cleanerVars>>

DeleteStep(f) == DeleteRows(f) \/ DeleteFails(f) \/ DeleteUnlink(f)

-----------------------------------------------------------------------------
(* The environment.                                                         *)

(* The user removes a file from the synced folder.                          *)
RemoveSource(f) ==
    /\ "remove_source" \in Events /\ source[f] # "absent"
    /\ source' = [source EXCEPT ![f] = "absent"]
    /\ UNCHANGED <<dbVars, cache, agentVars, callVars, passVars, readerVars, cleanerVars>>

(* The agent stops and starts again: database and disk stay, the memory of  *)
(* every call, the retry table and the client's mutex do not.  Nothing at   *)
(* start looks at sync_state; the policy is that of the configuration.      *)
Crash ==
    /\ "crash" \in Events
    /\ retry' = [f \in Files |-> "none"] /\ client' = None /\ paused' = FALSE
    /\ save' = [f \in Files |->
                  IF save[f].pc \in {"writing", "lookup", "insert"}
                  THEN [save[f] EXCEPT !.pc = "aborted"] ELSE save[f]]
    /\ del' = [f \in Files |-> NewDel]
    /\ pc' = [p \in Passes |-> "idle"] /\ queue' = [p \in Passes |-> {}]
    /\ item' = [p \in Passes |-> None] /\ ctx' = [p \in Passes |-> "live"]
    /\ rpc' = [r \in Readers |-> "idle"] /\ ritem' = [r \in Readers |-> None]
    /\ cpc' = [c \in Cleaners |-> "idle"] /\ cqueue' = [c \in Cleaners |-> {}]
    /\ citem' = [c \in Cleaners |-> None] /\ policy' \in Policies
    /\ UNCHANGED <<dbVars, diskVars, payload, rget>>

FileStep(f) ==
    \/ SaveStep(f) \/ DeleteStep(f) \/ DeleteBegin(f)
    \/ TrashFile(f) \/ RestoreFile(f) \/ RetryWindowElapses(f) \/ TransferExpires(f)
    \/ RemoveSource(f)

Next ==
    \/ \E f \in Files : FileStep(f)
    \/ \E p \in Passes : PassBegin(p) \/ PassStep(p) \/ Disconnect(p)
    \/ \E r \in Readers : (\E f \in Files : ReaderOpen(r, f)) \/ ReaderStep(r)
    \/ \E c \in Cleaners : CleanerBegin(c) \/ CleanerStep(c)
    \/ \E mode \in Policies : SetCachePolicy(mode)
    \/ TogglePause
    \/ Crash

Spec == Init /\ [][Next]_vars

(* The Go scheduler runs every started goroutine on, the sync ticker starts *)
(* a pass every two seconds unless the tray pauses it (nobody must resume), *)
(* the retry window's clock runs, and a                                     *)
(* sync.Mutex is handed to whoever has waited a millisecond: an upload that *)
(* waits for clientMu gets it although downloads keep coming.               *)
Fairness ==
    /\ \A p \in Passes : /\ WF_vars(PassStep(p)) /\ WF_vars(PassBegin(p))
                          /\ SF_vars(PassUpload(p) \/ PassUploadFails(p))
    /\ \A f \in Files : WF_vars(RetryWindowElapses(f)) /\ WF_vars(SaveStep(f))
                         /\ WF_vars(DeleteStep(f))
    /\ \A r \in Readers : WF_vars(ReaderStep(r))
    /\ \A c \in Cleaners : WF_vars(CleanerStep(c))

FairSpec == Spec /\ Fairness

(* Moreover Telegram takes an upload that is tried again and again.         *)
TelegramSpec == FairSpec /\ \A p \in Passes : SF_vars(PassUpload(p))

-----------------------------------------------------------------------------
(* Safety.                                                                  *)

(* Docs/TROUBLESHOOTING.md promises that shrinking the cache loses no file. *)
(* Whatever passes, downloads, cleaners, crashes and failures interleave,   *)
(* the bytes of an uploaded file are whole in uploads/ or whole in a        *)
(* recorded Telegram message as long as its row exists.                     *)
BytesSomewhere ==
    \A f \in Files :
        Exists(f) /\ ~Empty(f) /\ save[f].how = "upload"
            => cache[f] = "whole" \/ "whole" \in versions[f]

(* The label telegram_synced is true: the file can be fetched back whole    *)
(* from some recorded message.  Passes write the label and the version in   *)
(* different statements of racing calls; the cleaners trust it.             *)
SyncedHasVersion ==
    \A f \in Files :
        Exists(f) /\ row[f].state = "telegram_synced" => "whole" \in versions[f]

(* A transfer shown as completed has a recorded message behind it.          *)
CompletedHasVersion ==
    \A f \in Files : transfer[f] = "completed" => versions[f] # {}

(* The newest version, the only one downloads ever read, holds all bytes.   *)
LatestIsWhole == \A f \in Files : latest[f] # "torn"

(* The file's content is whole on disk or on Telegram.                      *)
HasBytes(f) == cache[f] = "whole" \/ source[f] = "whole" \/ "whole" \in versions[f]

(* The file lies in the user's folder only, and the user has removed it.    *)
TakenAway(f) == save[f].how = "import" /\ source[f] = "absent" /\ versions[f] = {}

(* An upload that is answered with an existing row has its own bytes        *)
(* removed.  As long as that row exists its content is kept, unless the row *)
(* was imported, is not yet on Telegram and the user removes the file it    *)
(* was imported from, before or after the upload: findFileByHash does not   *)
(* look at sync_state.  No eviction, restore, failure or stop loses it.     *)
DuplicateKeepsBytes ==
    \A f \in Files :
        save[f].pc = "duplicate" /\ save[f].how = "upload" /\ Exists(save[f].dup)
            => HasBytes(save[f].dup) \/ TakenAway(save[f].dup)

(* docs/UI_GOOGLE_DRIVE_PLAN.md: "không mất file", no file is lost.  Then   *)
(* the content of an upload is kept while the row it is answered with       *)
(* exists, whatever the user does with another file elsewhere.              *)
UploadedContentStays ==
    \A f \in Files :
        save[f].pc = "duplicate" /\ save[f].how = "upload" /\ Exists(save[f].dup)
            => HasBytes(save[f].dup)

-----------------------------------------------------------------------------
(* Why the bytes survive: the inductive invariant.                          *)

(* Evicting f, truncating it for a restore or recording a torn message for  *)
(* it is harmless: its row is gone or a whole version is recorded.          *)
Backed(f) == row[f].status = "deleted" \/ "whole" \in versions[f]

(* The database: versions start with a whole one, labels tell the truth.    *)
RowInv ==
    \A f \in Files :
        /\ row[f].status = "absent" => versions[f] = {}
        /\ ~Exists(f) => transfer[f] = "none"
        /\ versions[f] # {} => Backed(f)
        /\ latest[f] # "none" => versions[f] # {}
        /\ Exists(f) /\ row[f].state = "telegram_synced" => "whole" \in versions[f]
        /\ transfer[f] = "completed" => versions[f] # {}

(* The disk: a partial file is one that a restore is writing or has left.   *)
DiskInv ==
    \A f \in Files :
        /\ cache[f] = "partial" /\ row[f].status # "absent" => Backed(f)
        /\ source[f] = "partial" => Backed(f)
        /\ Exists(f) /\ ~Empty(f) /\ save[f].how = "upload"
              => cache[f] = "whole" \/ "whole" \in versions[f]

(* The calls on one file: a row exists from the commit of its save on.      *)
CallInv ==
    \A f \in Files :
        /\ save[f].pc = "stored" <=> row[f].status # "absent"
        /\ save[f].pc = "idle" => cache[f] = "absent"
        /\ save[f].pc \in {"idle", "writing"} => save[f].how = "upload"
        /\ save[f].pc \in {"lookup", "insert"}
              => cache[f] = IF save[f].how = "upload" THEN "whole" ELSE "absent"
        /\ del[f].pc = "tx" => Exists(f)
        /\ del[f].pc = "unlink" => row[f].status = "deleted"

(* Passes, readers and cleaners work on rows that were there, and reach the *)
(* steps that take bytes away only for backed ones.                         *)
PassInv ==
    \A p \in Passes :
        /\ \A i \in queue[p] : row[i.id].status # "absent"
        /\ pc[p] \notin {"idle", "next"} => row[item[p].id].status # "absent"
        /\ pc[p] \in {"report", "record"} /\ payload[p] = "torn" => Backed(item[p].id)
        /\ pc[p] \in {"done", "evict", "evict_remove"} => Backed(item[p].id)

ReaderInv ==
    \A r \in Readers :
        /\ rpc[r] # "idle" => row[ritem[r].id].status # "absent"
        /\ rpc[r] \in {"download", "fetching"} => Backed(ritem[r].id)

CleanerInv ==
    \A c \in Cleaners :
        \A f \in cqueue[c] : row[f].status # "absent" /\ Backed(f)

(* What every step preserves; it implies BytesSomewhere, SyncedHasVersion   *)
(* and CompletedHasVersion.                                                 *)
Durability == RowInv /\ DiskInv /\ CallInv /\ PassInv /\ ReaderInv /\ CleanerInv

-----------------------------------------------------------------------------
(* What a step may never do.                                                *)

(* Only the user, or the permanent deletion of the row, takes a file out of *)
(* the user's own folder: no eviction does.                                 *)
SparesSource ==
    [][\A f \in Files : source[f] # "absent" /\ source'[f] = "absent"
                         => RemoveSource(f) \/ DeleteUnlink(f)]_vars

(* The comment of safeRestorePath: a restore never writes over the user's   *)
(* folder.                                                                  *)
NeverRestoresOverSource ==
    [][\A f \in Files : source'[f] \in {source[f], "absent"}]_vars

(* A file that is on Telegram stays telegram_synced while its row exists.   *)
SyncedIsStable ==
    [][\A f \in Files : Exists(f) /\ row[f].state = "telegram_synced" /\ Exists(f)'
                         => row'[f].state = "telegram_synced"]_vars

(* Only files marked telegram_synced at that moment lose their cached copy  *)
(* to the cache policy.                                                     *)
EvictsOnlySynced ==
    [][\A f \in Files : Exists(f) /\ cache[f] # "absent" /\ cache'[f] = "absent"
                         => row[f].state = "telegram_synced"]_vars

-----------------------------------------------------------------------------
(* What must eventually happen.                                             *)

(* No row is left in telegram_uploading: the pass that set it there settles *)
(* it, whether Telegram takes the file, refuses it or the file is gone, as  *)
(* long as the agent runs and the pass can write to the database.  A stop   *)
(* (stuck_uploading), a request that is cancelled and a statement that      *)
(* fails each leave the row there for good.                                 *)
UploadingSettles ==
    \A f \in Files : (Live(f) /\ row[f].state = "telegram_uploading")
                         ~> ~(Live(f) /\ row[f].state = "telegram_uploading")

(* A queued file is uploaded, found missing, or taken away by the user; a   *)
(* pause only puts it off.                                                  *)
PendingResolves ==
    \A f \in Files :
        (Live(f) /\ row[f].state = "pending_telegram_upload")
            ~> \/ ~Live(f) \/ row[f].state \in {"telegram_synced", "local_missing"}
               \/ paused

(* A sync pass returns.                                                     *)
PassReturns == \A p \in Passes : pc[p] # "idle" ~> pc[p] = "idle"

-----------------------------------------------------------------------------
(* The abstract specification this one implements, for uploaded files.      *)

Uploaded(f) == ~Empty(f) /\ save[f].how = "upload"

KeptStatus ==
    [f \in Files |->
        IF Uploaded(f) /\ Exists(f) THEN "kept"
        ELSE IF Uploaded(f) /\ row[f].status = "deleted" THEN "gone" ELSE "new"]

KeptCopies ==
    [f \in Files |->
        IF Uploaded(f) /\ Exists(f)
        THEN {w \in {"local", "cloud"} :
                 \/ w = "local" /\ cache[f] = "whole"
                 \/ w = "cloud" /\ "whole" \in versions[f]}
        ELSE {}]

Durable == INSTANCE DurableBytes WITH status <- KeptStatus, copies <- KeptCopies

(* Every behaviour of the agent is one the promise allows: no step takes    *)
(* the last whole copy of an uploaded file away, none makes a copy from     *)
(* nothing.                                                                 *)
ImplementsDurableBytes == Durable!Spec
=============================================================================

---------------------------- MODULE SyncFolders ----------------------------
(***************************************************************************)
(* A folder of the user's computer kept in sync (internal/drive/sync.go):  *)
(* the row of sync_roots, SyncRootWatcher's tick, the watcher goroutines   *)
(* with their fsnotify queue and debounce table, ScanSyncRoot, and         *)
(* importLocalFile with the part of importSyncSourceFile that decides      *)
(* which file row a path stands for.  The tables sync_entries and files    *)
(* hold what was imported; the user edits the disk at any moment.          *)
(*                                                                         *)
(* Roots do not touch each other, so the module has one.  Time counts the  *)
(* seconds that updated_at and local_mtime are made of; two ticks of       *)
(* SyncRootWatcher, three seconds apart, never fall into one second.       *)
(***************************************************************************)
EXTENDS Integers, Sequences

CONSTANTS
    Paths,      \* paths inside the synced folder
    Contents,   \* what a file can hold
    NumWatchers,   \* goroutines running watchSingleRoot that the model starts
    MaxTime, MaxActs, MaxRows   \* bounds of the model

ASSUME SyncAssumption ==
    /\ NumWatchers \in Nat
    /\ MaxTime \in Nat /\ MaxActs \in Nat /\ MaxRows \in Nat

Watchers == 1..NumWatchers   \* in the order of their start
Scan == 0                    \* the request running ScanSyncRoot

VARIABLES
    time,
    acts,       \* what the user has done: edits, settings, scans
    disk,       \* path -> what lies there and its mtime, or Absent
    enabled,    \* sync_roots.enabled: 1, 0 (paused), -1 (removed)
    updatedAt,  \* sync_roots.updated_at
    lastTick,   \* second of SyncRootWatcher's last tick
    entry,      \* syncWatchers[root]: the watcher registered, or 0
    watch,      \* the goroutines
    scanning,   \* ScanSyncRoot is running
    scan,       \* and has these paths still to import
    import,     \* importLocalFile in progress, per goroutine
    entries,    \* sync_entries, oldest first
    files,      \* rows of files: content and whether deleted_at is NULL
    noticed,    \* history: paths whose last edit a registered watcher saw
    retouched   \* history: paths edited without a change of their mtime

rootVars == <<enabled, updatedAt>>
scanVars == <<scanning, scan>>
tableVars == <<entries, files>>
syncVars == <<time, acts, disk, enabled, updatedAt, lastTick, entry, watch, scanning, scan,
              import, entries, files, noticed, retouched>>

Absent == [content |-> "none", mtime |-> -1]
NoImport == [pc |-> "none", path |-> "none", mtime |-> 0, row |-> 0]
NoWatch == [pc |-> "none", on |-> FALSE, stamp |-> 0, queue |-> <<>>, pending |-> [p \in Paths |-> -1]]
Event == [path : Paths, op : {"write", "remove"}]
Times == 0..MaxTime

SyncTypeOK ==
    /\ time \in Times /\ acts \in 0..MaxActs
    /\ disk \in [Paths -> [content : Contents, mtime : Times] \cup {Absent}]
    /\ enabled \in {1, 0, -1} /\ updatedAt \in Times /\ lastTick \in -1..MaxTime
    /\ entry \in Watchers \cup {0}
    /\ watch \in [Watchers -> [pc : {"none", "starting", "running", "done"}, on : BOOLEAN,
                               stamp : Times, queue : Seq(Event), pending : [Paths -> -1..MaxTime]]]
    /\ scanning \in BOOLEAN /\ scan \in SUBSET Paths
    /\ import \in [Watchers \cup {Scan} -> [pc : {"none", "save", "record"},
                       path : Paths \cup {"none"}, mtime : Times, row : 0..MaxRows]]
    /\ entries \in Seq([path : Paths, row : 1..MaxRows, mtime : Times])
    /\ files \in Seq([content : Contents, live : BOOLEAN])
    /\ noticed \in SUBSET Paths /\ retouched \in SUBSET Paths

SyncInit ==
    /\ time = 0 /\ acts = 0
    /\ disk \in [Paths -> {[content |-> c, mtime |-> 0] : c \in Contents} \cup {Absent}]
    /\ enabled = 1 /\ updatedAt = 0 /\ lastTick = -1
    /\ entry = 0 /\ watch = [g \in Watchers |-> NoWatch]
    /\ scanning = FALSE /\ scan = {} /\ import = [g \in Watchers \cup {Scan} |-> NoImport]
    /\ entries = <<>> /\ files = <<>>
    /\ noticed = {} /\ retouched = {}

(***************************************************************************)
(* The user's edits.  fsnotify queues an event for every watcher that has  *)
(* added the directory.                                                    *)
(***************************************************************************)
Listening(g) == watch[g].pc = "running"
Queued(events) ==
    [g \in Watchers |-> IF Listening(g) THEN [watch[g] EXCEPT !.queue = @ \o events] ELSE watch[g]]
SeenBy(p, gone) ==
    LET seen == entry # 0 /\ watch[entry].on /\ Listening(entry)
    IN IF seen THEN (noticed \cup p) \ gone ELSE noticed \ (p \cup gone)

Act == acts < MaxActs /\ acts' = acts + 1

UserEdits(newDisk, events, changed, gone) ==
    /\ Act
    /\ disk' = newDisk
    /\ watch' = Queued(events)
    /\ noticed' = SeenBy(changed, gone)
    /\ UNCHANGED <<time, rootVars, lastTick, entry, scanVars, import, tableVars>>

HasEntry(p, m) == \E i \in DOMAIN entries : entries[i].path = p /\ entries[i].mtime = m
\* Some import of p may already have taken the mtime m for p's.
MtimeUsed(p, m) ==
    \/ disk[p].mtime = m \/ HasEntry(p, m)
    \/ \E g \in Watchers \cup {Scan} : import[g].path = p /\ import[g].mtime = m

WriteLocal(p, c) ==
    /\ UserEdits([disk EXCEPT ![p] = [content |-> c, mtime |-> time]],
            <<[path |-> p, op |-> "write"]>>, {p}, {})
    /\ retouched' = IF MtimeUsed(p, time) THEN retouched \cup {p} ELSE retouched \ {p}

RemoveLocal(p) ==
    /\ disk[p] # Absent
    /\ UserEdits([disk EXCEPT ![p] = Absent], <<[path |-> p, op |-> "remove"]>>, {}, {p})
    /\ UNCHANGED retouched

\* A rename keeps the mtime.
RenameLocal(p, q) ==
    /\ disk[p] # Absent /\ disk[q] = Absent /\ p # q
    /\ UserEdits([disk EXCEPT ![p] = Absent, ![q] = disk[p]],
            <<[path |-> p, op |-> "remove"], [path |-> q, op |-> "write"]>>, {q}, {p})
    /\ retouched' = IF MtimeUsed(q, disk[p].mtime) THEN retouched \cup {q} ELSE retouched \ {q}

Elapse ==
    /\ time < MaxTime /\ time' = time + 1
    /\ UNCHANGED <<acts, disk, rootVars, lastTick, entry, watch, scanVars, import, tableVars,
                   noticed, retouched>>

(***************************************************************************)
(* sync_roots and SyncRootWatcher.                                         *)
(***************************************************************************)
UpdateSyncRoot(on) ==
    /\ Act /\ enabled # -1
    /\ enabled' = on /\ updatedAt' = time
    /\ UNCHANGED <<time, disk, lastTick, entry, watch, scanVars, import, tableVars,
                   noticed, retouched>>

DeleteSyncRoot ==
    /\ Act /\ enabled # -1
    /\ enabled' = -1 /\ updatedAt' = time
    /\ UNCHANGED <<time, disk, lastTick, entry, watch, scanVars, import, tableVars,
                   noticed, retouched>>

Cancelled == IF entry = 0 THEN watch ELSE [watch EXCEPT ![entry].on = FALSE]

\* cancelSyncWatcher of a root that is paused, or not listed any more.
TickCancel ==
    /\ lastTick < time /\ lastTick' = time
    /\ enabled # 1
    /\ watch' = Cancelled /\ entry' = 0
    /\ noticed' = IF entry = 0 THEN noticed ELSE {}
    /\ UNCHANGED <<time, acts, disk, rootVars, scanVars, import, tableVars, retouched>>

\* startSyncWatcher: the watcher registered serves on as long as the row has
\* not changed since it started; otherwise it is cancelled and replaced.
TickStart ==
    /\ lastTick < time /\ lastTick' = time
    /\ enabled = 1
    /\ IF entry # 0 /\ watch[entry].stamp = updatedAt
       THEN UNCHANGED <<entry, watch, noticed>>
       ELSE \E g \in Watchers :
                /\ watch[g].pc = "none" /\ \A h \in 1..(g - 1) : watch[h].pc # "none"
                /\ watch' = [Cancelled EXCEPT
                       ![g] = [NoWatch EXCEPT !.pc = "starting", !.on = TRUE, !.stamp = updatedAt]]
                /\ entry' = g
                /\ noticed' = {}
    /\ UNCHANGED <<time, acts, disk, rootVars, scanVars, import, tableVars, retouched>>

(***************************************************************************)
(* watchSingleRoot.                                                        *)
(***************************************************************************)
Steps(g, record) ==
    /\ watch' = [watch EXCEPT ![g] = record]
    /\ UNCHANGED <<time, acts, disk, rootVars, lastTick, entry, scanVars, retouched>>

\* watcher.Add of the directories; edits made before it go unseen.
Arm(g) ==
    /\ watch[g].pc = "starting"
    /\ Steps(g, [watch[g] EXCEPT !.pc = "running"])
    /\ UNCHANGED <<import, tableVars, noticed>>

\* The context is done: the goroutine leaves between two turns, and takes the
\* map's entry along if it carries the stamp it started with.
Leave(g) ==
    /\ watch[g].pc = "running" /\ ~watch[g].on /\ import[g].pc = "none"
    /\ watch' = [watch EXCEPT ![g] = [NoWatch EXCEPT !.pc = "done"]]
    /\ entry' = IF entry # 0 /\ watch[entry].stamp = watch[g].stamp THEN 0 ELSE entry
    /\ UNCHANGED <<time, acts, disk, rootVars, lastTick, scanVars, import, tableVars,
                   noticed, retouched>>

FirstEntry(p) ==
    LET mine == {i \in DOMAIN entries : entries[i].path = p}
    IN IF mine = {} THEN 0 ELSE CHOOSE i \in mine : \A j \in mine : i <= j

\* handleSyncRemoval: it looks at the oldest entry of the path.
Trashed(p) ==
    IF FirstEntry(p) = 0 THEN files ELSE [files EXCEPT ![entries[FirstEntry(p)].row].live = FALSE]

TakeEvent(g) ==
    LET e == Head(watch[g].queue)
        rest == [watch[g] EXCEPT !.queue = Tail(@)]
    IN /\ watch[g].pc = "running" /\ import[g].pc = "none" /\ watch[g].queue # <<>>
       /\ Steps(g, IF e.op = "remove" \/ disk[e.path] # Absent
                   THEN [rest EXCEPT !.pending[e.path] =
                            IF e.op = "remove" THEN -1 ELSE disk[e.path].mtime]
                   ELSE rest)
       /\ files' = IF e.op = "remove" THEN Trashed(e.path) ELSE files
       /\ UNCHANGED <<import, entries, noticed>>

\* One path of a debounce turn: a file that kept still since the last look is
\* imported, one that changed is looked at again, one that is gone forgotten.
Debounce(g, p) ==
    LET seen == watch[g].pending[p] IN
    /\ watch[g].pc = "running" /\ import[g].pc = "none" /\ seen # -1
    /\ Steps(g, [watch[g] EXCEPT !.pending[p] =
                    IF disk[p] # Absent /\ disk[p].mtime # seen THEN disk[p].mtime ELSE -1])
    /\ import' = IF disk[p] # Absent /\ disk[p].mtime = seen
                 THEN [import EXCEPT ![g] =
                         [NoImport EXCEPT !.pc = "save", !.path = p, !.mtime = seen]]
                 ELSE import
    /\ UNCHANGED <<tableVars, noticed>>

(***************************************************************************)
(* ScanSyncRoot: it touches updated_at before and after its walk.          *)
(***************************************************************************)
BeginScan ==
    /\ Act /\ ~scanning /\ enabled = 1 /\ scanning' = TRUE
    /\ scan' = {p \in Paths : disk[p] # Absent}
    /\ updatedAt' = time
    /\ UNCHANGED <<time, disk, enabled, lastTick, entry, watch, import, tableVars,
                   noticed, retouched>>

\* The next name of the listing: a file that is gone ends the scan as "error",
\* whatever is still to come.
ScanFile(p) ==
    /\ scanning /\ import[Scan].pc = "none" /\ p \in scan
    /\ \/ /\ disk[p] # Absent
          /\ import' = [import EXCEPT ![Scan] =
                          [NoImport EXCEPT !.pc = "save", !.path = p, !.mtime = disk[p].mtime]]
          /\ scan' = scan \ {p} /\ UNCHANGED <<scanning, updatedAt>>
       \/ /\ disk[p] = Absent
          /\ scanning' = FALSE /\ scan' = {} /\ updatedAt' = time /\ UNCHANGED import
    /\ UNCHANGED <<time, acts, disk, enabled, lastTick, entry, watch, tableVars, noticed, retouched>>

EndScan ==
    /\ scanning /\ scan = {} /\ import[Scan].pc = "none"
    /\ scanning' = FALSE /\ updatedAt' = time
    /\ UNCHANGED <<time, acts, disk, enabled, lastTick, entry, watch, scan, import, tableVars,
                   noticed, retouched>>

(***************************************************************************)
(* importLocalFile.                                                        *)
(***************************************************************************)
ImportStep(g, fields) ==
    /\ import' = [import EXCEPT ![g] = fields]
    /\ UNCHANGED <<time, acts, disk, rootVars, lastTick, entry, watch, scanVars, retouched>>

\* importLocalFile asks the oldest entry of the path only.
AlreadyImported(p, m) == FirstEntry(p) # 0 /\ entries[FirstEntry(p)].mtime = m

\* The file has the mtime it was imported with: nothing to do.
SkipUnchanged(g) ==
    LET job == import[g] IN
    /\ job.pc = "save" /\ AlreadyImported(job.path, job.mtime)
    /\ ImportStep(g, NoImport) /\ UNCHANGED <<tableVars, noticed>>

\* importSyncSourceFile hashes what lies there now; a live row of that
\* content stands for the path, or a new one is made.
Save(g) ==
    LET job == import[g]
        c == disk[job.path].content
        same == {i \in DOMAIN files : files[i].live /\ files[i].content = c}
    IN /\ job.pc = "save" /\ disk[job.path] # Absent
       /\ ~AlreadyImported(job.path, job.mtime)
       /\ \/ /\ \E i \in same : ImportStep(g, [job EXCEPT !.pc = "record", !.row = i])
             /\ UNCHANGED files
          \/ /\ same = {} /\ Len(files) < MaxRows
             /\ files' = Append(files, [content |-> c, live |-> TRUE])
             /\ ImportStep(g, [job EXCEPT !.pc = "record", !.row = Len(files) + 1])
       /\ UNCHANGED <<entries, noticed>>

\* Seeded fault: the entry is stamped with the file's mtime of now.
RecordLateMtime(g) ==
    LET job == import[g] IN
    /\ job.pc = "record"
    /\ entries' = Append(entries, [path |-> job.path, row |-> job.row,
                     mtime |-> IF disk[job.path] = Absent THEN job.mtime ELSE disk[job.path].mtime])
    /\ ImportStep(g, NoImport) /\ UNCHANGED <<files, noticed>>

\* Seeded fault: the entry is stamped with the time of the import.
RecordClock(g) ==
    LET job == import[g] IN
    /\ job.pc = "record"
    /\ entries' = Append(entries, [path |-> job.path, row |-> job.row, mtime |-> time])
    /\ ImportStep(g, NoImport) /\ UNCHANGED <<files, noticed>>

\* INSERT OR REPLACE with an id drawn anew: it never replaces, the entries of
\* a path add up.  The mtime is the one read before the file was hashed.
Record(g) ==
    LET job == import[g] IN
    /\ job.pc = "record"
    /\ entries' = Append(entries, [path |-> job.path, row |-> job.row, mtime |-> job.mtime])
    /\ ImportStep(g, NoImport) /\ UNCHANGED <<files, noticed>>

\* The file is gone, the context cancelled or the database in the way.  A
\* watcher forgets the path, a scan ends as "error" (which touches the row).
ImportFails(g) ==
    /\ import[g].pc # "none"
    /\ import' = [import EXCEPT ![g] = NoImport]
    /\ scanning' = (scanning /\ g # Scan)
    /\ scan' = IF g = Scan THEN {} ELSE scan
    /\ updatedAt' = IF g = Scan THEN time ELSE updatedAt
    /\ noticed' = noticed \ {import[g].path}
    /\ UNCHANGED <<time, acts, disk, enabled, lastTick, entry, watch, tableVars, retouched>>

SyncNext ==
    \/ \E p \in Paths, c \in Contents : WriteLocal(p, c)
    \/ \E p \in Paths : RemoveLocal(p)
    \/ \E p, q \in Paths : RenameLocal(p, q)
    \/ Elapse
    \/ \E on \in {0, 1} : UpdateSyncRoot(on)
    \/ DeleteSyncRoot \/ TickCancel \/ TickStart
    \/ \E g \in Watchers : Arm(g) \/ Leave(g) \/ TakeEvent(g) \/ \E p \in Paths : Debounce(g, p)
    \/ BeginScan \/ (\E p \in Paths : ScanFile(p)) \/ EndScan
    \/ \E g \in Watchers \cup {Scan} : SkipUnchanged(g) \/ Save(g) \/ Record(g) \/ ImportFails(g)

SyncSpec == SyncInit /\ [][SyncNext]_syncVars

(***************************************************************************)
(* Properties.                                                             *)
(***************************************************************************)

\* A change the registered watcher was told of is never lost between its
\* queue, its debounce table and the import: either it is still on its way or
\* an entry carries the mtime the file has.
NoticedChangesArrive ==
    \A p \in noticed :
        \/ HasEntry(p, disk[p].mtime)
        \/ \E g \in Watchers :
              /\ g = entry
              /\ \/ \E i \in DOMAIN watch[g].queue : watch[g].queue[i].path = p
                 \/ watch[g].pending[p] # -1
                 \/ import[g].path = p /\ import[g].mtime = disk[p].mtime

\* An entry with the file's mtime stands for the file's content, except for
\* files that were changed and kept their mtime (within one second, or by a
\* rename): the mtime is read before the content, never after.
EntriesTellTheContent ==
    \A i \in DOMAIN entries :
        LET p == entries[i].path IN
        disk[p] # Absent /\ entries[i].mtime = disk[p].mtime /\ p \notin retouched
            => files[entries[i].row].content = disk[p].content

=============================================================================

------------------------- MODULE SyncFoldersProofs -------------------------
(***************************************************************************)
(* What SyncFolders guarantees for any folder, any number of watchers and  *)
(* any bounds.                                                             *)
(*                                                                         *)
(* Two arguments.  An import reads the mtime before the content, so what   *)
(* it is about to record is true of the file or the file has changed since *)
(* and shows it by its mtime.  And a watcher that leaves never takes the   *)
(* map's entry of another one along, although it compares nothing but      *)
(* seconds: a watcher is only ever replaced at a later second than the     *)
(* stamp it carries, so the stamps of the watchers rise.  The entry then   *)
(* names a goroutine that works until the next tick finds it out of date,  *)
(* and what that one was told is in its queue, its table or its import.    *)
(***************************************************************************)
EXTENDS SyncFolders, SequenceTheorems, WellFoundedInduction, TLAPS

-----------------------------------------------------------------------------
(* What the entries say.                                                    *)

Goroutines == Watchers \cup {Scan}

\* The file has not changed since m was read, as far as its mtime tells.
Current(p, m) == disk[p] # Absent /\ disk[p].mtime = m /\ p \notin retouched

RowsInv ==
    /\ Len(files) <= MaxRows
    /\ \A i \in DOMAIN entries : entries[i].row \in 1..Len(files)
    /\ \A g \in Goroutines :
           /\ import[g].pc # "none" => import[g].path \in Paths
           /\ import[g].pc = "record" => import[g].row \in 1..Len(files)

ContentInv ==
    \A g \in Goroutines :
        import[g].pc = "record" /\ Current(import[g].path, import[g].mtime)
            => files[import[g].row].content = disk[import[g].path].content

TellInv == SyncTypeOK /\ RowsInv /\ ContentInv /\ EntriesTellTheContent

-----------------------------------------------------------------------------
(* The watchers.                                                            *)

Alive(g) == watch[g].pc \in {"starting", "running"}

\* The stamps rise from watcher to watcher.
StampInv ==
    /\ updatedAt <= time /\ lastTick <= time
    /\ \A g \in Watchers : Alive(g) => watch[g].stamp <= updatedAt /\ watch[g].stamp <= lastTick
    /\ entry # 0 =>
           /\ Alive(entry) /\ watch[entry].on
           /\ \A g \in Watchers \ {entry} : Alive(g) => watch[g].stamp < watch[entry].stamp
    /\ entry = 0 =>
           \A g \in Watchers :
               Alive(g) => /\ watch[g].stamp < lastTick
                           /\ enabled = 1 => watch[g].stamp < updatedAt

NoRemoval(queue, i, p) ==
    \A j \in (i + 1)..Len(queue) : ~(queue[j].path = p /\ queue[j].op = "remove")

\* Work that will look at p again, or has its content with the mtime m in hand.
Work(queue, pending, job, p, m) ==
    \/ job.pc # "none" /\ job.path = p /\ job.mtime = m
    \/ \E i \in 1..Len(queue) :
           queue[i] = [path |-> p, op |-> "write"] /\ NoRemoval(queue, i, p)
    \/ pending[p] # -1 /\ NoRemoval(queue, 0, p)

\* The registered watcher still has the change of p to work off.
OnItsWay(p) ==
    entry # 0 /\ Work(watch[entry].queue, watch[entry].pending, import[entry], p, disk[p].mtime)

NoticeInv == \A p \in noticed : disk[p] # Absent /\ (HasEntry(p, disk[p].mtime) \/ OnItsWay(p))

SyncInv == TellInv /\ StampInv /\ NoticeInv

-----------------------------------------------------------------------------
(* Types.                                                                   *)

WatchType == [pc : {"none", "starting", "running", "done"}, on : BOOLEAN, stamp : Times,
              queue : Seq(Event), pending : [Paths -> -1..MaxTime]]
ImportType == [pc : {"none", "save", "record"}, path : Paths \cup {"none"}, mtime : Times,
               row : 0..MaxRows]
EntryType == [path : Paths, row : 1..MaxRows, mtime : Times]
FileType == [content : Contents, live : BOOLEAN]

LEMMA TypeParts ==
    SyncTypeOK <=>
        /\ time \in Times /\ acts \in 0..MaxActs
        /\ disk \in [Paths -> [content : Contents, mtime : Times] \cup {Absent}]
        /\ enabled \in {1, 0, -1} /\ updatedAt \in Times /\ lastTick \in -1..MaxTime
        /\ entry \in Watchers \cup {0}
        /\ watch \in [Watchers -> WatchType]
        /\ scanning \in BOOLEAN /\ scan \in SUBSET Paths
        /\ import \in [Goroutines -> ImportType]
        /\ entries \in Seq(EntryType) /\ files \in Seq(FileType)
        /\ noticed \in SUBSET Paths /\ retouched \in SUBSET Paths
  BY DEF SyncTypeOK, WatchType, ImportType, EntryType, FileType, Goroutines

LEMMA Zero == 0 \in Times /\ Times \subseteq Nat /\ Watchers \subseteq Nat /\ 0 \notin Watchers
  BY SyncAssumption DEF Times, Watchers

LEMMA NoImportType == NoImport \in ImportType /\ NoImport.pc = "none"
  BY Zero, SyncAssumption DEF NoImport, ImportType

LEMMA NoWatchType == NoWatch \in WatchType /\ NoWatch.pc = "none" /\ NoWatch.queue = <<>>
<1>1. <<>> \in Seq(Event) BY EmptySeq
<1>2. [p \in Paths |-> -1] \in [Paths -> -1..MaxTime] BY SyncAssumption
<1> QED BY <1>1, <1>2, Zero DEF NoWatch, WatchType

LEMMA OneSeq ==
    ASSUME NEW S
    PROVE  /\ \A x \in S : <<x>> \in Seq(S) /\ Len(<<x>>) = 1 /\ <<x>>[1] = x
           /\ \A x, y \in S : /\ <<x, y>> \in Seq(S) /\ Len(<<x, y>>) = 2
                              /\ <<x, y>>[1] = x /\ <<x, y>>[2] = y
<1>1. ASSUME NEW x \in S PROVE <<x>> \in Seq(S) /\ Len(<<x>>) = 1 /\ <<x>>[1] = x OBVIOUS
<1>2. ASSUME NEW x \in S, NEW y \in S
      PROVE  <<x, y>> \in Seq(S) /\ Len(<<x, y>>) = 2 /\ <<x, y>>[1] = x /\ <<x, y>>[2] = y
  OBVIOUS
<1> QED BY <1>1, <1>2

LEMMA Appending ==
    ASSUME NEW S, NEW s \in Seq(S), NEW t \in Seq(S)
    PROVE  /\ s \o t \in Seq(S) /\ Len(s \o t) = Len(s) + Len(t)
           /\ Len(s) \in Nat /\ Len(t) \in Nat
           /\ \A i \in 1..Len(s) : (s \o t)[i] = s[i]
           /\ \A i \in 1..Len(t) : (s \o t)[Len(s) + i] = t[i]
  BY ConcatProperties, LenProperties

LEMMA AppendOne ==
    ASSUME NEW S, NEW s \in Seq(S), NEW x \in S
    PROVE  /\ Append(s, x) \in Seq(S) /\ Len(Append(s, x)) = Len(s) + 1 /\ Len(s) \in Nat
           /\ DOMAIN s = 1..Len(s) /\ DOMAIN Append(s, x) = 1..(Len(s) + 1)
           /\ \A i \in 1..Len(s) : Append(s, x)[i] = s[i]
           /\ Append(s, x)[Len(s) + 1] = x
<1>1. Append(s, x) \in Seq(S) /\ Len(Append(s, x)) = Len(s) + 1 BY AppendProperties
<1>2. Len(s) \in Nat /\ DOMAIN s = 1..Len(s) BY LenProperties
<1>3. DOMAIN Append(s, x) = 1..(Len(s) + 1) BY <1>1, LenProperties
<1> QED BY <1>1, <1>2, <1>3, AppendProperties

(* The queue of every watcher that listens grows.                           *)
LEMMA QueuedType ==
    ASSUME SyncTypeOK, NEW ev \in Seq(Event)
    PROVE  /\ Queued(ev) \in [Watchers -> WatchType]
           /\ \A g \in Watchers :
                  /\ Queued(ev)[g].pc = watch[g].pc /\ Queued(ev)[g].on = watch[g].on
                  /\ Queued(ev)[g].stamp = watch[g].stamp
                  /\ Queued(ev)[g].pending = watch[g].pending
                  /\ Queued(ev)[g].queue = IF Listening(g) THEN watch[g].queue \o ev
                                           ELSE watch[g].queue
<1>1. ASSUME NEW g \in Watchers
      PROVE  /\ Queued(ev)[g] \in WatchType
             /\ Queued(ev)[g].pc = watch[g].pc /\ Queued(ev)[g].on = watch[g].on
             /\ Queued(ev)[g].stamp = watch[g].stamp
             /\ Queued(ev)[g].pending = watch[g].pending
             /\ Queued(ev)[g].queue = IF Listening(g) THEN watch[g].queue \o ev
                                      ELSE watch[g].queue
  <2>1. watch[g] \in WatchType BY TypeParts
  <2>2. watch[g].queue \in Seq(Event) BY <2>1 DEF WatchType
  <2>3. watch[g].queue \o ev \in Seq(Event) BY <2>2, Appending
  <2>4. Queued(ev)[g] = IF Listening(g) THEN [watch[g] EXCEPT !.queue = watch[g].queue \o ev]
                        ELSE watch[g]
    BY DEF Queued
  <2>5. \A q \in Seq(Event) :
            LET w == [watch[g] EXCEPT !.queue = q]
            IN  /\ w \in WatchType /\ w.pc = watch[g].pc /\ w.stamp = watch[g].stamp
                /\ w.pending = watch[g].pending /\ w.queue = q
    BY <2>1 DEF WatchType
  <2>6. \A q \in Seq(Event) : [watch[g] EXCEPT !.queue = q].on = watch[g].on
    BY <2>1, Zenon DEF WatchType
  <2> QED BY <2>1, <2>3, <2>4, <2>5, <2>6
<1>2. Queued(ev) = [g \in Watchers |-> Queued(ev)[g]] BY DEF Queued
<1> QED BY <1>1, <1>2

LEMMA ActType == ASSUME SyncTypeOK, Act PROVE acts' \in 0..MaxActs
  BY SyncAssumption DEF SyncTypeOK, Act

LEMMA DiskFile ==
    ASSUME SyncTypeOK, NEW p \in Paths
    PROVE  /\ disk[p] # Absent <=> disk[p] \in [content : Contents, mtime : Times]
           /\ disk[p].mtime \in Times \/ disk[p].mtime = -1
           /\ disk[p].mtime = -1 <=> disk[p] = Absent
<1>1. disk[p] \in [content : Contents, mtime : Times] \cup {Absent} BY TypeParts
<1>2. -1 \notin Times BY Zero
<1>3. Absent.mtime = -1 BY DEF Absent
<1> QED BY <1>1, <1>2, <1>3

LEMMA UserEditsType ==
    ASSUME SyncTypeOK, NEW d \in [Paths -> [content : Contents, mtime : Times] \cup {Absent}],
           NEW ev \in Seq(Event), NEW p \in SUBSET Paths, NEW q \in SUBSET Paths,
           UserEdits(d, ev, p, q), retouched' \in SUBSET Paths
    PROVE  SyncTypeOK'
<1>1. acts' \in 0..MaxActs BY ActType DEF UserEdits
<1>2. watch' \in [Watchers -> WatchType] BY QueuedType DEF UserEdits
<1>3. noticed' \in SUBSET Paths BY DEF UserEdits, SeenBy, SyncTypeOK
<1>4. disk' = d /\ UNCHANGED <<time, rootVars, lastTick, entry, scanVars, import, tableVars>>
  BY DEF UserEdits
<1> HIDE DEF UserEdits
<1>5. UNCHANGED <<time, enabled, updatedAt, lastTick, entry, scanning, scan, import, entries, files>>
  BY <1>4 DEF rootVars, scanVars, tableVars
<1> QED BY <1>1, <1>2, <1>3, <1>4, <1>5, TypeParts DEF WatchType, ImportType, EntryType, FileType, SyncTypeOK, Goroutines

LEMMA EditsType ==
    ASSUME SyncTypeOK,
           \/ \E p \in Paths, c \in Contents : WriteLocal(p, c)
           \/ \E p \in Paths : RemoveLocal(p)
           \/ \E p, q \in Paths : RenameLocal(p, q)
    PROVE  SyncTypeOK'
<1> DEFINE D == [Paths -> [content : Contents, mtime : Times] \cup {Absent}]
<1>1. disk \in D /\ time \in Times /\ retouched \in SUBSET Paths BY TypeParts
<1>2. \A p \in Paths : [path |-> p, op |-> "write"] \in Event /\ [path |-> p, op |-> "remove"] \in Event
  BY DEF Event
<1>3. ASSUME NEW p \in Paths, NEW c \in Contents, WriteLocal(p, c) PROVE SyncTypeOK'
  <2>1. PICK d : d = [disk EXCEPT ![p] = [content |-> c, mtime |-> time]] OBVIOUS
  <2>2. d \in D BY <1>1, <2>1
  <2>3. PICK ev : ev = <<[path |-> p, op |-> "write"]>> OBVIOUS
  <2>4. ev \in Seq(Event) BY <1>2, <2>3, OneSeq
  <2>5. UserEdits(d, ev, {p}, {}) /\ retouched' \in SUBSET Paths
    BY <1>1, <1>3, <2>1, <2>3 DEF WriteLocal
  <2> QED BY <2>2, <2>4, <2>5, UserEditsType
<1>4. ASSUME NEW p \in Paths, RemoveLocal(p) PROVE SyncTypeOK'
  <2>1. PICK d : d = [disk EXCEPT ![p] = Absent] OBVIOUS
  <2>2. d \in D BY <1>1, <2>1
  <2>3. PICK ev : ev = <<[path |-> p, op |-> "remove"]>> OBVIOUS
  <2>4. ev \in Seq(Event) BY <1>2, <2>3, OneSeq
  <2>5. UserEdits(d, ev, {}, {p}) /\ retouched' \in SUBSET Paths
    BY <1>1, <1>4, <2>1, <2>3 DEF RemoveLocal
  <2> QED BY <2>2, <2>4, <2>5, UserEditsType
<1>5. ASSUME NEW p \in Paths, NEW q \in Paths, RenameLocal(p, q) PROVE SyncTypeOK'
  <2>1. PICK d : d = [disk EXCEPT ![p] = Absent, ![q] = disk[p]] OBVIOUS
  <2>2. d \in D BY <1>1, <2>1
  <2>3. PICK ev : ev = <<[path |-> p, op |-> "remove"], [path |-> q, op |-> "write"]>> OBVIOUS
  <2>4. ev \in Seq(Event) BY <1>2, <2>3, OneSeq
  <2>5. UserEdits(d, ev, {q}, {p}) /\ retouched' \in SUBSET Paths
    BY <1>1, <1>5, <2>1, <2>3 DEF RenameLocal
  <2> QED BY <2>2, <2>4, <2>5, UserEditsType
<1> QED BY <1>3, <1>4, <1>5

(* A watcher takes a step of its own.                                       *)
LEMMA StepsType ==
    ASSUME SyncTypeOK, NEW g \in Watchers, NEW w \in WatchType, Steps(g, w),
           import' \in [Goroutines -> ImportType], UNCHANGED <<entries, noticed>>,
           files' \in Seq(FileType)
    PROVE  SyncTypeOK'
<1>1. watch' \in [Watchers -> WatchType] BY TypeParts DEF Steps
<1>2. UNCHANGED <<time, acts, disk, enabled, updatedAt, lastTick, entry, scanning, scan, retouched>>
  BY DEF Steps, rootVars, scanVars
<1> QED BY <1>1, <1>2, TypeParts DEF WatchType, ImportType, EntryType, FileType, SyncTypeOK, Goroutines

LEMMA Trash ==
    ASSUME SyncTypeOK, NEW p \in Paths
    PROVE  /\ Trashed(p) \in Seq(FileType) /\ Len(Trashed(p)) = Len(files)
           /\ \A i \in 1..Len(files) : Trashed(p)[i].content = files[i].content
<1>1. files \in Seq(FileType) BY TypeParts
<1>2. PICK n : n = entries[FirstEntry(p)].row OBVIOUS
<1>3. CASE FirstEntry(p) = 0 BY <1>1, <1>3 DEF Trashed
<1>4. CASE FirstEntry(p) # 0
  <2>1. Trashed(p) = [files EXCEPT ![n] = [files[n] EXCEPT !.live = FALSE]]
    BY <1>2, <1>4 DEF Trashed
  <2>2. CASE n \in 1..Len(files)
    <3>1. PICK r : r = [files[n] EXCEPT !.live = FALSE] OBVIOUS
    <3>2. files[n] \in FileType BY <1>1, <2>2, ElementOfSeq
    <3>3. \A b \in BOOLEAN : [files[n] EXCEPT !.live = b] \in FileType BY <3>2 DEF FileType
    <3>4. r \in FileType BY <3>1, <3>3, Zenon
    <3>5. r.content = files[n].content BY <3>1, <3>2 DEF FileType
    <3>6. /\ Trashed(p) \in Seq(FileType) /\ Len(Trashed(p)) = Len(files)
          /\ \A i \in 1..Len(files) : Trashed(p)[i] = IF i = n THEN r ELSE files[i]
      BY <1>1, <2>1, <2>2, <3>1, <3>4, ExceptSeq
    <3> QED BY <3>5, <3>6
  <2>3. CASE n \notin 1..Len(files)
    <3>1. files \in [1..Len(files) -> FileType] BY <1>1, LenProperties
    <3>2. Trashed(p) = files BY <2>1, <2>3, <3>1
    <3> QED BY <1>1, <3>2
  <2> QED BY <2>2, <2>3
<1> QED BY <1>3, <1>4

LEMMA TakeType == ASSUME SyncTypeOK, NEW g \in Watchers, TakeEvent(g) PROVE SyncTypeOK'
<1>1. watch[g] \in WatchType /\ watch[g].queue # <<>> BY TypeParts DEF TakeEvent
<1>2. PICK e, t : e = Head(watch[g].queue) /\ t = Tail(watch[g].queue) OBVIOUS
<1>3. e \in Event /\ t \in Seq(Event)
  <2>1. watch[g].queue \in Seq(Event) BY <1>1 DEF WatchType
  <2> QED BY <1>1, <1>2, <2>1, HeadTailProperties
<1>4. PICK rest : rest = [watch[g] EXCEPT !.queue = t] OBVIOUS
<1>5. rest \in WatchType BY <1>1, <1>3, <1>4 DEF WatchType
<1>6. PICK m : m = IF e.op = "remove" THEN -1 ELSE disk[e.path].mtime OBVIOUS
<1>7. e.path \in Paths BY <1>3 DEF Event
<1>8. m \in -1..MaxTime
  <2>1. disk[e.path].mtime \in Times \/ disk[e.path].mtime = -1 BY <1>7, DiskFile
  <2> QED BY <1>6, <2>1, SyncAssumption DEF Times
<1>9. [rest EXCEPT !.pending[e.path] = m] \in WatchType
  BY <1>5, <1>7, <1>8 DEF WatchType
<1>10. PICK w : w = IF e.op = "remove" \/ disk[e.path] # Absent
                    THEN [rest EXCEPT !.pending[e.path] = m] ELSE rest
  OBVIOUS
<1>11. w \in WatchType BY <1>5, <1>9, <1>10
<1>12. Steps(g, w) /\ UNCHANGED <<import, entries, noticed>>
  BY <1>2, <1>4, <1>6, <1>10 DEF TakeEvent
<1>13. files' \in Seq(FileType)
  <2>1. files' \in {Trashed(e.path), files} BY <1>2 DEF TakeEvent
  <2> QED BY <1>7, <2>1, Trash, TypeParts
<1>14. import' \in [Goroutines -> ImportType] BY <1>12, TypeParts
<1> QED BY <1>11, <1>12, <1>13, <1>14, StepsType

LEMMA WatcherType ==
    ASSUME SyncTypeOK, NEW g \in Watchers, Arm(g) \/ Leave(g) \/ \E p \in Paths : Debounce(g, p)
    PROVE  SyncTypeOK'
<1>1. watch[g] \in WatchType BY TypeParts
<1>2. CASE Arm(g)
  <2>1. [watch[g] EXCEPT !.pc = "running"] \in WatchType BY <1>1 DEF WatchType
  <2>2. Steps(g, [watch[g] EXCEPT !.pc = "running"]) /\ UNCHANGED <<import, entries, files, noticed>>
    BY <1>2 DEF Arm, tableVars
  <2>3. import' \in [Goroutines -> ImportType] /\ files' \in Seq(FileType) BY <2>2, TypeParts
  <2> QED BY <2>1, <2>2, <2>3, StepsType
<1>3. CASE Leave(g)
  <2>1. [NoWatch EXCEPT !.pc = "done"] \in WatchType BY NoWatchType DEF WatchType
  <2>2. watch' \in [Watchers -> WatchType] BY <1>3, <2>1, TypeParts DEF Leave
  <2>3. entry' \in Watchers \cup {0} BY <1>3, TypeParts DEF Leave
  <2>4. UNCHANGED <<time, acts, disk, enabled, updatedAt, lastTick, scanning, scan, import,
                    entries, files, noticed, retouched>>
    BY <1>3 DEF Leave, rootVars, scanVars, tableVars
  <2> QED BY <2>2, <2>3, <2>4, TypeParts DEF WatchType, ImportType, EntryType, FileType, SyncTypeOK, Goroutines
<1>4. ASSUME NEW p \in Paths, Debounce(g, p) PROVE SyncTypeOK'
  <2>1. PICK seen : seen = watch[g].pending[p] OBVIOUS
  <2>2. seen \in -1..MaxTime /\ seen # -1 BY <1>1, <1>4, <2>1 DEF Debounce, WatchType
  <2>3. seen \in Times BY <2>2, SyncAssumption DEF Times
  <2>4. PICK m : m = IF disk[p] # Absent /\ disk[p].mtime # seen THEN disk[p].mtime ELSE -1
    OBVIOUS
  <2>5. m \in -1..MaxTime
    <3>1. disk[p].mtime \in Times \/ disk[p].mtime = -1 BY DiskFile
    <3> QED BY <2>4, <3>1, SyncAssumption DEF Times
  <2>6. PICK w : w = [watch[g] EXCEPT !.pending[p] = m] OBVIOUS
  <2>7. w \in WatchType BY <1>1, <2>5, <2>6 DEF WatchType
  <2>8. PICK job : job = [NoImport EXCEPT !.pc = "save", !.path = p, !.mtime = seen] OBVIOUS
  <2>9. job \in ImportType BY <2>3, <2>8, NoImportType DEF ImportType
  <2>10. /\ Steps(g, w) /\ UNCHANGED <<entries, files, noticed>>
         /\ import' \in {import, [import EXCEPT ![g] = job]}
    BY <1>4, <2>1, <2>4, <2>6, <2>8 DEF Debounce, tableVars
  <2>11. import' \in [Goroutines -> ImportType] /\ files' \in Seq(FileType)
    BY <2>9, <2>10, TypeParts DEF Goroutines
  <2> QED BY <2>7, <2>10, <2>11, StepsType
<1> QED BY <1>2, <1>3, <1>4

LEMMA CancelledType ==
    ASSUME SyncTypeOK
    PROVE  /\ Cancelled \in [Watchers -> WatchType]
           /\ \A g \in Watchers :
                  /\ Cancelled[g].pc = watch[g].pc /\ Cancelled[g].stamp = watch[g].stamp
                  /\ Cancelled[g].queue = watch[g].queue /\ Cancelled[g].pending = watch[g].pending
<1>1. CASE entry = 0 BY <1>1, TypeParts DEF Cancelled
<1>2. CASE entry # 0
  <2>1. entry \in Watchers /\ watch \in [Watchers -> WatchType] BY <1>2, TypeParts
  <2>2. PICK w : w = [watch[entry] EXCEPT !.on = FALSE] OBVIOUS
  <2>3. \A b \in BOOLEAN : [watch[entry] EXCEPT !.on = b] \in WatchType BY <2>1 DEF WatchType
  <2>4. w \in WatchType BY <2>2, <2>3, Zenon
  <2>5. /\ w.pc = watch[entry].pc /\ w.stamp = watch[entry].stamp
        /\ w.queue = watch[entry].queue /\ w.pending = watch[entry].pending
    BY <2>1, <2>2 DEF WatchType
  <2>6. Cancelled = [watch EXCEPT ![entry] = w] BY <1>2, <2>2 DEF Cancelled
  <2> QED BY <2>1, <2>4, <2>5, <2>6
<1> QED BY <1>1, <1>2

LEMMA RootsType ==
    ASSUME SyncTypeOK,
           Elapse \/ (\E on \in {0, 1} : UpdateSyncRoot(on)) \/ DeleteSyncRoot \/ TickCancel \/ TickStart
    PROVE  SyncTypeOK'
<1>1. CASE Elapse \/ (\E on \in {0, 1} : UpdateSyncRoot(on)) \/ DeleteSyncRoot
  <2>1. time' \in Times /\ enabled' \in {1, 0, -1} /\ updatedAt' \in Times
    BY <1>1, SyncAssumption, TypeParts DEF Elapse, UpdateSyncRoot, DeleteSyncRoot, Times, rootVars
  <2>2. acts' \in 0..MaxActs
    BY <1>1, ActType, TypeParts DEF Elapse, UpdateSyncRoot, DeleteSyncRoot
  <2>3. UNCHANGED <<disk, lastTick, entry, watch, scanning, scan, import, entries, files,
                    noticed, retouched>>
    BY <1>1 DEF Elapse, UpdateSyncRoot, DeleteSyncRoot, scanVars, tableVars
  <2> QED BY <2>1, <2>2, <2>3, TypeParts DEF WatchType, ImportType, EntryType, FileType, SyncTypeOK, Goroutines
<1>2. CASE TickCancel \/ TickStart
  <2>1. /\ lastTick' \in -1..MaxTime /\ noticed' \in SUBSET Paths
        /\ entry' \in Watchers \cup {0}
    BY <1>2, SyncAssumption, TypeParts DEF TickCancel, TickStart, Times
  <2>2. watch' \in [Watchers -> WatchType]
    <3>1. CASE TickCancel \/ watch' = watch
      BY <3>1, CancelledType, TypeParts DEF TickCancel
    <3>2. CASE TickStart /\ watch' # watch
      <4>1. PICK w : w = [NoWatch EXCEPT !.pc = "starting", !.on = TRUE, !.stamp = updatedAt]
        OBVIOUS
      <4>2. PICK g \in Watchers : watch' = [Cancelled EXCEPT ![g] = w]
        BY <3>2, <4>1 DEF TickStart
      <4>3. \A b \in BOOLEAN :
                [NoWatch EXCEPT !.pc = "starting", !.on = b, !.stamp = updatedAt] \in WatchType
        BY NoWatchType, TypeParts DEF WatchType
      <4>4. w \in WatchType BY <4>1, <4>3, Zenon
      <4> QED BY <4>2, <4>4, CancelledType
    <3> QED BY <1>2, <3>1, <3>2
  <2>3. UNCHANGED <<time, acts, disk, enabled, updatedAt, scanning, scan, import, entries, files,
                    retouched>>
    BY <1>2 DEF TickCancel, TickStart, rootVars, scanVars, tableVars
  <2> QED BY <2>1, <2>2, <2>3, TypeParts DEF WatchType, ImportType, EntryType, FileType, SyncTypeOK, Goroutines
<1> QED BY <1>1, <1>2

LEMMA ScanType ==
    ASSUME SyncTypeOK, BeginScan \/ (\E p \in Paths : ScanFile(p)) \/ EndScan
    PROVE  SyncTypeOK'
<1>1. CASE BeginScan \/ EndScan
  <2>1. /\ acts' \in 0..MaxActs /\ scan' \in SUBSET Paths /\ updatedAt' \in Times
        /\ scanning' \in BOOLEAN
    BY <1>1, ActType, TypeParts DEF BeginScan, EndScan
  <2>2. UNCHANGED <<time, disk, enabled, lastTick, entry, watch, import, entries, files, noticed,
                    retouched>>
    BY <1>1 DEF BeginScan, EndScan, tableVars
  <2> QED BY <2>1, <2>2, TypeParts DEF WatchType, ImportType, EntryType, FileType, SyncTypeOK, Goroutines
<1>2. ASSUME NEW p \in Paths, ScanFile(p) PROVE SyncTypeOK'
  <2>1. PICK job : job = [NoImport EXCEPT !.pc = "save", !.path = p, !.mtime = disk[p].mtime]
    OBVIOUS
  <2>2. disk[p] # Absent => job \in ImportType
    BY <2>1, NoImportType, DiskFile DEF ImportType
  <2>3. import' = import \/ (disk[p] # Absent /\ import' = [import EXCEPT ![Scan] = job])
    BY <1>2, <2>1 DEF ScanFile
  <2>4. import' \in [Goroutines -> ImportType] BY <2>2, <2>3, TypeParts DEF Goroutines
  <2>5. /\ scan' \in SUBSET Paths /\ updatedAt' \in Times /\ scanning' \in BOOLEAN
        /\ UNCHANGED <<time, acts, disk, enabled, lastTick, entry, watch, entries, files, noticed,
                       retouched>>
    BY <1>2, TypeParts DEF ScanFile, tableVars
  <2> QED BY <2>4, <2>5, TypeParts DEF WatchType, ImportType, EntryType, FileType, SyncTypeOK, Goroutines
<1> QED BY <1>1, <1>2

(* Save finds a live row that holds what lies on the disk, or makes one.     *)
LEMMA SaveEffect ==
    ASSUME SyncTypeOK, RowsInv, NEW g \in Goroutines, Save(g)
    PROVE  /\ import[g].path \in Paths /\ disk[import[g].path] # Absent /\ import[g].pc = "save"
           /\ UNCHANGED <<entries, noticed>> /\ files' \in Seq(FileType)
           /\ Len(files) \in Nat /\ Len(files') \in Nat
           /\ Len(files) <= Len(files') /\ Len(files') <= MaxRows
           /\ \A j \in 1..Len(files) : files'[j] = files[j]
           /\ \E i \in 1..MaxRows :
                  /\ ImportStep(g, [import[g] EXCEPT !.pc = "record", !.row = i])
                  /\ i <= Len(files') /\ files'[i].content = disk[import[g].path].content
<1>1. files \in Seq(FileType) /\ Len(files) <= MaxRows BY TypeParts DEF RowsInv
<1>2. DOMAIN files = 1..Len(files) /\ Len(files) \in Nat BY <1>1, LenProperties
<1>3. PICK c : c = disk[import[g].path].content OBVIOUS
<1>4. import[g].path \in Paths /\ disk[import[g].path] # Absent /\ import[g].pc = "save"
  BY DEF Save, RowsInv
<1>5. c \in Contents
  <2>1. disk[import[g].path] \in [content : Contents, mtime : Times] BY <1>4, DiskFile
  <2> QED BY <1>3, <2>1
<1>6. UNCHANGED <<entries, noticed>> BY DEF Save
<1>7. PICK x : x = [content |-> c, live |-> TRUE] OBVIOUS
<1>8. x \in FileType
  <2>1. \A b \in BOOLEAN : [content |-> c, live |-> b] \in FileType BY <1>5 DEF FileType
  <2> QED BY <1>7, <2>1, Zenon
<1>9. x.content = c BY <1>7
<1>10. \/ /\ files' = files
          /\ \E i \in DOMAIN files :
                 /\ files[i].content = c
                 /\ ImportStep(g, [import[g] EXCEPT !.pc = "record", !.row = i])
       \/ /\ Len(files) < MaxRows /\ files' = Append(files, x)
          /\ ImportStep(g, [import[g] EXCEPT !.pc = "record", !.row = Len(files) + 1])
  BY <1>3, <1>7 DEF Save
<1>11. CASE files' = files /\ \E i \in DOMAIN files :
                 /\ files[i].content = c
                 /\ ImportStep(g, [import[g] EXCEPT !.pc = "record", !.row = i])
  <2>1. PICK i \in 1..Len(files) :
                 /\ files[i].content = c
                 /\ ImportStep(g, [import[g] EXCEPT !.pc = "record", !.row = i])
    BY <1>2, <1>11
  <2>2. i \in 1..MaxRows BY <1>1, <1>2, SyncAssumption
  <2>3. /\ Len(files') = Len(files) /\ files' \in Seq(FileType) /\ files'[i].content = files[i].content
        /\ \A j \in 1..Len(files) : files'[j] = files[j]
    BY <1>1, <1>11
  <2>4. i <= Len(files') /\ Len(files') \in Nat /\ Len(files) <= Len(files') /\ Len(files') <= MaxRows
    BY <1>1, <1>2, <2>3
  <2>5. files'[i].content = disk[import[g].path].content BY <1>3, <2>1, <2>3
  <2> QED BY <1>2, <1>4, <1>6, <2>1, <2>2, <2>3, <2>4, <2>5
<1>12. CASE /\ Len(files) < MaxRows /\ files' = Append(files, x)
            /\ ImportStep(g, [import[g] EXCEPT !.pc = "record", !.row = Len(files) + 1])
  <2>1. /\ files' \in Seq(FileType) /\ Len(files') = Len(files) + 1
        /\ \A j \in 1..Len(files) : files'[j] = files[j]
        /\ files'[Len(files) + 1] = x
    BY <1>1, <1>8, <1>12, AppendOne
  <2>2. PICK n : n = Len(files) + 1 OBVIOUS
  <2>3. n \in 1..MaxRows /\ n <= Len(files') BY <1>2, <1>12, <2>1, <2>2, SyncAssumption
  <2>4. ImportStep(g, [import[g] EXCEPT !.pc = "record", !.row = n]) BY <1>12, <2>2
  <2>5. files'[n].content = disk[import[g].path].content BY <1>3, <1>9, <2>1, <2>2
  <2>6. Len(files') \in Nat /\ Len(files) <= Len(files') /\ Len(files') <= MaxRows
    BY <1>2, <1>12, <2>1, SyncAssumption
  <2> QED BY <1>2, <1>4, <1>6, <2>1, <2>3, <2>4, <2>5, <2>6
<1> QED BY <1>10, <1>11, <1>12

LEMMA ImportsType ==
    ASSUME SyncTypeOK, RowsInv, NEW g \in Goroutines,
           SkipUnchanged(g) \/ Save(g) \/ Record(g) \/ ImportFails(g)
    PROVE  SyncTypeOK'
<1>1. import[g] \in ImportType BY TypeParts
<1>2. CASE ImportFails(g)
  <2>1. import' \in [Goroutines -> ImportType]
    BY <1>2, NoImportType, TypeParts DEF ImportFails
  <2>2. scanning' \in BOOLEAN BY <1>2, Zenon DEF ImportFails
  <2>3. scan' \in SUBSET Paths /\ noticed' \in SUBSET Paths /\ updatedAt' \in Times
    BY <1>2, TypeParts DEF ImportFails
  <2>4. UNCHANGED <<time, acts, disk, enabled, lastTick, entry, watch, entries, files, retouched>>
    BY <1>2 DEF ImportFails, tableVars
  <2> QED BY <2>1, <2>2, <2>3, <2>4, TypeParts DEF WatchType, ImportType, EntryType, FileType, SyncTypeOK, Goroutines
<1>3. ASSUME NEW job \in ImportType, ImportStep(g, job), entries' \in Seq(EntryType),
             files' \in Seq(FileType), noticed' = noticed
      PROVE  SyncTypeOK'
  <2>1. import' \in [Goroutines -> ImportType] BY <1>3, TypeParts DEF ImportStep
  <2>2. UNCHANGED <<time, acts, disk, enabled, updatedAt, lastTick, entry, watch, scanning, scan,
                    retouched>>
    BY <1>3 DEF ImportStep, rootVars, scanVars
  <2> QED BY <1>3, <2>1, <2>2, TypeParts DEF WatchType, ImportType, EntryType, FileType, SyncTypeOK, Goroutines
<1>4. CASE SkipUnchanged(g)
  <2>1. ImportStep(g, NoImport) /\ UNCHANGED <<entries, files, noticed>>
    BY <1>4 DEF SkipUnchanged, tableVars
  <2> QED BY <1>3, <2>1, NoImportType, TypeParts
<1>5. CASE Save(g)
  <2>1. PICK i \in 1..MaxRows :
            /\ ImportStep(g, [import[g] EXCEPT !.pc = "record", !.row = i])
            /\ files' \in Seq(FileType) /\ UNCHANGED <<entries, noticed>>
    BY <1>5, SaveEffect
  <2>2. [import[g] EXCEPT !.pc = "record", !.row = i] \in ImportType
    <3>1. i \in 0..MaxRows BY SyncAssumption
    <3> QED BY <1>1, <3>1 DEF ImportType
  <2> QED BY <1>3, <2>1, <2>2, TypeParts
<1>6. CASE Record(g)
  <2>1. PICK e : e = [path |-> import[g].path, row |-> import[g].row, mtime |-> import[g].mtime]
    OBVIOUS
  <2>2. e \in EntryType
    <3>1. import[g].path \in Paths /\ import[g].row \in 1..Len(files) /\ Len(files) <= MaxRows
      BY <1>6 DEF Record, RowsInv
    <3>2. Len(files) \in Nat
      <4>1. files \in Seq(FileType) BY TypeParts
      <4> QED BY <4>1, LenProperties
    <3> QED BY <1>1, <2>1, <3>1, <3>2, SyncAssumption DEF EntryType, ImportType
  <2>3. /\ entries' = Append(entries, e) /\ ImportStep(g, NoImport) /\ UNCHANGED <<files, noticed>>
    BY <1>6, <2>1 DEF Record
  <2>4. entries' \in Seq(EntryType) BY <2>2, <2>3, TypeParts, AppendOne
  <2> QED BY <1>3, <2>3, <2>4, NoImportType, TypeParts
<1> QED BY <1>2, <1>4, <1>5, <1>6

-----------------------------------------------------------------------------
(* What the entries say stays true.                                         *)

(* A step that leaves the disk and the entries alone, and gives an import   *)
(* nothing but an end or a beginning.                                       *)
LEMMA TellKeeps ==
    ASSUME TellInv, SyncTypeOK', UNCHANGED <<disk, entries, retouched>>,
           Len(files') = Len(files), \A i \in 1..Len(files) : files'[i].content = files[i].content,
           \A g \in Goroutines : \/ import'[g] = import[g] \/ import'[g].pc = "none"
                                 \/ import'[g].pc = "save" /\ import'[g].path \in Paths
    PROVE  TellInv'
<1>1. SyncTypeOK /\ RowsInv /\ ContentInv /\ EntriesTellTheContent BY DEF TellInv
<1>2. RowsInv' BY <1>1 DEF RowsInv
<1>3. \A i \in DOMAIN entries : entries[i].row \in 1..Len(files) BY <1>1 DEF RowsInv
<1>4. EntriesTellTheContent'
  <2> SUFFICES ASSUME NEW i \in DOMAIN entries, disk[entries[i].path] # Absent,
                      entries[i].mtime = disk[entries[i].path].mtime,
                      entries[i].path \notin retouched
               PROVE  files'[entries[i].row].content = disk[entries[i].path].content
    BY DEF EntriesTellTheContent
  <2>1. files[entries[i].row].content = disk[entries[i].path].content
    BY <1>1 DEF EntriesTellTheContent
  <2> QED BY <1>3, <2>1
<1>5. ContentInv'
  <2> SUFFICES ASSUME NEW g \in Goroutines, import'[g].pc = "record",
                      Current(import[g].path, import[g].mtime)', import'[g] = import[g]
               PROVE  files'[import'[g].row].content = disk'[import'[g].path].content
    BY Zenon DEF ContentInv, Current
  <2>1. Current(import[g].path, import[g].mtime) BY DEF Current
  <2>2. files[import[g].row].content = disk[import[g].path].content
    BY <1>1, <2>1 DEF ContentInv
  <2>3. import[g].row \in 1..Len(files) BY <1>1 DEF RowsInv
  <2> QED BY <2>2, <2>3
<1> QED BY <1>2, <1>4, <1>5 DEF TellInv

(* A file that an entry or an import stands for, by its mtime, and that     *)
(* was not retouched, is the file it was.                                   *)
LEMMA EditShows ==
    ASSUME SyncTypeOK, NEW p \in Paths, NEW m, Current(p, m)',
           HasEntry(p, m) \/ \E g \in Goroutines : import[g].path = p /\ import[g].mtime = m,
           \/ \E q \in Paths, c \in Contents : WriteLocal(q, c)
           \/ \E q \in Paths : RemoveLocal(q)
           \/ \E q, r \in Paths : RenameLocal(q, r)
    PROVE  disk'[p] = disk[p] /\ Current(p, m)
<1>1. disk' [p] # Absent /\ disk'[p].mtime = m /\ p \notin retouched' BY DEF Current
<1>2. MtimeUsed(p, m) BY DEF MtimeUsed, Goroutines
<1>3. DOMAIN disk = Paths BY DEF SyncTypeOK
<1>4. ASSUME NEW q \in Paths, NEW c \in Contents, WriteLocal(q, c)
      PROVE  disk'[p] = disk[p] /\ p \notin retouched
  <2>1. disk' = [disk EXCEPT ![q] = [content |-> c, mtime |-> time]]
    BY <1>4 DEF WriteLocal, UserEdits
  <2>2. retouched' = IF MtimeUsed(q, time) THEN retouched \cup {q} ELSE retouched \ {q}
    BY <1>4 DEF WriteLocal
  <2>3. CASE p = q
    <3>1. time = m BY <1>1, <1>3, <2>1, <2>3
    <3> QED BY <1>1, <1>2, <2>2, <2>3, <3>1
  <2> QED BY <1>1, <1>3, <2>1, <2>2, <2>3
<1>5. ASSUME NEW q \in Paths, RemoveLocal(q) PROVE disk'[p] = disk[p] /\ p \notin retouched
  <2>1. disk' = [disk EXCEPT ![q] = Absent] /\ retouched' = retouched
    BY <1>5 DEF RemoveLocal, UserEdits
  <2> QED BY <1>1, <1>3, <2>1
<1>6. ASSUME NEW q \in Paths, NEW r \in Paths, RenameLocal(q, r)
      PROVE  disk'[p] = disk[p] /\ p \notin retouched
  <2>1. disk' = [disk EXCEPT ![q] = Absent, ![r] = disk[q]] /\ q # r
    BY <1>6 DEF RenameLocal, UserEdits
  <2>2. retouched' = IF MtimeUsed(r, disk[q].mtime) THEN retouched \cup {r} ELSE retouched \ {r}
    BY <1>6 DEF RenameLocal
  <2>3. CASE p = r
    <3>1. disk[q].mtime = m BY <1>1, <1>3, <2>1, <2>3
    <3> QED BY <1>1, <1>2, <2>2, <2>3, <3>1
  <2> QED BY <1>1, <1>3, <2>1, <2>2, <2>3
<1>7. disk'[p] = disk[p] /\ p \notin retouched BY <1>4, <1>5, <1>6
<1> QED BY <1>1, <1>7 DEF Current

LEMMA EditsTell ==
    ASSUME TellInv, SyncTypeOK',
           \/ \E q \in Paths, c \in Contents : WriteLocal(q, c)
           \/ \E q \in Paths : RemoveLocal(q)
           \/ \E q, r \in Paths : RenameLocal(q, r)
    PROVE  TellInv'
<1>1. SyncTypeOK /\ RowsInv /\ ContentInv /\ EntriesTellTheContent BY DEF TellInv
<1>2. UNCHANGED <<import, entries, files>>
  <2>1. ASSUME NEW d, NEW ev, NEW a, NEW b, UserEdits(d, ev, a, b)
        PROVE  UNCHANGED <<import, entries, files>>
    BY <2>1 DEF UserEdits, tableVars
  <2> QED BY <2>1 DEF WriteLocal, RemoveLocal, RenameLocal
<1>3. RowsInv' BY <1>1, <1>2 DEF RowsInv
<1>4. ASSUME NEW i \in DOMAIN entries,
             Current(entries[i].path, entries[i].mtime)'
      PROVE  files[entries[i].row].content = disk'[entries[i].path].content
  <2>1. entries[i].path \in Paths
    <3>1. entries \in Seq(EntryType) BY <1>1, TypeParts
    <3>2. DOMAIN entries = 1..Len(entries) BY <3>1, LenProperties
    <3>3. entries[i] \in EntryType BY <3>1, <3>2, ElementOfSeq
    <3> QED BY <3>3 DEF EntryType
  <2>2. PICK p, m : p = entries[i].path /\ m = entries[i].mtime OBVIOUS
  <2>3. Current(p, m)' BY <1>2, <1>4, <2>2 DEF Current
  <2>4. HasEntry(p, m) BY <2>2 DEF HasEntry
  <2>5. disk'[p] = disk[p] /\ Current(p, m) BY <1>1, <2>1, <2>2, <2>3, <2>4, EditShows
  <2> QED BY <1>1, <2>2, <2>5 DEF EntriesTellTheContent, Current
<1>5. EntriesTellTheContent' BY <1>2, <1>4 DEF EntriesTellTheContent, Current
<1>6. ContentInv'
  <2> SUFFICES ASSUME NEW g \in Goroutines, import[g].pc = "record",
                      Current(import[g].path, import[g].mtime)'
               PROVE  files[import[g].row].content = disk'[import[g].path].content
    BY <1>2 DEF ContentInv, Current
  <2>1. import[g].path \in Paths BY <1>1 DEF RowsInv
  <2>2. PICK p, m : p = import[g].path /\ m = import[g].mtime OBVIOUS
  <2>3. Current(p, m)' BY <1>2, <2>2 DEF Current
  <2>4. disk'[p] = disk[p] /\ Current(p, m) BY <1>1, <2>1, <2>2, <2>3, EditShows
  <2> QED BY <1>1, <2>2, <2>4 DEF ContentInv
<1> QED BY <1>3, <1>5, <1>6 DEF TellInv

(* Save reads the content after the mtime was read.                         *)
LEMMA SaveTells ==
    ASSUME TellInv, SyncTypeOK', NEW g \in Goroutines, Save(g)
    PROVE  TellInv'
<1>1. SyncTypeOK /\ RowsInv /\ ContentInv /\ EntriesTellTheContent BY DEF TellInv
<1>2. /\ Len(files) \in Nat /\ Len(files') \in Nat
      /\ Len(files) <= Len(files') /\ Len(files') <= MaxRows
      /\ \A j \in 1..Len(files) : j \in 1..Len(files') /\ files'[j] = files[j]
  <2>1. /\ Len(files) \in Nat /\ Len(files') \in Nat
        /\ Len(files) <= Len(files') /\ Len(files') <= MaxRows
        /\ \A j \in 1..Len(files) : files'[j] = files[j]
    BY <1>1, SaveEffect
  <2>2. \A k, l \in Nat : k <= l => 1..k \subseteq 1..l OBVIOUS
  <2>3. 1..Len(files) \subseteq 1..Len(files') BY <2>1, <2>2
  <2> QED BY <2>1, <2>3
<1>3. PICK i \in 1..MaxRows :
           /\ ImportStep(g, [import[g] EXCEPT !.pc = "record", !.row = i])
           /\ i <= Len(files') /\ files'[i].content = disk[import[g].path].content
  BY <1>1, SaveEffect
<1>4. UNCHANGED <<disk, entries, retouched>>
  BY <1>1, <1>3, SaveEffect DEF ImportStep
<1>5. PICK job : job = [import[g] EXCEPT !.pc = "record", !.row = i] OBVIOUS
<1>6. job.path = import[g].path /\ job.row = i
  <2>1. import[g] \in ImportType BY <1>1, TypeParts
  <2> QED BY <1>5, <2>1 DEF ImportType
<1>7. /\ import'[g] = job /\ \A h \in Goroutines \ {g} : import'[h] = import[h]
  <2>1. DOMAIN import = Goroutines BY <1>1, TypeParts
  <2> QED BY <1>3, <1>5, <2>1 DEF ImportStep
<1>8. import[g].path \in Paths BY <1>1, SaveEffect
<1>9. RowsInv'
  <2>1. \A h \in Goroutines \ {g} : /\ import[h].pc # "none" => import[h].path \in Paths
                                    /\ import[h].pc = "record" => import[h].row \in 1..Len(files')
    BY <1>1, <1>2 DEF RowsInv
  <2>2. \A k \in DOMAIN entries : entries[k].row \in 1..Len(files') BY <1>1, <1>2 DEF RowsInv
  <2>3. i \in 1..Len(files') BY <1>2, <1>3
  <2> QED BY <1>2, <1>4, <1>6, <1>7, <1>8, <2>1, <2>2, <2>3 DEF RowsInv
<1>10. ContentInv'
  <2> SUFFICES ASSUME NEW h \in Goroutines, import'[h].pc = "record",
                      Current(import[h].path, import[h].mtime)', h # g
               PROVE  files'[import'[h].row].content = disk'[import'[h].path].content
    BY <1>3, <1>4, <1>6, <1>7 DEF ContentInv, Current
  <2>1. import'[h] = import[h] BY <1>7
  <2>2. Current(import[h].path, import[h].mtime) BY <1>4, <2>1 DEF Current
  <2>3. import[h].row \in 1..Len(files) BY <1>1, <2>1 DEF RowsInv
  <2>4. files[import[h].row].content = disk[import[h].path].content
    BY <1>1, <2>1, <2>2 DEF ContentInv
  <2> QED BY <1>2, <1>4, <2>1, <2>3, <2>4
<1>11. EntriesTellTheContent'
  <2>1. \A k \in DOMAIN entries : files'[entries[k].row] = files[entries[k].row]
    BY <1>1, <1>2 DEF RowsInv
  <2> QED BY <1>1, <1>4, <2>1 DEF EntriesTellTheContent
<1> QED BY <1>9, <1>10, <1>11 DEF TellInv

LEMMA RecordTells ==
    ASSUME TellInv, SyncTypeOK', NEW g \in Goroutines, Record(g)
    PROVE  TellInv'
<1>1. SyncTypeOK /\ RowsInv /\ ContentInv /\ EntriesTellTheContent BY DEF TellInv
<1>2. PICK e : e = [path |-> import[g].path, row |-> import[g].row, mtime |-> import[g].mtime]
  OBVIOUS
<1>3. /\ entries' = Append(entries, e) /\ UNCHANGED <<disk, files, retouched>>
      /\ import' = [import EXCEPT ![g] = NoImport] /\ import[g].pc = "record"
  BY <1>2 DEF Record, ImportStep
<1>4. /\ import'[g].pc = "none" /\ \A h \in Goroutines \ {g} : import'[h] = import[h]
  <2>1. DOMAIN import = Goroutines BY <1>1, TypeParts
  <2> QED BY <1>3, <2>1, NoImportType
<1>5. /\ DOMAIN entries' = 1..(Len(entries) + 1) /\ Len(entries) \in Nat
      /\ DOMAIN entries = 1..Len(entries)
      /\ \A i \in 1..Len(entries) : entries'[i] = entries[i]
      /\ entries'[Len(entries) + 1] = e
  <2>1. entries \in Seq(EntryType) BY <1>1, TypeParts
  <2>2. e \in EntryType
    <3>1. import[g].path \in Paths /\ import[g].row \in 1..Len(files) /\ Len(files) <= MaxRows
      BY <1>1, <1>3 DEF RowsInv
    <3>2. files \in Seq(FileType) /\ import[g] \in ImportType BY <1>1, TypeParts
    <3>3. Len(files) \in Nat BY <3>2, LenProperties
    <3> QED BY <1>2, <3>1, <3>2, <3>3, SyncAssumption DEF EntryType, ImportType
  <2> QED BY <1>3, <2>1, <2>2, AppendOne
<1>6. PICK n : n = Len(entries) + 1 OBVIOUS
<1>7. \A i \in DOMAIN entries' : i = n \/ (i \in DOMAIN entries /\ entries'[i] = entries[i])
  <2>1. \A l \in Nat : \A i \in 1..(l + 1) : i = l + 1 \/ i \in 1..l OBVIOUS
  <2>2. \A i \in DOMAIN entries' : i = n \/ i \in DOMAIN entries BY <1>5, <1>6, <2>1
  <2>3. \A i \in DOMAIN entries : entries'[i] = entries[i] BY <1>5
  <2> QED BY <2>2, <2>3, Zenon
<1>8. entries'[n] = e BY <1>5, <1>6
<1>9. RowsInv'
  <2>1. e.row \in 1..Len(files) BY <1>1, <1>2, <1>3 DEF RowsInv
  <2> QED BY <1>1, <1>3, <1>4, <1>7, <1>8, <2>1 DEF RowsInv
<1>10. ContentInv' BY <1>1, <1>3, <1>4 DEF ContentInv, Current
<1>11. EntriesTellTheContent'
  <2>1. Current(e.path, e.mtime) => files[e.row].content = disk[e.path].content
    BY <1>1, <1>2, <1>3 DEF ContentInv
  <2> QED BY <1>1, <1>3, <1>7, <1>8, <2>1 DEF EntriesTellTheContent, Current
<1> QED BY <1>9, <1>10, <1>11 DEF TellInv

LEMMA NextTells == TellInv /\ [SyncNext]_syncVars => TellInv'
<1> SUFFICES ASSUME TellInv, [SyncNext]_syncVars PROVE TellInv' OBVIOUS
<1>1. SyncTypeOK /\ RowsInv BY DEF TellInv
<1>2. files \in Seq(FileType) /\ DOMAIN import = Goroutines BY <1>1, TypeParts
<1>3. ASSUME UNCHANGED <<disk, entries, files, retouched>>, SyncTypeOK',
             \A g \in Goroutines : \/ import'[g] = import[g] \/ import'[g].pc = "none"
                                   \/ import'[g].pc = "save" /\ import'[g].path \in Paths
      PROVE  TellInv'
  BY <1>3, TellKeeps
<1>4. CASE UNCHANGED syncVars
  <2>1. SyncTypeOK' BY <1>1, <1>4 DEF SyncTypeOK, syncVars, rootVars, scanVars, tableVars
  <2> QED BY <1>3, <1>4, <2>1 DEF syncVars, tableVars
<1>5. CASE \/ \E p \in Paths, c \in Contents : WriteLocal(p, c)
           \/ \E p \in Paths : RemoveLocal(p)
           \/ \E p, q \in Paths : RenameLocal(p, q)
  <2>1. SyncTypeOK' BY <1>1, <1>5, EditsType
  <2> QED BY <1>5, <2>1, EditsTell
<1>6. CASE Elapse \/ (\E on \in {0, 1} : UpdateSyncRoot(on)) \/ DeleteSyncRoot \/ TickCancel \/ TickStart
  <2>1. SyncTypeOK' BY <1>1, <1>6, RootsType
  <2>2. UNCHANGED <<disk, entries, files, import, retouched>>
    BY <1>6 DEF Elapse, UpdateSyncRoot, DeleteSyncRoot, TickCancel, TickStart, tableVars
  <2> QED BY <1>3, <2>1, <2>2
<1>7. ASSUME NEW g \in Watchers, Arm(g) \/ Leave(g) PROVE TellInv'
  <2>1. SyncTypeOK' BY <1>1, <1>7, WatcherType
  <2>2. UNCHANGED <<disk, entries, files, import, retouched>> BY <1>7 DEF Arm, Leave, Steps, tableVars
  <2> QED BY <1>3, <2>1, <2>2
<1>8. ASSUME NEW g \in Watchers, TakeEvent(g) PROVE TellInv'
  <2>1. SyncTypeOK' BY <1>1, <1>8, TakeType
  <2>2. UNCHANGED <<disk, entries, import, retouched>> BY <1>8 DEF TakeEvent, Steps
  <2>3. PICK e : e = Head(watch[g].queue) OBVIOUS
  <2>4. e.path \in Paths
    <3>1. watch[g] \in WatchType /\ watch[g].queue # <<>> BY <1>1, <1>8, TypeParts DEF TakeEvent
    <3>2. watch[g].queue \in Seq(Event) BY <3>1 DEF WatchType
    <3>3. e \in Event BY <2>3, <3>1, <3>2, HeadTailProperties
    <3> QED BY <3>3 DEF Event
  <2>5. files' = files \/ files' = Trashed(e.path) BY <1>8, <2>3 DEF TakeEvent
  <2>6. /\ Len(files') = Len(files) /\ \A i \in 1..Len(files) : files'[i].content = files[i].content
    BY <1>1, <2>4, <2>5, Trash
  <2> QED BY <2>1, <2>2, <2>6, TellKeeps
<1>9. ASSUME NEW g \in Watchers, NEW p \in Paths, Debounce(g, p) PROVE TellInv'
  <2>1. SyncTypeOK' BY <1>1, <1>9, WatcherType
  <2>2. UNCHANGED <<disk, entries, files, retouched>> BY <1>9 DEF Debounce, Steps, tableVars
  <2>3. \A m : LET job == [NoImport EXCEPT !.pc = "save", !.path = p, !.mtime = m]
               IN  job.pc = "save" /\ job.path = p
    BY DEF NoImport
  <2>4. PICK job : /\ job.pc = "save" /\ job.path = p
                   /\ import' = import \/ import' = [import EXCEPT ![g] = job]
    BY <1>9, <2>3 DEF Debounce
  <2>5. \A h \in Goroutines : import'[h] = import[h] \/ import'[h] = job BY <1>2, <2>4
  <2> QED BY <1>3, <2>1, <2>2, <2>4, <2>5
<1>10. CASE BeginScan \/ EndScan
  <2>1. SyncTypeOK' BY <1>1, <1>10, ScanType
  <2>2. UNCHANGED <<disk, entries, files, import, retouched>> BY <1>10 DEF BeginScan, EndScan, tableVars
  <2> QED BY <1>3, <2>1, <2>2
<1>11. ASSUME NEW p \in Paths, ScanFile(p) PROVE TellInv'
  <2>1. SyncTypeOK' BY <1>1, <1>11, ScanType
  <2>2. UNCHANGED <<disk, entries, files, retouched>> BY <1>11 DEF ScanFile, tableVars
  <2>3. \A m : LET job == [NoImport EXCEPT !.pc = "save", !.path = p, !.mtime = m]
               IN  job.pc = "save" /\ job.path = p
    BY DEF NoImport
  <2>4. PICK job : /\ job.pc = "save" /\ job.path = p
                   /\ import' = import \/ import' = [import EXCEPT ![Scan] = job]
    BY <1>11, <2>3 DEF ScanFile
  <2>5. \A h \in Goroutines : import'[h] = import[h] \/ import'[h] = job BY <1>2, <2>4
  <2> QED BY <1>3, <2>1, <2>2, <2>4, <2>5
<1>12. ASSUME NEW g \in Goroutines, SkipUnchanged(g) \/ ImportFails(g) PROVE TellInv'
  <2>1. SyncTypeOK' BY <1>1, <1>12, ImportsType
  <2>2. UNCHANGED <<disk, entries, files, retouched>> /\ import' = [import EXCEPT ![g] = NoImport]
    BY <1>12 DEF SkipUnchanged, ImportStep, ImportFails, tableVars
  <2> QED BY <1>2, <1>3, <2>1, <2>2, NoImportType
<1>13. ASSUME NEW g \in Goroutines, Save(g) PROVE TellInv'
  <2>1. SyncTypeOK' BY <1>1, <1>13, ImportsType
  <2> QED BY <1>13, <2>1, SaveTells
<1>14. ASSUME NEW g \in Goroutines, Record(g) PROVE TellInv'
  <2>1. SyncTypeOK' BY <1>1, <1>14, ImportsType
  <2> QED BY <1>14, <2>1, RecordTells
<1> QED
  BY <1>4, <1>5, <1>6, <1>7, <1>8, <1>9, <1>10, <1>11, <1>12, <1>13, <1>14
  DEF SyncNext, Goroutines

LEMMA InitTells == SyncInit => TellInv
<1> SUFFICES ASSUME SyncInit PROVE TellInv OBVIOUS
<1>1. entries \in Seq(EntryType) /\ files \in Seq(FileType) /\ DOMAIN entries = {} /\ Len(files) = 0
  BY EmptySeq DEF SyncInit
<1>2. watch \in [Watchers -> WatchType] BY NoWatchType DEF SyncInit
<1>3. import \in [Goroutines -> ImportType] /\ \A g \in Goroutines : import[g].pc = "none"
  BY NoImportType DEF SyncInit, Goroutines
<1>4. disk \in [Paths -> [content : Contents, mtime : Times] \cup {Absent}]
  BY Zero DEF SyncInit
<1>5. /\ time \in Times /\ acts \in 0..MaxActs /\ enabled \in {1, 0, -1} /\ updatedAt \in Times
      /\ lastTick \in -1..MaxTime /\ entry \in Watchers \cup {0}
  BY Zero, SyncAssumption DEF SyncInit
<1>6. /\ scanning \in BOOLEAN /\ scan \in SUBSET Paths
      /\ noticed \in SUBSET Paths /\ retouched \in SUBSET Paths
  BY DEF SyncInit
<1>7. SyncTypeOK BY <1>1, <1>2, <1>3, <1>4, <1>5, <1>6, TypeParts
<1> QED
  BY <1>1, <1>3, <1>7, SyncAssumption
  DEF TellInv, RowsInv, ContentInv, EntriesTellTheContent

(* The type invariant of the folder, and what its entries say of it.        *)
THEOREM SyncTellsTheTruth == SyncSpec => []TellInv
<1> QED BY InitTells, NextTells, PTL DEF SyncSpec

-----------------------------------------------------------------------------
(* The stamps of the watchers rise.                                         *)

(* Steps that leave the watchers' turns alone; a row of sync_roots that     *)
(* changes, changes at the present second.                                  *)
LEMMA StampKeeps ==
    ASSUME SyncTypeOK, StampInv, time' >= time, time' \in Times, UNCHANGED <<entry, lastTick>>,
           UNCHANGED <<enabled, updatedAt>> \/ updatedAt' = time,
           \A g \in Watchers : /\ Alive(g)' => Alive(g) /\ watch'[g].stamp = watch[g].stamp
                               /\ g = entry => Alive(g)' /\ watch'[g].on = watch[g].on
    PROVE  StampInv'
<1>1. /\ time \in Times /\ updatedAt \in Times /\ lastTick \in -1..MaxTime
      /\ entry \in Watchers \cup {0} /\ \A g \in Watchers : watch[g].stamp \in Times
  <2>1. \A g \in Watchers : watch[g] \in WatchType BY TypeParts
  <2> QED BY <2>1, TypeParts DEF WatchType
<1>2. updatedAt' <= time' /\ updatedAt' >= updatedAt /\ lastTick' <= time'
  BY <1>1, SyncAssumption DEF StampInv, Times
<1>3. \A g \in Watchers : Alive(g)' => watch'[g].stamp <= updatedAt' /\ watch'[g].stamp <= lastTick'
  BY <1>1, <1>2, SyncAssumption DEF StampInv, Times
<1>4. entry' # 0 => /\ Alive(entry)' /\ watch'[entry'].on
                    /\ \A g \in Watchers \ {entry'} : Alive(g)' => watch'[g].stamp < watch'[entry'].stamp
  <2> SUFFICES ASSUME entry # 0
               PROVE  /\ Alive(entry)' /\ watch'[entry].on
                      /\ \A g \in Watchers \ {entry} : Alive(g)' => watch'[g].stamp < watch'[entry].stamp
    OBVIOUS
  <2>1. entry \in Watchers /\ entry' = entry BY <1>1
  <2>2. Alive(entry)' /\ watch'[entry].on = watch[entry].on /\ watch[entry].on
    <3>1. Alive(entry)' <=> watch'[entry].pc \in {"starting", "running"} BY <2>1 DEF Alive
    <3>2. watch'[entry].pc \in {"starting", "running"} /\ watch'[entry].on = watch[entry].on
      BY <2>1, Zenon DEF Alive
    <3>3. watch[entry].on BY DEF StampInv
    <3> QED BY <3>1, <3>2, <3>3
  <2>3. \A g \in Watchers : Alive(g)' => Alive(g) /\ watch'[g].stamp = watch[g].stamp OBVIOUS
  <2> QED BY <2>1, <2>2, <2>3 DEF StampInv
<1>5. entry' = 0 => \A g \in Watchers :
          Alive(g)' => watch'[g].stamp < lastTick' /\ (enabled' = 1 => watch'[g].stamp < updatedAt')
  BY <1>1, <1>2, SyncAssumption DEF StampInv, Times
<1> QED BY <1>2, <1>3, <1>4, <1>5 DEF StampInv

LEMMA WatchParts ==
    ASSUME SyncTypeOK, NEW g \in Watchers
    PROVE  /\ watch[g] \in WatchType /\ watch[g].stamp \in Times /\ watch[g].queue \in Seq(Event)
           /\ watch[g].pending \in [Paths -> -1..MaxTime] /\ import[g] \in ImportType
           /\ DOMAIN watch = Watchers /\ DOMAIN import = Goroutines
<1>1. watch \in [Watchers -> WatchType] /\ import \in [Goroutines -> ImportType] BY TypeParts
<1>2. watch[g] \in WatchType BY <1>1
<1> QED BY <1>1, <1>2 DEF WatchType, Goroutines

(* A watcher works: it lives on, and nobody else is touched.                *)
LEMMA StepsStamp ==
    ASSUME SyncTypeOK, StampInv, NEW g \in Watchers, NEW w, Steps(g, w),
           w.pc = "running", w.on = watch[g].on, w.stamp = watch[g].stamp, Alive(g)
    PROVE  StampInv'
<1>1. watch' = [watch EXCEPT ![g] = w] BY DEF Steps
<1>2. watch'[g] = w /\ \A h \in Watchers \ {g} : watch'[h] = watch[h] BY <1>1, WatchParts
<1>3. UNCHANGED <<time, enabled, updatedAt, lastTick, entry>> BY DEF Steps, rootVars
<1>4. time \in Times /\ time' >= time BY <1>3, SyncAssumption DEF SyncTypeOK, Times
<1>5. StampInv => (entry # 0 => Alive(entry)) BY DEF StampInv
<1>6. \A h \in Watchers : /\ Alive(h)' => Alive(h) /\ watch'[h].stamp = watch[h].stamp
                          /\ h = entry => Alive(h)' /\ watch'[h].on = watch[h].on
  <2> SUFFICES ASSUME NEW h \in Watchers
               PROVE  /\ Alive(h)' => Alive(h) /\ watch'[h].stamp = watch[h].stamp
                      /\ h = entry => Alive(h)' /\ watch'[h].on = watch[h].on
    OBVIOUS
  <2>1. CASE h = g
    <3>1. Alive(h)' /\ Alive(h) /\ watch'[h].stamp = watch[h].stamp BY <1>2, <2>1 DEF Alive
    <3>2. watch'[h].on = watch[h].on BY <1>2, <2>1, Zenon
    <3> QED BY <3>1, <3>2, Zenon
  <2>2. CASE h # g
    <3>1. watch'[h] = watch[h] BY <1>2, <2>2
    <3>2. (Alive(h)' <=> Alive(h)) /\ watch'[h].stamp = watch[h].stamp BY <3>1 DEF Alive
    <3>3. h = entry => Alive(h)
      <4>1. h = entry => entry # 0 BY Zero
      <4> QED BY <4>1 DEF StampInv
    <3>4. watch'[h].on = watch[h].on BY <3>1, Zenon
    <3> QED BY <3>2, <3>3, <3>4, Zenon
  <2> QED BY <2>1, <2>2
<1> QED BY <1>3, <1>4, <1>6, StampKeeps

LEMMA TickStamp ==
    ASSUME SyncTypeOK, StampInv, TickCancel \/ TickStart
    PROVE  StampInv'
<1>1. /\ time \in Times /\ updatedAt \in Times /\ lastTick \in -1..MaxTime
      /\ entry \in Watchers \cup {0} /\ \A g \in Watchers : watch[g].stamp \in Times
      /\ 0 \notin Watchers /\ DOMAIN watch = Watchers
  BY Zero, WatchParts, TypeParts
<1>2. /\ lastTick < time /\ lastTick' = time /\ UNCHANGED <<time, enabled, updatedAt>>
      /\ updatedAt <= time
  BY DEF TickCancel, TickStart, rootVars, StampInv
<1>3. \A g \in Watchers : Alive(g) => watch[g].stamp <= updatedAt /\ watch[g].stamp <= lastTick
  BY DEF StampInv
<1>4. \A g \in Watchers : Cancelled[g].pc = watch[g].pc /\ Cancelled[g].stamp = watch[g].stamp
  BY CancelledType
<1>5. CASE TickCancel
  <2>1. watch' = Cancelled /\ entry' = 0 /\ enabled # 1 BY <1>5 DEF TickCancel
  <2>2. \A g \in Watchers : (Alive(g)' <=> Alive(g)) /\ watch'[g].stamp = watch[g].stamp
    BY <1>4, <2>1 DEF Alive
  <2> QED BY <1>1, <1>2, <1>3, <2>1, <2>2, SyncAssumption DEF StampInv, Times
<1>6. CASE TickStart /\ UNCHANGED <<entry, watch>>
  <2>1. enabled = 1 /\ (Alive(entry)' <=> Alive(entry)) /\ \A g \in Watchers : Alive(g)' <=> Alive(g)
    BY <1>6 DEF TickStart, Alive
  <2>2. /\ updatedAt' <= time' /\ lastTick' <= time'
        /\ \A g \in Watchers : Alive(g)' => watch'[g].stamp <= updatedAt' /\ watch'[g].stamp <= lastTick'
    BY <1>1, <1>2, <1>3, <1>6, <2>1, SyncAssumption DEF Times
  <2>3. entry' # 0 => /\ Alive(entry)' /\ watch'[entry'].on
                      /\ \A g \in Watchers \ {entry'} : Alive(g)' => watch'[g].stamp < watch'[entry'].stamp
    BY <1>6, <2>1 DEF StampInv
  <2>4. entry' = 0 => \A g \in Watchers :
            Alive(g)' => watch'[g].stamp < lastTick' /\ (enabled' = 1 => watch'[g].stamp < updatedAt')
    BY <1>1, <1>2, <1>6, <2>1, SyncAssumption DEF StampInv, Times
  <2> QED BY <2>2, <2>3, <2>4 DEF StampInv
<1>7. CASE TickStart /\ ~UNCHANGED <<entry, watch>>
  <2>1. enabled = 1 /\ (entry = 0 \/ watch[entry].stamp # updatedAt) BY <1>7 DEF TickStart
  <2>2. PICK w : w = [NoWatch EXCEPT !.pc = "starting", !.on = TRUE, !.stamp = updatedAt] OBVIOUS
  <2>3. PICK g \in Watchers : /\ watch[g].pc = "none" /\ entry' = g
                              /\ watch' = [Cancelled EXCEPT ![g] = w]
    BY <1>7, <2>2 DEF TickStart
  <2>4. w.pc = "starting" /\ w.stamp = updatedAt BY <2>2 DEF NoWatch
  <2>5. w.on BY <2>2, Zenon DEF NoWatch
  <2>6. DOMAIN Cancelled = Watchers
    <3>1. Cancelled \in [Watchers -> WatchType] BY CancelledType
    <3> QED BY <3>1
  <2>7. watch'[g] = w /\ \A h \in Watchers \ {g} : watch'[h] = Cancelled[h] BY <2>3, <2>6
  <2>8. \A h \in Watchers \ {g} : (Alive(h)' <=> Alive(h)) /\ watch'[h].stamp = watch[h].stamp
    BY <1>4, <2>7 DEF Alive
  <2>9. \A h \in Watchers : Alive(h) => watch[h].stamp < updatedAt
    <3>1. CASE entry = 0 BY <2>1, <3>1 DEF StampInv
    <3>2. CASE entry # 0
      <4>1. /\ entry \in Watchers /\ Alive(entry)
            /\ \A h \in Watchers \ {entry} : Alive(h) => watch[h].stamp < watch[entry].stamp
        BY <1>1, <3>2 DEF StampInv
      <4>2. watch[entry].stamp < updatedAt
        BY <1>1, <1>3, <2>1, <3>2, <4>1, SyncAssumption DEF Times
      <4> QED BY <1>1, <4>1, <4>2, SyncAssumption DEF Times
    <3> QED BY <3>1, <3>2
  <2>10. Alive(entry)' /\ watch'[entry'].on
    <3>1. watch'[entry'] = w BY <2>3, <2>7
    <3>2. Alive(entry)' BY <2>4, <3>1 DEF Alive
    <3> QED BY <2>5, <3>1, <3>2, Zenon
  <2>11. entry' = g /\ entry' # 0 /\ watch'[g].stamp = updatedAt BY <1>1, <2>3, <2>4, <2>7
  <2>12. \A h \in Watchers : Alive(h)' => watch'[h].stamp <= updatedAt' /\ watch'[h].stamp <= lastTick'
    BY <1>1, <1>2, <1>3, <2>8, <2>11, SyncAssumption DEF Times
  <2>13. \A h \in Watchers \ {g} : Alive(h)' => watch'[h].stamp < updatedAt BY <2>8, <2>9
  <2>14. updatedAt' <= time' /\ lastTick' <= time' BY <1>1, <1>2, SyncAssumption DEF Times
  <2> QED BY <2>10, <2>11, <2>12, <2>13, <2>14 DEF StampInv
<1> QED BY <1>5, <1>6, <1>7

(* A watcher that leaves is not the one registered, nor does it carry its   *)
(* stamp.                                                                   *)
LEMMA LeaveStamp ==
    ASSUME SyncTypeOK, StampInv, NEW g \in Watchers, Leave(g)
    PROVE  /\ StampInv' /\ entry' = entry /\ g # entry
           /\ \A h \in Watchers \ {g} : watch'[h] = watch[h]
<1>1. /\ watch[g].pc = "running" /\ watch' = [watch EXCEPT ![g] = [NoWatch EXCEPT !.pc = "done"]]
      /\ entry' = IF entry # 0 /\ watch[entry].stamp = watch[g].stamp THEN 0 ELSE entry
      /\ UNCHANGED <<time, enabled, updatedAt, lastTick>>
  BY DEF Leave, rootVars
<1>2. g # entry
  <2>1. ~watch[g].on BY DEF Leave
  <2>2. entry # 0 => watch[entry].on BY DEF StampInv
  <2>3. g # 0 BY Zero
  <2> QED BY <2>1, <2>2, <2>3, Zenon
<1>3. /\ entry \in Watchers \cup {0} /\ \A h \in Watchers : watch[h].stamp \in Times
      /\ DOMAIN watch = Watchers
  BY TypeParts, WatchParts
<1>4. entry' = entry
  <2>1. Alive(g) BY <1>1 DEF Alive
  <2>2. entry # 0 => watch[g].stamp < watch[entry].stamp BY <1>2, <2>1 DEF StampInv
  <2>3. entry # 0 => watch[g].stamp # watch[entry].stamp BY <1>3, <2>2, SyncAssumption DEF Times
  <2> QED BY <1>1, <2>3
<1>5. watch'[g].pc = "done" /\ \A h \in Watchers \ {g} : watch'[h] = watch[h]
  <2>1. [NoWatch EXCEPT !.pc = "done"].pc = "done" BY DEF NoWatch
  <2> QED BY <1>1, <1>3, <2>1
<1>6. StampInv'
  <2>1. time \in Times /\ time' >= time BY <1>1, SyncAssumption DEF SyncTypeOK, Times
  <2>2. ~Alive(g)' BY <1>5 DEF Alive
  <2>3. \A h \in Watchers \ {g} : (Alive(h)' <=> Alive(h)) /\ watch'[h].stamp = watch[h].stamp
    BY <1>5 DEF Alive
  <2>4. \A h \in Watchers \ {g} : watch'[h].on = watch[h].on BY <1>5, Zenon
  <2>5. entry # 0 => Alive(entry) BY DEF StampInv
  <2>6. entry # 0 => Alive(entry)' /\ watch'[entry].on = watch[entry].on
    <3>1. entry # 0 => (Alive(entry)' <=> Alive(entry)) BY <1>2, <1>3, <1>4, <1>5 DEF Alive
    <3>2. entry # 0 => watch'[entry].on = watch[entry].on BY <1>2, <1>3, <2>4, Zenon
    <3> QED BY <2>5, <3>1, <3>2
  <2>7. \A h \in Watchers : /\ Alive(h)' => Alive(h) /\ watch'[h].stamp = watch[h].stamp
                            /\ h = entry => Alive(h)' /\ watch'[h].on = watch[h].on
    <3> SUFFICES ASSUME NEW h \in Watchers
                 PROVE  /\ Alive(h)' => Alive(h) /\ watch'[h].stamp = watch[h].stamp
                        /\ h = entry => Alive(h)' /\ watch'[h].on = watch[h].on
      OBVIOUS
    <3>1. Alive(h)' => Alive(h) /\ watch'[h].stamp = watch[h].stamp BY <2>2, <2>3
    <3>2. h = entry => entry # 0 BY Zero
    <3>3. h = entry => (Alive(h)' <=> Alive(entry)') BY <1>4 DEF Alive
    <3>4. h = entry => Alive(h)' BY <2>6, <3>2, <3>3
    <3>5. h = entry => watch'[h].on = watch[h].on BY <2>6, <3>2, Zenon
    <3> QED BY <3>1, <3>4, <3>5, Zenon
  <2> QED BY <1>1, <1>4, <2>1, <2>7, StampKeeps
<1> QED BY <1>2, <1>4, <1>5, <1>6

-----------------------------------------------------------------------------
(* What the registered watcher was told of arrives.                         *)

LEMMA Least ==
    ASSUME NEW S \in SUBSET Nat, S # {}
    PROVE  \E x \in S : \A y \in S : x <= y
<1>1. PICK R : R = OpToRel(<, Nat) OBVIOUS
<1>2. \A y, x \in Nat : y < x => <<y, x>> \in R BY <1>1 DEF OpToRel
<1>3. IsWellFoundedOn(R, Nat) BY <1>1, NatLessThanWellFounded
<1>4. PICK x \in S : \A y \in S : ~ (<<y, x>> \in R) BY <1>3, WFMin
<1>5. \A y \in S : ~(y < x) BY <1>2, <1>4
<1>6. \A y \in S : x <= y BY <1>5
<1> QED BY <1>6

LEMMA ImportedHasEntry ==
    ASSUME SyncTypeOK, NEW p \in Paths, NEW m, AlreadyImported(p, m)
    PROVE  HasEntry(p, m)
<1>1. PICK mine : mine = {i \in DOMAIN entries : entries[i].path = p} OBVIOUS
<1>2. mine \in SUBSET Nat
  <2>1. entries \in Seq(EntryType) BY TypeParts
  <2>2. DOMAIN entries = 1..Len(entries) /\ Len(entries) \in Nat BY <2>1, LenProperties
  <2> QED BY <1>1, <2>2
<1>3. mine # {} BY <1>1 DEF AlreadyImported, FirstEntry
<1>4. \E i \in mine : \A j \in mine : i <= j BY <1>2, <1>3, Least
<1>5. FirstEntry(p) = CHOOSE i \in mine : \A j \in mine : i <= j BY <1>1, <1>3 DEF FirstEntry
<1>6. FirstEntry(p) \in mine BY <1>4, <1>5
<1> QED BY <1>1, <1>6 DEF AlreadyImported, HasEntry

(* Work only asks what is in the queue, the table and the hand.             *)
LEMMA WorkSame ==
    ASSUME NEW queue, NEW pending, NEW job, NEW next, NEW p, NEW m,
           Work(queue, pending, job, p, m),
           job.pc # "none" /\ job.path = p /\ job.mtime = m
               => next.pc # "none" /\ next.path = p /\ next.mtime = m
    PROVE  Work(queue, pending, next, p, m)
  BY DEF Work

(* New events that do not remove p leave the work on p to do.               *)
LEMMA WorkQueue ==
    ASSUME NEW queue \in Seq(Event), NEW ev \in Seq(Event), NEW pending, NEW job, NEW p, NEW m,
           Work(queue, pending, job, p, m),
           \A i \in 1..Len(ev) : ~(ev[i].path = p /\ ev[i].op = "remove")
    PROVE  Work(queue \o ev, pending, job, p, m)
<1>1. PICK new : new = queue \o ev OBVIOUS
<1>2. /\ Len(new) = Len(queue) + Len(ev) /\ Len(queue) \in Nat /\ Len(ev) \in Nat
      /\ \A i \in 1..Len(queue) : new[i] = queue[i]
      /\ \A i \in 1..Len(ev) : new[Len(queue) + i] = ev[i]
  BY <1>1, Appending
<1>3. \A j \in 1..Len(new) : j \in 1..Len(queue) \/ \E i \in 1..Len(ev) : new[j] = ev[i]
  <2>1. ASSUME NEW j \in 1..Len(new), j \notin 1..Len(queue)
        PROVE  \E i \in 1..Len(ev) : new[j] = ev[i]
    <3>1. j - Len(queue) \in 1..Len(ev) /\ Len(queue) + (j - Len(queue)) = j BY <1>2, <2>1
    <3> QED BY <1>2, <3>1
  <2> QED BY <2>1
<1>4. ASSUME NEW i \in 0..Len(queue), NoRemoval(queue, i, p) PROVE NoRemoval(new, i, p)
  <2> SUFFICES ASSUME NEW j \in (i + 1)..Len(new) PROVE ~(new[j].path = p /\ new[j].op = "remove")
    BY DEF NoRemoval
  <2>1. j \in 1..Len(new) BY <1>2
  <2>2. CASE j \in 1..Len(queue)
    <3>1. j \in (i + 1)..Len(queue) BY <1>2, <2>2
    <3> QED BY <1>2, <1>4, <2>2, <3>1 DEF NoRemoval
  <2> QED BY <1>3, <2>1, <2>2
<1>5. 0 \in 0..Len(queue) /\ \A i \in 1..Len(queue) : i \in 0..Len(queue) /\ i \in 1..Len(new)
  BY <1>2
<1> QED BY <1>1, <1>2, <1>4, <1>5 DEF Work

(* An event that writes p, as the last of all, is work on p.                *)
LEMMA WorkTold ==
    ASSUME NEW queue \in Seq(Event), NEW ev \in Seq(Event), NEW pending, NEW job, NEW p, NEW m,
           Len(ev) > 0, ev[Len(ev)] = [path |-> p, op |-> "write"]
    PROVE  Work(queue \o ev, pending, job, p, m)
<1>1. PICK new, n : new = queue \o ev /\ n = Len(queue) + Len(ev) OBVIOUS
<1>2. /\ Len(new) = n /\ Len(queue) \in Nat /\ Len(ev) \in Nat
      /\ \A i \in 1..Len(ev) : new[Len(queue) + i] = ev[i]
  BY <1>1, Appending
<1>3. n \in 1..Len(new) /\ Len(ev) \in 1..Len(ev) /\ (n + 1)..Len(new) = {} BY <1>1, <1>2
<1>4. new[n] = [path |-> p, op |-> "write"] BY <1>1, <1>2, <1>3
<1>5. NoRemoval(new, n, p) BY <1>3 DEF NoRemoval
<1> QED BY <1>1, <1>3, <1>4, <1>5 DEF Work

(* The next event leads on.                                                 *)
LEMMA WorkTaken ==
    ASSUME NEW queue \in Seq(Event), queue # <<>>, NEW pending, NEW next, NEW job,
           NEW p \in Paths, NEW m,
           job.pc = "none", Work(queue, pending, job, p, m),
           Head(queue) = [path |-> p, op |-> "write"] => next[p] # -1,
           Head(queue).path # p => next[p] = pending[p]
    PROVE  Work(Tail(queue), next, job, p, m)
<1>1. PICK tail, n : tail = Tail(queue) /\ n = Len(queue) OBVIOUS
<1>2. /\ Len(tail) = n - 1 /\ n \in Nat /\ n > 0 /\ Head(queue) = queue[1] /\ Head(queue) \in Event
      /\ \A i \in 1..(n - 1) : tail[i] = queue[i + 1]
  <2>1. /\ Len(tail) = n - 1 /\ Head(queue) \in Event
        /\ \A i \in 1..Len(tail) : tail[i] = queue[i + 1]
    BY <1>1, HeadTailProperties
  <2>2. n \in Nat /\ n > 0 BY <1>1, EmptySeq, LenProperties
  <2> QED BY <2>1, <2>2
<1>3. ASSUME NEW i \in Nat, NoRemoval(queue, i + 1, p) PROVE NoRemoval(tail, i, p)
  <2> SUFFICES ASSUME NEW j \in (i + 1)..Len(tail) PROVE ~(tail[j].path = p /\ tail[j].op = "remove")
    BY DEF NoRemoval
  <2>1. j + 1 \in ((i + 1) + 1)..n /\ j \in 1..(n - 1) BY <1>2
  <2> QED BY <1>1, <1>2, <1>3, <2>1 DEF NoRemoval
<1>4. ASSUME NEW i \in 1..n, queue[i] = [path |-> p, op |-> "write"], NoRemoval(queue, i, p)
      PROVE  Work(tail, next, job, p, m)
  <2>1. CASE i = 1
    <3>1. next[p] # -1 BY <1>2, <1>4, <2>1
    <3>2. NoRemoval(tail, 0, p) BY <1>3, <1>4, <2>1
    <3> QED BY <3>1, <3>2 DEF Work
  <2>2. CASE i # 1
    <3>1. PICK k \in 1..(n - 1) : i = k + 1
      <4>1. i - 1 \in 1..(n - 1) /\ i = (i - 1) + 1 BY <1>2, <2>2
      <4> QED BY <4>1
    <3>2. tail[k] = [path |-> p, op |-> "write"] /\ NoRemoval(tail, k, p) BY <1>2, <1>3, <1>4, <3>1
    <3> QED BY <1>2, <3>2 DEF Work
  <2> QED BY <2>1, <2>2
<1>5. ASSUME pending[p] # -1, NoRemoval(queue, 0, p) PROVE Work(tail, next, job, p, m)
  <2>1. 1 \in (0 + 1)..n BY <1>2
  <2>2. ~(queue[1].path = p /\ queue[1].op = "remove") BY <1>1, <1>5, <2>1 DEF NoRemoval
  <2>3. queue[1].path = p => queue[1] = [path |-> p, op |-> "write"] BY <1>2, <2>2 DEF Event
  <2>4. next[p] # -1 BY <1>2, <1>5, <2>3
  <2>5. NoRemoval(queue, 0 + 1, p)
    <3>1. (0 + 1 + 1)..n \subseteq (0 + 1)..n BY <1>2
    <3> QED BY <1>1, <1>5, <3>1 DEF NoRemoval
  <2>6. NoRemoval(tail, 0, p) BY <1>3, <2>5
  <2> QED BY <2>4, <2>6 DEF Work
<1> QED BY <1>1, <1>4, <1>5 DEF Work

-----------------------------------------------------------------------------
(* One noticed path, one step.                                              *)

Held(p) == disk[p] # Absent /\ (HasEntry(p, disk[p].mtime) \/ OnItsWay(p))

LEMMA NoticeParts ==
    /\ NoticeInv <=> \A p \in noticed : Held(p)
    /\ NoticeInv' <=> \A p \in noticed' : Held(p)'
  BY DEF NoticeInv, Held

LEMMA HeldOn ==
    ASSUME NEW p \in Paths, Held(p), disk'[p] = disk[p], entry' = entry,
           \A m : HasEntry(p, m) => HasEntry(p, m)',
           \A m : entry # 0 /\ m = disk[p].mtime
                      /\ Work(watch[entry].queue, watch[entry].pending, import[entry], p, m)
                  => HasEntry(p, m)'
                     \/ Work(watch'[entry].queue, watch'[entry].pending, import'[entry], p, m)
    PROVE  Held(p)'
<1>1. PICK m : m = disk[p].mtime OBVIOUS
<1>2. Held(p)' <=> disk'[p] # Absent /\ (HasEntry(p, m)' \/ OnItsWay(p)')
  BY <1>1 DEF Held, HasEntry
<1>3. OnItsWay(p)' <=>
          entry # 0 /\ Work(watch'[entry].queue, watch'[entry].pending, import'[entry], p, m)
  BY <1>1 DEF OnItsWay, Work, NoRemoval
<1>4. \/ HasEntry(p, m)
      \/ entry # 0 /\ Work(watch[entry].queue, watch[entry].pending, import[entry], p, m)
  BY <1>1 DEF Held, OnItsWay
<1> QED BY <1>1, <1>2, <1>3, <1>4 DEF Held

(* A step that leaves the registered watcher and the entries alone.         *)
LEMMA HeldSame ==
    ASSUME NEW p \in Paths, Held(p), disk'[p] = disk[p], UNCHANGED <<entry, entries>>,
           entry # 0 => /\ watch'[entry].queue = watch[entry].queue
                        /\ watch'[entry].pending = watch[entry].pending
                        /\ import'[entry] = import[entry]
    PROVE  Held(p)'
<1>1. \A m : HasEntry(p, m) => HasEntry(p, m)' BY DEF HasEntry
<1> QED BY <1>1, HeldOn

LEMMA EditHolds ==
    ASSUME SyncTypeOK, StampInv, NoticeInv,
           NEW d \in [Paths -> [content : Contents, mtime : Times] \cup {Absent}],
           NEW ev \in Seq(Event), NEW changed \in SUBSET Paths, NEW gone \in SUBSET Paths,
           UserEdits(d, ev, changed, gone),
           \A p \in Paths \ (changed \cup gone) : d[p] = disk[p],
           \A i \in 1..Len(ev) : ev[i].op = "remove" => ev[i].path \in gone,
           Len(ev) > 0,
           \A p \in changed : d[p] # Absent /\ ev[Len(ev)] = [path |-> p, op |-> "write"],
           changed \cap gone = {}
    PROVE  NoticeInv'
<1>1. /\ disk' = d /\ watch' = Queued(ev) /\ noticed' = SeenBy(changed, gone)
      /\ UNCHANGED <<entry, entries, import>>
  BY DEF UserEdits, tableVars
<1>2. entry # 0 => /\ entry \in Watchers /\ watch[entry].queue \in Seq(Event)
                   /\ watch'[entry].pending = watch[entry].pending
                   /\ watch'[entry].queue = IF Listening(entry) THEN watch[entry].queue \o ev
                                            ELSE watch[entry].queue
  <2>1. entry # 0 => entry \in Watchers BY TypeParts
  <2> QED BY <1>1, <2>1, QueuedType, WatchParts
<1>3. \A p, m : HasEntry(p, m) => HasEntry(p, m)' BY <1>1 DEF HasEntry
<1>4. ASSUME NEW p \in noticed, p \notin changed \cup gone PROVE Held(p)'
  <2>1. p \in Paths /\ Held(p) BY <1>4, NoticeParts DEF SyncTypeOK
  <2>2. disk'[p] = disk[p] BY <1>1, <1>4, <2>1
  <2>3. \A i \in 1..Len(ev) : ~(ev[i].path = p /\ ev[i].op = "remove") BY <1>4
  <2>4. ASSUME NEW m, entry # 0,
               Work(watch[entry].queue, watch[entry].pending, import[entry], p, m)
        PROVE  Work(watch'[entry].queue, watch'[entry].pending, import'[entry], p, m)
    <3>1. Work(watch[entry].queue \o ev, watch[entry].pending, import[entry], p, m)
      BY <1>2, <2>3, <2>4, WorkQueue
    <3> QED BY <1>1, <1>2, <2>4, <3>1
  <2> QED BY <1>1, <1>3, <2>1, <2>2, <2>4, HeldOn
<1>5. ASSUME NEW p \in changed, entry # 0 /\ watch[entry].on /\ Listening(entry) PROVE Held(p)'
  <2>1. disk'[p] # Absent BY <1>1
  <2>2. PICK m : m = disk'[p].mtime OBVIOUS
  <2>3. Work(watch[entry].queue \o ev, watch[entry].pending, import[entry], p, m)
    BY <1>2, <1>5, WorkTold
  <2>4. Work(watch'[entry].queue, watch'[entry].pending, import'[entry], p, m)
    BY <1>1, <1>2, <1>5, <2>3
  <2>5. OnItsWay(p)' BY <1>1, <1>5, <2>2, <2>4 DEF OnItsWay, Work, NoRemoval
  <2> QED BY <2>1, <2>5 DEF Held
<1>6. \A p \in noticed' :
          \/ p \in noticed /\ p \notin changed \cup gone
          \/ p \in changed /\ entry # 0 /\ watch[entry].on /\ Listening(entry)
  BY <1>1, Zenon DEF SeenBy
<1>7. \A p \in noticed' : Held(p)' BY <1>4, <1>5, <1>6
<1> QED BY <1>7, NoticeParts

LEMMA EditsHold ==
    ASSUME SyncTypeOK, StampInv, NoticeInv,
           \/ \E p \in Paths, c \in Contents : WriteLocal(p, c)
           \/ \E p \in Paths : RemoveLocal(p)
           \/ \E p, q \in Paths : RenameLocal(p, q)
    PROVE  NoticeInv'
<1> DEFINE D == [Paths -> [content : Contents, mtime : Times] \cup {Absent}]
<1>1. disk \in D /\ time \in Times BY TypeParts
<1>2. \A p \in Paths : [path |-> p, op |-> "write"] \in Event /\ [path |-> p, op |-> "remove"] \in Event
  BY DEF Event
<1>3. ASSUME NEW p \in Paths, NEW c \in Contents, WriteLocal(p, c) PROVE NoticeInv'
  <2>1. PICK d, ev, e : /\ d = [disk EXCEPT ![p] = [content |-> c, mtime |-> time]]
                        /\ e = [path |-> p, op |-> "write"] /\ ev = <<e>>
    OBVIOUS
  <2>2. d \in D /\ d[p] # Absent /\ \A q \in Paths \ {p} : d[q] = disk[q]
    <3>1. d \in D /\ d[p] = [content |-> c, mtime |-> time] /\ \A q \in Paths \ {p} : d[q] = disk[q]
      BY <1>1, <2>1
    <3>2. d[p].mtime = time /\ Absent.mtime = -1 BY <3>1 DEF Absent
    <3>3. time # -1 BY <1>1, Zero
    <3> QED BY <3>1, <3>2, <3>3
  <2>3. ev \in Seq(Event) /\ Len(ev) = 1 /\ ev[1] = e /\ e.op = "write"
    BY <1>2, <2>1, OneSeq
  <2>4. UserEdits(d, ev, {p}, {}) BY <1>3, <2>1 DEF WriteLocal
  <2>5. \A i \in 1..Len(ev) : ev[i].op # "remove" BY <2>3
  <2>6. \A q \in Paths \ ({p} \cup {}) : d[q] = disk[q] BY <2>2
  <2>7. \A q \in {p} : d[q] # Absent /\ ev[Len(ev)] = [path |-> q, op |-> "write"] BY <2>1, <2>2, <2>3
  <2>8. \A i \in 1..Len(ev) : ev[i].op = "remove" => ev[i].path \in {} BY <2>5
  <2>9. Len(ev) > 0 BY <2>3
  <2>10. PICK changed, gone : changed = {p} /\ gone = {} OBVIOUS
  <2>11. changed \in SUBSET Paths /\ gone \in SUBSET Paths /\ changed \cap gone = {} BY <2>10
  <2>12. UserEdits(d, ev, changed, gone) BY <2>4, <2>10
  <2>13. \A q \in Paths \ (changed \cup gone) : d[q] = disk[q] BY <2>6, <2>10
  <2> QED BY <2>2, <2>3, <2>7, <2>8, <2>9, <2>10, <2>11, <2>12, <2>13, EditHolds
<1>4. ASSUME NEW p \in Paths, RemoveLocal(p) PROVE NoticeInv'
  <2>1. PICK d, ev, e : /\ d = [disk EXCEPT ![p] = Absent]
                        /\ e = [path |-> p, op |-> "remove"] /\ ev = <<e>>
    OBVIOUS
  <2>2. d \in D /\ \A q \in Paths \ ({} \cup {p}) : d[q] = disk[q] BY <1>1, <2>1
  <2>3. ev \in Seq(Event) /\ Len(ev) = 1 /\ ev[1] = e /\ e.path = p
    BY <1>2, <2>1, OneSeq
  <2>4. UserEdits(d, ev, {}, {p}) BY <1>4, <2>1 DEF RemoveLocal
  <2>5. \A i \in 1..Len(ev) : ev[i].op = "remove" => ev[i].path \in {p} BY <2>3
  <2>6. Len(ev) > 0 BY <2>3
  <2>7. PICK changed, gone : changed = {} /\ gone = {p} OBVIOUS
  <2>8. changed \in SUBSET Paths /\ gone \in SUBSET Paths /\ changed \cap gone = {} BY <2>7
  <2>9. UserEdits(d, ev, changed, gone) BY <2>4, <2>7
  <2>10. \A q \in Paths \ (changed \cup gone) : d[q] = disk[q] BY <2>2, <2>7
  <2> QED BY <2>2, <2>3, <2>5, <2>6, <2>7, <2>8, <2>9, <2>10, EditHolds
<1>5. ASSUME NEW p \in Paths, NEW q \in Paths, RenameLocal(p, q) PROVE NoticeInv'
  <2>1. PICK d, ev, e, f : /\ d = [disk EXCEPT ![p] = Absent, ![q] = disk[p]]
                           /\ e = [path |-> p, op |-> "remove"] /\ f = [path |-> q, op |-> "write"]
                           /\ ev = <<e, f>>
    OBVIOUS
  <2>2. disk[p] # Absent /\ p # q /\ UserEdits(d, ev, {q}, {p}) BY <1>5, <2>1 DEF RenameLocal
  <2>3. d \in D /\ d[q] # Absent /\ \A r \in Paths \ ({q} \cup {p}) : d[r] = disk[r]
    BY <1>1, <2>1, <2>2
  <2>4. ev \in Seq(Event) /\ Len(ev) = 2 /\ ev[1] = e /\ ev[2] = f BY <1>2, <2>1, OneSeq
  <2>5. e.path = p /\ f.op = "write" BY <2>1
  <2>6. \A i \in 1..Len(ev) : i = 1 \/ i = 2 BY <2>4
  <2>7. \A i \in 1..Len(ev) : ev[i].op = "remove" => ev[i].path \in {p} BY <2>4, <2>5, <2>6
  <2>8. Len(ev) > 0 BY <2>4
  <2>9. \A r \in {q} : d[r] # Absent /\ ev[Len(ev)] = [path |-> r, op |-> "write"]
    BY <2>1, <2>3, <2>4
  <2>10. PICK changed, gone : changed = {q} /\ gone = {p} OBVIOUS
  <2>11. changed \in SUBSET Paths /\ gone \in SUBSET Paths /\ changed \cap gone = {} BY <2>2, <2>10
  <2>12. UserEdits(d, ev, changed, gone) BY <2>2, <2>10
  <2>13. \A r \in Paths \ (changed \cup gone) : d[r] = disk[r] BY <2>3, <2>10
  <2> QED BY <2>3, <2>4, <2>7, <2>8, <2>9, <2>10, <2>11, <2>12, <2>13, EditHolds
<1> QED BY <1>3, <1>4, <1>5

-----------------------------------------------------------------------------
(* The other steps.                                                         *)

LEMMA TickHolds ==
    ASSUME SyncTypeOK, NoticeInv, TickCancel \/ TickStart
    PROVE  NoticeInv'
<1>1. UNCHANGED <<disk, entries, import>> BY DEF TickCancel, TickStart, tableVars
<1>2. noticed' = {} \/ (UNCHANGED <<entry, noticed>> /\ (entry = 0 \/ watch' = watch))
  BY DEF TickCancel, TickStart
<1>3. CASE noticed' = {} BY <1>3, NoticeParts
<1>4. CASE UNCHANGED <<entry, noticed>> /\ (entry = 0 \/ watch' = watch)
  <2>1. ASSUME NEW p \in noticed PROVE Held(p)'
    <3>1. p \in Paths /\ Held(p) BY <2>1, NoticeParts DEF SyncTypeOK
    <3>2. /\ disk'[p] = disk[p]
          /\ entry # 0 => /\ watch'[entry].queue = watch[entry].queue
                          /\ watch'[entry].pending = watch[entry].pending
                          /\ import'[entry] = import[entry]
      BY <1>1, <1>4
    <3> QED BY <1>1, <1>4, <3>1, <3>2, HeldSame
  <2> QED BY <1>4, <2>1, NoticeParts
<1> QED BY <1>2, <1>3, <1>4

LEMMA WatcherHolds ==
    ASSUME SyncTypeOK, StampInv, NoticeInv, NEW g \in Watchers,
           Arm(g) \/ Leave(g) \/ TakeEvent(g) \/ \E q \in Paths : Debounce(g, q)
    PROVE  NoticeInv'
<1>1. UNCHANGED <<disk, entries, noticed>>
  BY DEF Arm, Leave, TakeEvent, Debounce, Steps, tableVars
<1>2. UNCHANGED entry BY LeaveStamp DEF Arm, TakeEvent, Debounce, Steps
<1>3. \A p, m : HasEntry(p, m) => HasEntry(p, m)' BY <1>1 DEF HasEntry
<1>4. \A h \in Watchers \ {g} : watch'[h] = watch[h] /\ import'[h] = import[h]
  <2>1. CASE Leave(g)
    <3>1. \A h \in Watchers \ {g} : watch'[h] = watch[h] BY <2>1, LeaveStamp
    <3>2. import' = import BY <2>1 DEF Leave
    <3> QED BY <3>1, <3>2
  <2>2. CASE Arm(g) \/ TakeEvent(g) \/ \E q \in Paths : Debounce(g, q)
    <3>1. PICK w : watch' = [watch EXCEPT ![g] = w] BY <2>2 DEF Arm, TakeEvent, Debounce, Steps
    <3>2. \E job : import' = import \/ import' = [import EXCEPT ![g] = job]
      BY <2>2, Zenon DEF Arm, TakeEvent, Debounce
    <3>3. DOMAIN watch = Watchers /\ DOMAIN import = Goroutines BY WatchParts
    <3>4. \A h \in Watchers \ {g} : watch'[h] = watch[h] BY <3>1, <3>3
    <3>5. \A h \in Watchers \ {g} : import'[h] = import[h] BY <3>2, <3>3 DEF Goroutines
    <3> QED BY <3>4, <3>5
  <2> QED BY <2>1, <2>2
<1>5. entry # 0 => entry \in Watchers BY TypeParts
<1>6. ASSUME NEW p \in noticed, g # entry PROVE Held(p)'
  <2>1. p \in Paths /\ Held(p) BY <1>6, NoticeParts DEF SyncTypeOK
  <2>2. entry # 0 => watch'[entry] = watch[entry] /\ import'[entry] = import[entry]
    BY <1>4, <1>5, <1>6
  <2> QED BY <1>1, <1>2, <2>1, <2>2, HeldSame
<1>7. ASSUME NEW p \in noticed, g = entry PROVE Held(p)'
  <2>1. p \in Paths /\ Held(p) /\ disk[p] # Absent BY <1>7, NoticeParts DEF SyncTypeOK, Held
  <2>2. /\ watch[g] \in WatchType /\ watch[g].queue \in Seq(Event)
        /\ watch[g].pending \in [Paths -> -1..MaxTime] /\ DOMAIN watch = Watchers
        /\ DOMAIN import = Goroutines /\ import[g] \in ImportType
    BY WatchParts
  <2>3. disk[p].mtime # -1 BY <2>1, DiskFile
  <2>4. CASE Arm(g)
    <3>1. watch'[g] = [watch[g] EXCEPT !.pc = "running"] /\ import' = import
      BY <2>2, <2>4 DEF Arm, Steps
    <3>2. watch'[g].queue = watch[g].queue /\ watch'[g].pending = watch[g].pending
      BY <2>2, <3>1 DEF WatchType
    <3> QED BY <1>1, <1>2, <1>7, <2>1, <3>1, <3>2, HeldSame
  <2>5. CASE Leave(g) BY <1>7, <2>5, LeaveStamp
  <2>6. CASE TakeEvent(g)
    <3>1. PICK e, t : e = Head(watch[g].queue) /\ t = Tail(watch[g].queue) OBVIOUS
    <3>2. e \in Event /\ t \in Seq(Event) /\ watch[g].queue # <<>> /\ import[g].pc = "none"
      <4>1. watch[g].queue # <<>> /\ import[g].pc = "none" BY <2>6 DEF TakeEvent
      <4> QED BY <2>2, <3>1, <4>1, HeadTailProperties
    <3>3. PICK rest, v : /\ rest = [watch[g] EXCEPT !.queue = t]
                         /\ v = IF e.op = "remove" THEN -1 ELSE disk[e.path].mtime
      OBVIOUS
    <3>4. PICK w : w = [rest EXCEPT !.pending[e.path] = v] OBVIOUS
    <3>5. /\ watch'[g] = IF e.op = "remove" \/ disk[e.path] # Absent THEN w ELSE rest
          /\ import' = import
      <4>1. /\ watch' = [watch EXCEPT ![g] = IF e.op = "remove" \/ disk[e.path] # Absent THEN w ELSE rest]
            /\ import' = import
        BY <2>6, <3>1, <3>3, <3>4 DEF TakeEvent, Steps
      <4> QED BY <2>2, <4>1
    <3>6. rest.queue = t /\ rest.pending = watch[g].pending BY <2>2, <3>3 DEF WatchType
    <3>7. w.queue = t /\ w.pending = [watch[g].pending EXCEPT ![e.path] = v]
      <4>1. rest \in WatchType BY <2>2, <3>2, <3>3 DEF WatchType
      <4> QED BY <3>4, <3>6, <4>1 DEF WatchType
    <3>8. watch'[g].queue = t BY <3>5, <3>6, <3>7
    <3>9. e = [path |-> p, op |-> "write"] => watch'[g].pending[p] # -1
      <4> SUFFICES ASSUME e = [path |-> p, op |-> "write"] PROVE watch'[g].pending[p] # -1
        OBVIOUS
      <4>1. e.path = p /\ e.op = "write" OBVIOUS
      <4>2. watch'[g] = w /\ v = disk[p].mtime BY <2>1, <3>3, <3>5, <4>1
      <4> QED BY <2>1, <2>2, <2>3, <3>7, <4>1, <4>2
    <3>10. e.path # p => watch'[g].pending[p] = watch[g].pending[p]
      BY <2>1, <2>2, <3>5, <3>6, <3>7
    <3>11. ASSUME NEW m, Work(watch[g].queue, watch[g].pending, import[g], p, m)
           PROVE  Work(watch'[g].queue, watch'[g].pending, import'[g], p, m)
      <4>1. PICK next : next = watch'[g].pending OBVIOUS
      <4>2. /\ e = [path |-> p, op |-> "write"] => next[p] # -1
            /\ e.path # p => next[p] = watch[g].pending[p]
        BY <3>9, <3>10, <4>1
      <4>3. Work(t, next, import[g], p, m) BY <2>1, <2>2, <3>1, <3>2, <3>11, <4>2, WorkTaken
      <4> QED BY <3>5, <3>8, <4>1, <4>3
    <3> QED BY <1>1, <1>2, <1>3, <1>7, <2>1, <3>11, HeldOn
  <2>7. ASSUME NEW q \in Paths, Debounce(g, q) PROVE Held(p)'
    <3>1. PICK seen : seen = watch[g].pending[q] OBVIOUS
    <3>2. PICK v, w : /\ v = IF disk[q] # Absent /\ disk[q].mtime # seen THEN disk[q].mtime ELSE -1
                      /\ w = [watch[g] EXCEPT !.pending[q] = v]
      OBVIOUS
    <3>3. PICK job : job = [NoImport EXCEPT !.pc = "save", !.path = q, !.mtime = seen] OBVIOUS
    <3>4. job.pc = "save" /\ job.path = q /\ job.mtime = seen BY <3>3 DEF NoImport
    <3>5. /\ watch' = [watch EXCEPT ![g] = w] /\ import[g].pc = "none"
          /\ import' = IF disk[q] # Absent /\ disk[q].mtime = seen
                       THEN [import EXCEPT ![g] = job] ELSE import
      BY <2>7, <3>1, <3>2, <3>3 DEF Debounce, Steps
    <3>6. watch'[g].queue = watch[g].queue /\ watch'[g].pending = [watch[g].pending EXCEPT ![q] = v]
      <4>1. w.queue = watch[g].queue /\ w.pending = [watch[g].pending EXCEPT ![q] = v]
        BY <2>2, <3>2 DEF WatchType
      <4>2. watch'[g] = w BY <2>2, <3>5
      <4> QED BY <4>1, <4>2
    <3>7. p # q => watch'[g].pending[p] = watch[g].pending[p] BY <2>1, <2>2, <3>6
    <3>8. p = q /\ disk[p].mtime # seen => watch'[g].pending[p] # -1
      BY <2>1, <2>2, <2>3, <3>2, <3>6
    <3>9. p = q /\ disk[p].mtime = seen
              => import'[g].pc # "none" /\ import'[g].path = p /\ import'[g].mtime = disk[p].mtime
      <4>1. g \in Goroutines BY DEF Goroutines
      <4> QED BY <2>1, <2>2, <3>4, <3>5, <4>1
    <3>10. ASSUME NEW m, m = disk[p].mtime,
                  Work(watch[g].queue, watch[g].pending, import[g], p, m)
           PROVE  Work(watch'[g].queue, watch'[g].pending, import'[g], p, m)
      BY <3>5, <3>6, <3>7, <3>8, <3>9, <3>10 DEF Work
    <3> QED BY <1>1, <1>2, <1>3, <1>7, <2>1, <3>10, HeldOn
  <2> QED BY <2>4, <2>5, <2>6, <2>7
<1>8. \A p \in noticed : Held(p)' BY <1>6, <1>7
<1> QED BY <1>1, <1>8, NoticeParts

LEMMA ImportsHold ==
    ASSUME SyncTypeOK, RowsInv, NoticeInv, NEW g \in Goroutines,
           SkipUnchanged(g) \/ Save(g) \/ Record(g) \/ ImportFails(g)
    PROVE  NoticeInv'
<1>1. UNCHANGED <<disk, entry, watch>>
  BY DEF SkipUnchanged, Save, Record, ImportFails, ImportStep
<1>2. entry # 0 => entry \in Goroutines BY TypeParts DEF Goroutines
<1>3. DOMAIN import = Goroutines /\ import[g] \in ImportType BY TypeParts
<1>4. \A p, m : HasEntry(p, m) => HasEntry(p, m)'
  <2>1. CASE entries' = entries BY <2>1 DEF HasEntry
  <2>2. CASE Record(g)
    <3>1. PICK e : entries' = Append(entries, e) BY <2>2 DEF Record
    <3>2. /\ DOMAIN entries \subseteq DOMAIN entries'
          /\ \A i \in DOMAIN entries : entries'[i] = entries[i]
      <4>1. entries \in Seq(EntryType) BY TypeParts
      <4> QED BY <3>1, <4>1
    <3> QED BY <3>2 DEF HasEntry
  <2> QED BY <2>1, <2>2 DEF SkipUnchanged, Save, ImportFails, tableVars
<1>5. noticed' \subseteq noticed BY DEF SkipUnchanged, Save, Record, ImportFails
<1>6. \A h \in Goroutines \ {g} : import'[h] = import[h]
  <2>1. \E job : import' = [import EXCEPT ![g] = job]
    BY DEF SkipUnchanged, Save, Record, ImportFails, ImportStep
  <2> QED BY <1>3, <2>1
<1>7. ASSUME NEW p \in noticed' PROVE Held(p)'
  <2>1. p \in Paths /\ Held(p) BY <1>5, <1>7, NoticeParts DEF SyncTypeOK
  <2>2. ASSUME NEW m, m = disk[p].mtime, import[g].path = p, import[g].mtime = m, import[g].pc # "none"
        PROVE  \/ HasEntry(p, m)'
               \/ import'[g].pc # "none" /\ import'[g].path = p /\ import'[g].mtime = m
    <3>1. CASE SkipUnchanged(g)
      <4>1. AlreadyImported(p, m) BY <2>2, <3>1 DEF SkipUnchanged
      <4>2. HasEntry(p, m) BY <2>1, <4>1, ImportedHasEntry
      <4> QED BY <1>4, <4>2
    <3>2. CASE Save(g)
      <4>1. PICK i : import' = [import EXCEPT ![g] = [import[g] EXCEPT !.pc = "record", !.row = i]]
        BY <3>2, SaveEffect DEF ImportStep
      <4>2. import'[g] = [import[g] EXCEPT !.pc = "record", !.row = i] BY <1>3, <4>1
      <4> QED BY <1>3, <2>2, <4>2 DEF ImportType
    <3>3. CASE Record(g)
      <4>1. PICK e : /\ e = [path |-> p, row |-> import[g].row, mtime |-> m]
                     /\ entries' = Append(entries, e)
        BY <2>2, <3>3 DEF Record
      <4>2. entries \in Seq(EntryType) BY TypeParts
      <4>3. Len(entries) + 1 \in DOMAIN entries' /\ entries'[Len(entries) + 1] = e BY <4>1, <4>2
      <4> QED BY <4>1, <4>3 DEF HasEntry
    <3>4. CASE ImportFails(g) BY <1>7, <2>2, <3>4 DEF ImportFails
    <3> QED BY <3>1, <3>2, <3>3, <3>4
  <2>3. ASSUME NEW m, entry # 0, m = disk[p].mtime,
               Work(watch[entry].queue, watch[entry].pending, import[entry], p, m)
        PROVE  HasEntry(p, m)' \/ Work(watch'[entry].queue, watch'[entry].pending, import'[entry], p, m)
    <3>1. \/ HasEntry(p, m)'
          \/ (import[entry].pc # "none" /\ import[entry].path = p /\ import[entry].mtime = m)
             => (import'[entry].pc # "none" /\ import'[entry].path = p /\ import'[entry].mtime = m)
      BY <1>2, <1>6, <2>2, <2>3
    <3>2. CASE HasEntry(p, m)' BY <3>2
    <3>3. CASE (import[entry].pc # "none" /\ import[entry].path = p /\ import[entry].mtime = m)
             => (import'[entry].pc # "none" /\ import'[entry].path = p /\ import'[entry].mtime = m)
      <4>1. PICK next : next = import'[entry] OBVIOUS
      <4>2. Work(watch[entry].queue, watch[entry].pending, next, p, m)
        BY <2>3, <3>3, <4>1, WorkSame
      <4> QED BY <1>1, <4>1, <4>2
    <3> QED BY <3>1, <3>2, <3>3
  <2> QED BY <1>1, <1>4, <2>1, <2>3, HeldOn
<1> QED BY <1>7, NoticeParts

LEMMA OtherHold ==
    ASSUME SyncTypeOK, NoticeInv,
           \/ Elapse \/ (\E on \in {0, 1} : UpdateSyncRoot(on)) \/ DeleteSyncRoot
           \/ BeginScan \/ (\E p \in Paths : ScanFile(p)) \/ EndScan \/ UNCHANGED syncVars
    PROVE  NoticeInv'
<1>1. UNCHANGED <<disk, entry, watch, entries, noticed>>
  BY DEF Elapse, UpdateSyncRoot, DeleteSyncRoot, BeginScan, ScanFile, EndScan, syncVars, tableVars
<1>2. entry # 0 => import'[entry] = import[entry]
  <2>1. import' = import \/ \E job : import' = [import EXCEPT ![Scan] = job]
    BY DEF Elapse, UpdateSyncRoot, DeleteSyncRoot, BeginScan, ScanFile, EndScan, syncVars, tableVars
  <2>2. DOMAIN import = Goroutines /\ entry \in Watchers \cup {0} BY TypeParts
  <2>3. entry # 0 => entry \in Goroutines \ {Scan} BY <2>2 DEF Goroutines, Scan
  <2> QED BY <2>1, <2>2, <2>3
<1>3. \A p \in noticed : p \in Paths /\ Held(p) BY NoticeParts DEF SyncTypeOK
<1>4. \A p \in noticed : Held(p)' BY <1>1, <1>2, <1>3, HeldSame
<1> QED BY <1>1, <1>4, NoticeParts

LEMMA NextStamps == SyncInv /\ [SyncNext]_syncVars => StampInv'
<1> SUFFICES ASSUME SyncInv, [SyncNext]_syncVars PROVE StampInv' OBVIOUS
<1>1. SyncTypeOK /\ RowsInv /\ StampInv BY DEF SyncInv, TellInv
<1>2. time \in Times /\ time <= time
  <2>1. time \in Times BY <1>1, TypeParts
  <2> QED BY <2>1, SyncAssumption DEF Times
<1>3. entry # 0 => Alive(entry) BY <1>1 DEF StampInv
<1>4. ASSUME UNCHANGED <<entry, lastTick, watch>>, time' >= time, time' \in Times,
             UNCHANGED <<enabled, updatedAt>> \/ updatedAt' = time
      PROVE  StampInv'
  <2>1. \A g \in Watchers : (Alive(g)' <=> Alive(g)) /\ watch'[g].stamp = watch[g].stamp
    BY <1>4 DEF Alive
  <2>2. \A g \in Watchers : g = entry => Alive(g)'
    <3>1. \A g \in Watchers : g = entry => entry # 0 BY Zero
    <3> QED BY <1>3, <2>1, <3>1
  <2>3. \A g \in Watchers : watch'[g].on = watch[g].on BY <1>4, Zenon
  <2>4. \A g \in Watchers : /\ Alive(g)' => Alive(g) /\ watch'[g].stamp = watch[g].stamp
                            /\ g = entry => Alive(g)' /\ watch'[g].on = watch[g].on
    BY <2>1, <2>2, <2>3, Zenon
  <2> QED BY <1>1, <1>4, <2>4, StampKeeps
<1>5. CASE UNCHANGED syncVars
  BY <1>2, <1>4, <1>5 DEF syncVars, rootVars
<1>6. ASSUME NEW d, NEW ev \in Seq(Event), NEW a, NEW b, UserEdits(d, ev, a, b) PROVE StampInv'
  <2>1. watch' = Queued(ev) /\ UNCHANGED <<time, enabled, updatedAt, lastTick, entry>>
    BY <1>6 DEF UserEdits, rootVars
  <2>2. \A g \in Watchers : (Alive(g)' <=> Alive(g)) /\ watch'[g].stamp = watch[g].stamp
    BY <1>1, <2>1, QueuedType DEF Alive
  <2>3. \A g \in Watchers : Queued(ev)[g].on = watch[g].on BY <1>1, QueuedType, Zenon
  <2>4. \A g \in Watchers : watch'[g].on = watch[g].on BY <2>1, <2>3, Zenon
  <2>5. \A g \in Watchers : g = entry => Alive(g)'
    <3>1. \A g \in Watchers : g = entry => entry # 0 BY Zero
    <3> QED BY <1>3, <2>2, <3>1
  <2>6. \A g \in Watchers : /\ Alive(g)' => Alive(g) /\ watch'[g].stamp = watch[g].stamp
                            /\ g = entry => Alive(g)' /\ watch'[g].on = watch[g].on
    BY <2>2, <2>4, <2>5, Zenon
  <2>7. time' >= time /\ time' \in Times BY <1>2, <2>1, SyncAssumption DEF Times
  <2> QED BY <1>1, <2>1, <2>6, <2>7, StampKeeps
<1>7. CASE \/ \E p \in Paths, c \in Contents : WriteLocal(p, c)
           \/ \E p \in Paths : RemoveLocal(p)
           \/ \E p, q \in Paths : RenameLocal(p, q)
  <2>1. \A p \in Paths : /\ [path |-> p, op |-> "write"] \in Event
                         /\ [path |-> p, op |-> "remove"] \in Event
    BY DEF Event
  <2>2. PICK d, ev, a, b : UserEdits(d, ev, a, b) /\ ev \in Seq(Event)
    <3>1. ASSUME NEW p \in Paths, NEW c \in Contents, WriteLocal(p, c)
          PROVE  \E d, ev, a, b : UserEdits(d, ev, a, b) /\ ev \in Seq(Event)
      <4>1. PICK ev : ev = <<[path |-> p, op |-> "write"]>> OBVIOUS
      <4>2. ev \in Seq(Event) BY <2>1, <4>1, OneSeq
      <4> QED BY <3>1, <4>1, <4>2 DEF WriteLocal
    <3>2. ASSUME NEW p \in Paths, RemoveLocal(p)
          PROVE  \E d, ev, a, b : UserEdits(d, ev, a, b) /\ ev \in Seq(Event)
      <4>1. PICK ev : ev = <<[path |-> p, op |-> "remove"]>> OBVIOUS
      <4>2. ev \in Seq(Event) BY <2>1, <4>1, OneSeq
      <4> QED BY <3>2, <4>1, <4>2 DEF RemoveLocal
    <3>3. ASSUME NEW p \in Paths, NEW q \in Paths, RenameLocal(p, q)
          PROVE  \E d, ev, a, b : UserEdits(d, ev, a, b) /\ ev \in Seq(Event)
      <4>1. PICK ev : ev = <<[path |-> p, op |-> "remove"], [path |-> q, op |-> "write"]>> OBVIOUS
      <4>2. ev \in Seq(Event) BY <2>1, <4>1, OneSeq
      <4> QED BY <3>3, <4>1, <4>2 DEF RenameLocal
    <3> QED BY <1>7, <3>1, <3>2, <3>3
  <2> QED BY <1>6, <2>2
<1>8. CASE Elapse \/ (\E on \in {0, 1} : UpdateSyncRoot(on)) \/ DeleteSyncRoot
  <2>1. time' >= time /\ time' \in Times
    BY <1>2, <1>8, SyncAssumption DEF Elapse, UpdateSyncRoot, DeleteSyncRoot, Times
  <2> QED BY <1>4, <1>8, <2>1 DEF Elapse, UpdateSyncRoot, DeleteSyncRoot, rootVars
<1>9. CASE TickCancel \/ TickStart BY <1>1, <1>9, TickStamp
<1>10. ASSUME NEW g \in Watchers, Leave(g) PROVE StampInv' BY <1>1, <1>10, LeaveStamp
<1>11. ASSUME NEW g \in Watchers, Arm(g) \/ TakeEvent(g) \/ \E p \in Paths : Debounce(g, p)
       PROVE  StampInv'
  <2>1. watch[g] \in WatchType BY <1>1, WatchParts
  <2>2. Alive(g) BY <1>11 DEF Arm, TakeEvent, Debounce, Alive
  <2>3. CASE Arm(g)
    <3>1. PICK w : w = [watch[g] EXCEPT !.pc = "running"] OBVIOUS
    <3>2. w.pc = "running" /\ w.stamp = watch[g].stamp BY <2>1, <3>1 DEF WatchType
    <3>3. w.on = watch[g].on BY <2>1, <3>1, Zenon DEF WatchType
    <3>4. Steps(g, w) BY <2>3, <3>1 DEF Arm
    <3> QED BY <1>1, <2>2, <3>2, <3>3, <3>4, StepsStamp
  <2>4. CASE TakeEvent(g)
    <3>1. PICK rest : rest = [watch[g] EXCEPT !.queue = Tail(watch[g].queue)] OBVIOUS
    <3>2. PICK e, v : /\ e = Head(watch[g].queue)
                      /\ v = IF e.op = "remove" THEN -1 ELSE disk[e.path].mtime
      OBVIOUS
    <3>3. PICK new : new = [rest EXCEPT !.pending[e.path] = v] OBVIOUS
    <3>4. PICK w : w = IF e.op = "remove" \/ disk[e.path] # Absent THEN new ELSE rest OBVIOUS
    <3>5. Steps(g, w) /\ watch[g].pc = "running" BY <2>4, <3>1, <3>2, <3>3, <3>4 DEF TakeEvent
    <3>6. rest.pc = "running" /\ rest.stamp = watch[g].stamp /\ "on" \in DOMAIN rest
      BY <2>1, <3>1, <3>5 DEF WatchType
    <3>7. rest.on = watch[g].on BY <2>1, <3>1, Zenon DEF WatchType
    <3>8. w.pc = "running" /\ w.stamp = watch[g].stamp
      <4>1. new.pc = rest.pc /\ new.stamp = rest.stamp
        <5>1. DOMAIN rest = {"pc", "on", "stamp", "queue", "pending"} BY <2>1, <3>1 DEF WatchType
        <5> QED BY <3>3, <5>1
      <4> QED BY <3>4, <3>6, <4>1
    <3>9. w.on = watch[g].on
      <4>1. new.on = rest.on BY <3>3, <3>6, Zenon
      <4> QED BY <3>4, <3>7, <4>1, Zenon
    <3> QED BY <1>1, <2>2, <3>5, <3>8, <3>9, StepsStamp
  <2>5. ASSUME NEW p \in Paths, Debounce(g, p) PROVE StampInv'
    <3>1. PICK v : v = IF disk[p] # Absent /\ disk[p].mtime # watch[g].pending[p]
                       THEN disk[p].mtime ELSE -1
      OBVIOUS
    <3>2. PICK w : w = [watch[g] EXCEPT !.pending[p] = v] OBVIOUS
    <3>3. Steps(g, w) /\ watch[g].pc = "running" BY <2>5, <3>1, <3>2 DEF Debounce
    <3>4. w.pc = "running" /\ w.stamp = watch[g].stamp BY <2>1, <3>2, <3>3 DEF WatchType
    <3>5. w.on = watch[g].on BY <2>1, <3>2, Zenon DEF WatchType
    <3> QED BY <1>1, <2>2, <3>3, <3>4, <3>5, StepsStamp
  <2> QED BY <1>11, <2>3, <2>4, <2>5
<1>12. CASE BeginScan \/ (\E p \in Paths : ScanFile(p)) \/ EndScan
  <2>1. time' >= time /\ time' \in Times
    BY <1>2, <1>12, SyncAssumption DEF BeginScan, ScanFile, EndScan, Times
  <2> QED BY <1>4, <1>12, <2>1 DEF BeginScan, ScanFile, EndScan
<1>13. ASSUME NEW g \in Goroutines, SkipUnchanged(g) \/ Save(g) \/ Record(g) \/ ImportFails(g)
       PROVE  StampInv'
  <2>1. time' >= time /\ time' \in Times
    BY <1>2, <1>13, SyncAssumption DEF SkipUnchanged, Save, Record, ImportFails, ImportStep, Times
  <2> QED BY <1>4, <1>13, <2>1 DEF SkipUnchanged, Save, Record, ImportFails, ImportStep, rootVars
<1> QED
  BY <1>5, <1>7, <1>8, <1>9, <1>10, <1>11, <1>12, <1>13 DEF SyncNext, Goroutines

LEMMA NextNotices == SyncInv /\ [SyncNext]_syncVars => NoticeInv'
<1> SUFFICES ASSUME SyncInv, [SyncNext]_syncVars PROVE NoticeInv' OBVIOUS
<1>1. SyncTypeOK /\ RowsInv /\ StampInv /\ NoticeInv BY DEF SyncInv, TellInv
<1>2. CASE \/ \E p \in Paths, c \in Contents : WriteLocal(p, c)
           \/ \E p \in Paths : RemoveLocal(p)
           \/ \E p, q \in Paths : RenameLocal(p, q)
  BY <1>1, <1>2, EditsHold
<1>3. CASE TickCancel \/ TickStart BY <1>1, <1>3, TickHolds
<1>4. ASSUME NEW g \in Watchers, Arm(g) \/ Leave(g) \/ TakeEvent(g) \/ \E q \in Paths : Debounce(g, q)
      PROVE  NoticeInv'
  BY <1>1, <1>4, WatcherHolds
<1>5. ASSUME NEW g \in Goroutines, SkipUnchanged(g) \/ Save(g) \/ Record(g) \/ ImportFails(g)
      PROVE  NoticeInv'
  BY <1>1, <1>5, ImportsHold
<1>6. CASE \/ Elapse \/ (\E on \in {0, 1} : UpdateSyncRoot(on)) \/ DeleteSyncRoot
           \/ BeginScan \/ (\E p \in Paths : ScanFile(p)) \/ EndScan \/ UNCHANGED syncVars
  BY <1>1, <1>6, OtherHold
<1> QED BY <1>2, <1>3, <1>4, <1>5, <1>6 DEF SyncNext, Goroutines

LEMMA InitStamps == SyncInit => StampInv /\ NoticeInv
<1> SUFFICES ASSUME SyncInit PROVE StampInv /\ NoticeInv OBVIOUS
<1>1. \A g \in Watchers : ~Alive(g) BY DEF SyncInit, Alive, NoWatch
<1> QED BY <1>1 DEF SyncInit, StampInv, NoticeInv

(* The inductive invariant of the synced folders holds.                     *)
THEOREM SyncInvariantHolds == SyncSpec => []SyncInv
<1>1. SyncInit => SyncInv BY InitTells, InitStamps DEF SyncInv
<1>2. SyncInv /\ [SyncNext]_syncVars => SyncInv'
  BY NextTells, NextStamps, NextNotices DEF SyncInv
<1> QED BY <1>1, <1>2, PTL DEF SyncSpec

(* Every variable keeps its type: no import writes a row that is not there, *)
(* no event or mtime is made up.                                            *)
THEOREM SyncTypeCorrect == SyncSpec => []SyncTypeOK
<1>1. TellInv => SyncTypeOK BY DEF TellInv
<1> QED BY <1>1, SyncTellsTheTruth, PTL

(* An entry that carries the mtime the file has stands for the content the  *)
(* file has, but for files retouched under their mtime.                     *)
THEOREM EntriesAreTrue == SyncSpec => []EntriesTellTheContent
<1>1. TellInv => EntriesTellTheContent BY DEF TellInv
<1> QED BY <1>1, SyncTellsTheTruth, PTL

(* A change the registered watcher was told of is in its queue, its table,  *)
(* its import, or an entry carries the file's mtime: whatever the ticks,    *)
(* the other watchers and the edits do in between.                          *)
THEOREM NoticedIsNotLost == SyncSpec => []NoticedChangesArrive
<1>1. SyncInv => NoticedChangesArrive
  <2> SUFFICES ASSUME SyncInv, NEW p \in noticed
               PROVE  \/ HasEntry(p, disk[p].mtime)
                      \/ \E g \in Watchers :
                            /\ g = entry
                            /\ \/ \E i \in DOMAIN watch[g].queue : watch[g].queue[i].path = p
                               \/ watch[g].pending[p] # -1
                               \/ import[g].path = p /\ import[g].mtime = disk[p].mtime
    BY DEF NoticedChangesArrive
  <2>1. SyncTypeOK /\ Held(p) BY NoticeParts DEF SyncInv, TellInv
  <2>2. CASE HasEntry(p, disk[p].mtime) BY <2>2
  <2>3. CASE OnItsWay(p)
    <3>1. entry \in Watchers BY <2>1, <2>3, TypeParts DEF OnItsWay
    <3>2. DOMAIN watch[entry].queue = 1..Len(watch[entry].queue)
      <4>1. watch[entry].queue \in Seq(Event) BY <2>1, <3>1, WatchParts
      <4> QED BY <4>1, LenProperties
    <3> QED BY <2>3, <3>1, <3>2 DEF OnItsWay, Work
  <2> QED BY <2>1, <2>2, <2>3 DEF Held
<1> QED BY <1>1, SyncInvariantHolds, PTL

=============================================================================

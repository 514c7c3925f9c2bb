-------------------------- MODULE DriveFilesProofs --------------------------
(***************************************************************************)
(* Proofs about DriveFiles, for every value of its constants: its type     *)
(* invariant, and the inductive invariant Durability with what it implies. *)
(*                                                                         *)
(* Why the bytes survive.  Passes, readers and cleaners act on what they   *)
(* read some steps ago, so no step can be justified by the state it runs   *)
(* in alone.  What never changes back is "a whole version is recorded, or  *)
(* the row is deleted" (Backed): the invariant says that whoever stands    *)
(* before a step that takes bytes away stands there for a backed file.     *)
(*                                                                         *)
(* What a single pass adds.  Two passes that list the same file tear its   *)
(* newest version and take its label back: core_two_passes and             *)
(* torn_version show both.  With one pass at a time an item in work is     *)
(* nobody else's, and OnePassInv says what the pass knows of it.  The      *)
(* theorems that need this assume it: \A p, q \in Passes : p = q.          *)
(***************************************************************************)
EXTENDS DriveFiles, TLAPS

-----------------------------------------------------------------------------
(* Types.                                                                   *)

(* Each part of the type invariant is kept by a step that leaves its        *)
(* variables alone.                                                         *)
LEMMA TypeFrames ==
    /\ DbType /\ UNCHANGED dbVars => DbType'
    /\ DiskType /\ UNCHANGED diskVars => DiskType'
    /\ AgentType /\ UNCHANGED agentVars => AgentType'
    /\ CallType /\ UNCHANGED callVars => CallType'
    /\ PassType /\ UNCHANGED passVars => PassType'
    /\ ReaderType /\ UNCHANGED readerVars => ReaderType'
    /\ CleanerType /\ UNCHANGED cleanerVars => CleanerType'
BY DEF DbType, DiskType, AgentType, CallType, PassType, ReaderType, CleanerType,
       dbVars, diskVars, agentVars, callVars, passVars, readerVars, cleanerVars

(* An UPDATE of one row leaves a table of rows.                             *)
LEMMA UpdateRowType ==
    ASSUME DbType, NEW f \in Files, NEW r \in Row, UpdateRow(f, r)
    PROVE  row' \in [Files -> Row]
BY DEF DbType, UpdateRow

(* So does markSyncState,                                                   *)
LEMMA MarkSyncStateType ==
    ASSUME DbType, NEW f \in Files, NEW s \in SyncStates, MarkSyncState(f, s)
    PROVE  row' \in [Files -> Row]
BY DEF DbType, UpdateRow, MarkSyncState, Row

(* so does the eviction's UPDATE of local_path,                             *)
LEMMA ForgetPathType ==
    ASSUME DbType, NEW f \in Files, ForgetPath(f)
    PROVE  row' \in [Files -> Row]
<1>1. [row[f] EXCEPT !.path = "none"] \in Row
  BY DEF DbType, Row
<1> QED
  BY <1>1 DEF DbType, UpdateRow, ForgetPath

(* and so does a restore's.                                                 *)
LEMMA SetLocalPathType ==
    ASSUME DbType, NEW f \in Files, NEW path \in {"cache", "source"},
           SetLocalPath(f, path, "restored_cache")
    PROVE  row' \in [Files -> Row]
<1>1. [row[f] EXCEPT !.path = path, !.origin = "restored_cache"] \in Row
  BY DEF DbType, Row, Origins
<1> QED
  BY <1>1 DEF DbType, UpdateRow, SetLocalPath

(* updateTransfer leaves a table of transfers.                              *)
LEMMA UpdateTransferType ==
    ASSUME DbType, NEW f \in Files, NEW s \in {"queued", "syncing_telegram", "failed", "completed"},
           UpdateTransfer(f, s)
    PROVE  transfer' \in [Files -> {"none", "queued", "syncing_telegram", "failed", "completed"}]
BY DEF DbType, UpdateTransfer

(* An item names a file and a place.                                        *)
LEMMA ItemId == \A i \in Items : i.id \in Files /\ i.path \in {"cache", "source"}
BY DEF Items

(* Every step of the agent keeps the type invariant: one step of the proof  *)
(* per action.                                                              *)
LEMMA TypeStep == TypeOK /\ [Next]_vars => TypeOK'
<1> SUFFICES ASSUME TypeOK, [Next]_vars PROVE TypeOK'
  OBVIOUS
<1> USE TypeFrames DEF TypeOK
<1>1. ASSUME NEW f \in Files, UploadBegin(f) PROVE TypeOK'
  BY <1>1 DEF UploadBegin, DiskType, CallType, SaveGoto, OnDisk, Save
<1>2. ASSUME NEW f \in Files, UploadBody(f) PROVE TypeOK'
  BY <1>2 DEF UploadBody, DiskType, CallType, SaveGoto, OnDisk, Save
<1>3. ASSUME NEW f \in Files, ImportBegin(f) PROVE TypeOK'
  BY <1>3 DEF ImportBegin, CallType, Save
<1>4. ASSUME NEW f \in Files, SaveDuplicate(f) PROVE TypeOK'
  <2>1. PICK g \in Files : save' = [save EXCEPT ![f] = [@ EXCEPT !.pc = "duplicate", !.dup = g]]
    BY <1>4 DEF SaveDuplicate, Twins
  <2>2. CallType'
    BY <1>4, <2>1 DEF SaveDuplicate, CallType, Save
  <2> QED
    BY <1>4, <2>2 DEF SaveDuplicate, DiskType, OnDisk
<1>5. ASSUME NEW f \in Files, SaveLookup(f) PROVE TypeOK'
  BY <1>5 DEF SaveLookup, CallType, SaveGoto, Save
<1>6. ASSUME NEW f \in Files, SaveInsert(f) PROVE TypeOK'
  BY <1>6
     DEF SaveInsert, DbType, CallType, SaveGoto, NewRow, Save, Row, Statuses, SyncStates,
         Origins
<1>7. ASSUME NEW f \in Files, SaveAbort(f) PROVE TypeOK'
  BY <1>7 DEF SaveAbort, CallType, SaveGoto, Save
<1>8. ASSUME NEW f \in Files, DeleteRows(f) PROVE TypeOK'
  BY <1>8 DEF DeleteRows, DbType, CallType, NoRow, Del, Row, Statuses, SyncStates, Origins
<1>9. ASSUME NEW f \in Files, DeleteFails(f) PROVE TypeOK'
  BY <1>9 DEF DeleteFails, CallType, NewDel, Del
<1>10. ASSUME NEW f \in Files, DeleteUnlink(f) PROVE TypeOK'
  BY <1>10 DEF DeleteUnlink, DiskType, CallType, NewDel, Del, Write, OnDisk, diskVars
<1>11. ASSUME NEW f \in Files, DeleteBegin(f) PROVE TypeOK'
  BY <1>11 DEF DeleteBegin, DbType, CallType, Del, Row, dbVars
<1>12. ASSUME NEW f \in Files, TrashFile(f) PROVE TypeOK'
  BY <1>12 DEF TrashFile, DbType, Row, Statuses
<1>13. ASSUME NEW f \in Files, RestoreFile(f) PROVE TypeOK'
  BY <1>13 DEF RestoreFile, DbType, Row, Statuses
<1>14. ASSUME NEW f \in Files, RetryWindowElapses(f) PROVE TypeOK'
  BY <1>14 DEF RetryWindowElapses, AgentType
<1>15. ASSUME NEW f \in Files, TransferExpires(f) PROVE TypeOK'
  BY <1>15 DEF TransferExpires, DbType
<1>16. ASSUME NEW f \in Files, RemoveSource(f) PROVE TypeOK'
  BY <1>16 DEF RemoveSource, DiskType, OnDisk
<1>17. ASSUME NEW p \in Passes, PassBegin(p) PROVE TypeOK'
  BY <1>17, ItemId
     DEF PassBegin, DbType, PassType, Pending, IsPending, DefaultPath, Goto, Items, PassPCs,
         dbVars
<1>18. ASSUME NEW p \in Passes, PassTake(p) PROVE TypeOK'
  BY <1>18, ItemId DEF PassTake, PassType, PassPCs
<1>19. ASSUME NEW p \in Passes, PassEnd(p) PROVE TypeOK'
  BY <1>19, ItemId DEF PassEnd, PassType, Goto, PassPCs
<1>20. ASSUME NEW p \in Passes, PassStat(p) PROVE TypeOK'
  BY <1>20, ItemId DEF PassStat, PassType, Goto, PassPCs
<1>21. ASSUME NEW p \in Passes, PassMissing(p) PROVE TypeOK'
  BY <1>21, MarkSyncStateType, ItemId DEF PassMissing, DbType, PassType, Goto, PassPCs, SyncStates
<1>22. ASSUME NEW p \in Passes, PassMissingTransfer(p) PROVE TypeOK'
  BY <1>22, UpdateTransferType, ItemId
     DEF PassMissingTransfer, DbType, AgentType, PassType, NextItem, PassPCs
<1>23. ASSUME NEW p \in Passes, PassMark(p) PROVE TypeOK'
  BY <1>23, MarkSyncStateType, ItemId
     DEF PassMark, DbType, PassType, Goto, NextItem, PassPCs, SyncStates
<1>24. ASSUME NEW p \in Passes, PassProgress(p) PROVE TypeOK'
  BY <1>24, UpdateTransferType, ItemId DEF PassProgress, DbType, PassType, Goto, PassPCs
<1>25. ASSUME NEW p \in Passes, PassUpload(p) PROVE TypeOK'
  BY <1>25, ItemId DEF PassUpload, PassType, Goto, PassPCs, Payloads
<1>26. ASSUME NEW p \in Passes, PassUploadFails(p) PROVE TypeOK'
  BY <1>26, ItemId DEF PassUploadFails, PassType, Goto, PassPCs
<1>27. ASSUME NEW p \in Passes, PassFailed(p) PROVE TypeOK'
  BY <1>27, MarkSyncStateType, ItemId DEF PassFailed, DbType, PassType, Goto, PassPCs, SyncStates
<1>28. ASSUME NEW p \in Passes, PassFailedTransfer(p) PROVE TypeOK'
  BY <1>28, UpdateTransferType, ItemId
     DEF PassFailedTransfer, DbType, AgentType, PassType, NextItem, PassPCs
<1>29. ASSUME NEW p \in Passes, PassRecord(p) PROVE TypeOK'
  BY <1>29, MarkSyncStateType, ItemId
     DEF PassRecord, DbType, PassType, Goto, PassPCs, RecordTelegramVersion, SyncStates
<1>30. ASSUME NEW p \in Passes, PassDone(p) PROVE TypeOK'
  BY <1>30, UpdateTransferType, ItemId DEF PassDone, DbType, AgentType, PassType, Goto, PassPCs
<1>31. ASSUME NEW p \in Passes, PassEvict(p) PROVE TypeOK'
  BY <1>31, ItemId DEF PassEvict, PassType, Goto, NextItem, PassPCs
<1>32. ASSUME NEW p \in Passes, PassEvictRemove(p) PROVE TypeOK'
  <2>1. DiskType'
    BY <1>32, ItemId DEF PassEvictRemove, DiskType, OnDisk
  <2>2. PassType'
    BY <1>32, ItemId DEF PassEvictRemove, PassType, Goto, NextItem, PassPCs
  <2> QED
    BY <1>32, <2>1, <2>2 DEF PassEvictRemove
<1>33. ASSUME NEW p \in Passes, PassEvictClear(p) PROVE TypeOK'
  BY <1>33, ForgetPathType, ItemId DEF PassEvictClear, DbType, PassType, NextItem, PassPCs
<1>34. ASSUME NEW p \in Passes, Disconnect(p) PROVE TypeOK'
  BY <1>34, ItemId DEF Disconnect, PassType
<1>35. ASSUME NEW r \in Readers, NEW f \in Files, ReaderOpen(r, f) PROVE TypeOK'
  BY <1>35
     DEF ReaderOpen, ReaderType, ReaderGoto, ReaderPCs, GetFile, SafeRestorePath, DefaultPath,
         Items
<1>36. ASSUME NEW r \in Readers, ReaderVersion(r) PROVE TypeOK'
  BY <1>36, ItemId DEF ReaderVersion, DbType, ReaderType, ReaderGoto, ReaderPCs, dbVars
<1>37. ASSUME NEW r \in Readers, ReaderLeave(r) PROVE TypeOK'
  BY <1>37, ItemId DEF ReaderLeave, ReaderType, ReaderGoto, ReaderPCs
<1>38. ASSUME NEW r \in Readers, ReaderDownload(r) PROVE TypeOK'
  BY <1>38, ItemId
     DEF ReaderDownload, DiskType, AgentType, ReaderType, ReaderGoto, ReaderPCs, Write, OnDisk
<1>39. ASSUME NEW r \in Readers, ReaderFetched(r) PROVE TypeOK'
  BY <1>39, ItemId
     DEF ReaderFetched, DiskType, AgentType, ReaderType, ReaderGoto, ReaderPCs, Write, OnDisk
<1>40. ASSUME NEW r \in Readers, ReaderBreaksOff(r) PROVE TypeOK'
  BY <1>40, ItemId DEF ReaderBreaksOff, AgentType, ReaderType, ReaderGoto, ReaderPCs
<1>41. ASSUME NEW r \in Readers, ReaderRelabel(r) PROVE TypeOK'
  BY <1>41, SetLocalPathType, ItemId DEF ReaderRelabel, DbType, ReaderType, ReaderGoto, ReaderPCs
<1>42. ASSUME NEW c \in Cleaners, CleanerBegin(c) PROVE TypeOK'
  BY <1>42 DEF CleanerBegin, Cleanable, CleanerType
<1>43. ASSUME NEW c \in Cleaners, CleanerRemove(c) PROVE TypeOK'
  BY <1>43 DEF CleanerRemove, DiskType, CleanerType, OnDisk
<1>44. ASSUME NEW c \in Cleaners, CleanerClear(c) PROVE TypeOK'
  BY <1>44, ForgetPathType DEF CleanerClear, DbType, CleanerType
<1>45. ASSUME NEW c \in Cleaners, CleanerEnd(c) PROVE TypeOK'
  BY <1>45 DEF CleanerEnd, CleanerType
<1>48. ASSUME NEW mode \in Policies, SetCachePolicy(mode) PROVE TypeOK'
  BY <1>48 DEF SetCachePolicy, CleanerType
<1>49. ASSUME TogglePause PROVE TypeOK'
  BY <1>49 DEF TogglePause, AgentType
<1>46. ASSUME Crash PROVE TypeOK'
  <2>1. DbType' /\ DiskType'
    BY <1>46 DEF Crash
  <2>2. AgentType'
    BY <1>46 DEF Crash, AgentType
  <2>3. CallType'
    BY <1>46 DEF Crash, CallType, Save, NewDel, Del
  <2>4. PassType'
    BY <1>46 DEF Crash, PassType, PassPCs
  <2>5. ReaderType' /\ CleanerType'
    BY <1>46 DEF Crash, ReaderType, ReaderPCs, CleanerType
  <2> QED
    BY <2>1, <2>2, <2>3, <2>4, <2>5
<1>47. ASSUME UNCHANGED vars PROVE TypeOK'
  BY <1>47 DEF vars
<1> HIDE TypeFrames DEF TypeOK
<1>a. ASSUME NEW f \in Files, FileStep(f) PROVE TypeOK'
  BY <1>a, <1>1, <1>2, <1>3, <1>4, <1>5, <1>6, <1>7, <1>8, <1>9, <1>10, <1>11, <1>12, <1>13,
     <1>14, <1>15, <1>16
     DEF FileStep, SaveStep, DeleteStep
<1>b. ASSUME NEW p \in Passes, PassBegin(p) \/ PassStep(p) \/ Disconnect(p) PROVE TypeOK'
  BY <1>b, <1>17, <1>18, <1>19, <1>20, <1>21, <1>22, <1>23, <1>24, <1>25, <1>26, <1>27, <1>28,
     <1>29, <1>30, <1>31, <1>32, <1>33, <1>34
     DEF PassStep
<1>c. ASSUME NEW r \in Readers, (\E f \in Files : ReaderOpen(r, f)) \/ ReaderStep(r) PROVE TypeOK'
  BY <1>c, <1>35, <1>36, <1>37, <1>38, <1>39, <1>40, <1>41 DEF ReaderStep
<1>d. ASSUME NEW c \in Cleaners, CleanerBegin(c) \/ CleanerStep(c) PROVE TypeOK'
  BY <1>d, <1>42, <1>43, <1>44, <1>45 DEF CleanerStep
<1> QED
  BY <1>a, <1>b, <1>c, <1>d, <1>46, <1>47, <1>48, <1>49 DEF Next

-----------------------------------------------------------------------------
(* Durability.                                                              *)

(* The step keeps every row's existence and every recorded version.         *)
Kept ==
    \A f \in Files :
        /\ row'[f].status = "absent" <=> row[f].status = "absent"
        /\ Exists(f)' <=> Exists(f)
        /\ versions[f] \subseteq versions'[f]

(* A step that keeps rows and versions keeps what is backed.                *)
LEMMA KeptBacked ==
    ASSUME TypeOK, TypeOK', Kept
    PROVE  \A f \in Files : Backed(f) => Backed(f)'
BY DEF TypeOK, DbType, Row, Statuses, Kept, Backed, Exists

(* What passes, readers and cleaners may rely on survives a step of         *)
(* somebody else that makes no row absent and keeps what is backed.         *)
LEMMA ActorFrames ==
    ASSUME TypeOK, Durability,
           \A f \in Files : /\ row[f].status # "absent" => row'[f].status # "absent"
                            /\ Backed(f) => Backed(f)'
    PROVE  /\ UNCHANGED passVars => PassInv'
           /\ UNCHANGED readerVars => ReaderInv'
           /\ UNCHANGED cleanerVars => CleanerInv'
<1>1. ASSUME UNCHANGED passVars PROVE PassInv'
  BY <1>1 DEF passVars, PassInv, Durability, TypeOK, PassType, Items
<1>2. ASSUME UNCHANGED readerVars PROVE ReaderInv'
  BY <1>2 DEF readerVars, ReaderInv, Durability, TypeOK, ReaderType, Items
<1>3. ASSUME UNCHANGED cleanerVars PROVE CleanerInv'
  BY <1>3 DEF cleanerVars, CleanerInv, Durability, TypeOK, CleanerType
<1> QED
  BY <1>1, <1>2, <1>3

(* The parts of the invariant whose own variables a row-keeping step leaves *)
(* alone.                                                                   *)
LEMMA KeptFrames ==
    ASSUME TypeOK, TypeOK', Durability, Kept
    PROVE  /\ UNCHANGED passVars => PassInv'
           /\ UNCHANGED readerVars => ReaderInv'
           /\ UNCHANGED cleanerVars => CleanerInv'
           /\ UNCHANGED <<diskVars, save>> => DiskInv'
           /\ UNCHANGED <<callVars, cache>> => CallInv'
<1>1. \A f \in Files : Backed(f) => Backed(f)'
  BY KeptBacked
<1>2. ASSUME UNCHANGED <<diskVars, save>> PROVE DiskInv'
  BY <1>1, <1>2 DEF DiskInv, Durability, diskVars, Kept
<1>3. ASSUME UNCHANGED <<callVars, cache>> PROVE CallInv'
  BY <1>3, TypeOK, TypeOK'
     DEF CallInv, Durability, callVars, Kept, TypeOK, DbType, Row, Statuses, Exists
<1> QED
  BY <1>1, <1>2, <1>3, ActorFrames DEF Kept

(* A step that leaves the database alone keeps its part of the invariant,   *)
LEMMA SameDb ==
    ASSUME TypeOK, Durability, UNCHANGED dbVars
    PROVE  Kept /\ RowInv'
BY DEF Durability, RowInv, Backed, Kept, Exists, dbVars

(* and one that also leaves disk and calls alone keeps all but its own      *)
(* actor's.                                                                 *)
LEMMA SameData ==
    ASSUME TypeOK, TypeOK', Durability, UNCHANGED <<dbVars, diskVars, callVars>>
    PROVE  /\ RowInv' /\ DiskInv' /\ CallInv'
           /\ UNCHANGED passVars => PassInv'
           /\ UNCHANGED readerVars => ReaderInv'
           /\ UNCHANGED cleanerVars => CleanerInv'
BY SameDb, KeptFrames DEF diskVars, callVars

(* An UPDATE that does not set the label telegram_synced keeps the          *)
(* database's part.                                                         *)
LEMMA RowUpdate ==
    ASSUME TypeOK, Durability, NEW f \in Files, NEW r \in Row, UpdateRow(f, r),
           r.status = row[f].status,
           r.state = "telegram_synced" => r.state = row[f].state,
           UNCHANGED <<versions, latest, transfer>>
    PROVE  Kept /\ RowInv'
<1>1. Kept
  BY DEF TypeOK, DbType, UpdateRow, Kept, Exists
<1>2. RowInv'
  BY DEF TypeOK, DbType, UpdateRow, Durability, RowInv, Backed, Exists
<1> QED
  BY <1>1, <1>2

(* So does markSyncState with any label but telegram_synced,                *)
LEMMA MarkUpdate ==
    ASSUME TypeOK, Durability, NEW f \in Files, NEW s \in SyncStates \ {"telegram_synced"},
           MarkSyncState(f, s), UNCHANGED <<versions, latest, transfer>>
    PROVE  Kept /\ RowInv'
<1> DEFINE r == [row[f] EXCEPT !.state = s]
<1>1. r \in Row /\ r.status = row[f].status /\ r.state = s
  BY DEF TypeOK, DbType, Row
<1> QED
  BY <1>1, RowUpdate DEF MarkSyncState

(* so do the UPDATEs of local_path,                                         *)
LEMMA PathUpdate ==
    ASSUME TypeOK, Durability, NEW f \in Files, UNCHANGED <<versions, latest, transfer>>
    PROVE  /\ ForgetPath(f) => Kept /\ RowInv'
           /\ \A path \in {"cache", "source"} :
                  SetLocalPath(f, path, "restored_cache") => Kept /\ RowInv'
<1>1. ASSUME ForgetPath(f) PROVE Kept /\ RowInv'
  <2> DEFINE r == [row[f] EXCEPT !.path = "none"]
  <2>1. r \in Row /\ r.status = row[f].status /\ r.state = row[f].state
    BY DEF TypeOK, DbType, Row
  <2> QED
    BY <1>1, <2>1, RowUpdate DEF ForgetPath
<1>2. ASSUME NEW path \in {"cache", "source"}, SetLocalPath(f, path, "restored_cache")
      PROVE  Kept /\ RowInv'
  <2> DEFINE r == [row[f] EXCEPT !.path = path, !.origin = "restored_cache"]
  <2>1. r \in Row /\ r.status = row[f].status /\ r.state = row[f].state
    BY DEF TypeOK, DbType, Row, Origins
  <2> QED
    BY <1>2, <2>1, RowUpdate DEF SetLocalPath
<1> QED
  BY <1>1, <1>2

(* and so does updateTransfer, if a transfer is completed for a backed file *)
(* only.                                                                    *)
LEMMA TransferUpdate ==
    ASSUME TypeOK, Durability, NEW f \in Files,
           NEW s \in {"syncing_telegram", "failed", "completed"},
           s = "completed" => Backed(f),
           UpdateTransfer(f, s), UNCHANGED <<row, versions, latest>>
    PROVE  Kept /\ RowInv'
<1>1. Kept
  BY DEF Kept, Exists
<1>2. RowInv'
  BY DEF TypeOK, DbType, Row, Statuses, UpdateTransfer, Durability, RowInv, Backed, Exists
<1> QED
  BY <1>1, <1>2

(* What a pass finds partial at a path, a restore left there: a whole       *)
(* version is recorded.                                                     *)
LEMMA PartialBacked ==
    ASSUME TypeOK, Durability
    PROVE  \A i \in Items : row[i.id].status # "absent" /\ At(i) = "partial" => Backed(i.id)
BY ItemId DEF Durability, DiskInv, At

(* Writing or removing a copy of a backed file, in uploads/ or in the       *)
(* synced folder, keeps the disk's part.                                    *)
LEMMA WriteBacked ==
    ASSUME TypeOK, Durability, NEW f \in Files, NEW c \in OnDisk,
           row[f].status # "absent", Backed(f), UNCHANGED <<dbVars, callVars>>,
           \/ cache' = [cache EXCEPT ![f] = c] /\ UNCHANGED source
           \/ source' = [source EXCEPT ![f] = c] /\ UNCHANGED cache
    PROVE  DiskInv' /\ CallInv'
<1>1. DiskInv'
  BY DEF Durability, DiskInv, TypeOK, DiskType, Backed, Exists, dbVars, callVars
<1>2. CallInv'
  BY DEF Durability, CallInv, TypeOK, DiskType, Exists, dbVars, callVars
<1> QED
  BY <1>1, <1>2

(* A pass moves on within its item,                                         *)
LEMMA PassGoto ==
    ASSUME TypeOK, TypeOK', Durability, Kept, NEW p \in Passes, NEW l,
           pc[p] \notin {"idle", "next"}, Goto(p, l), UNCHANGED <<queue, payload>>,
           l \in {"report", "record"} /\ payload[p] = "torn" => Backed(item[p].id),
           l \in {"done", "evict", "evict_remove"} => Backed(item[p].id)'
    PROVE  PassInv'
BY KeptBacked, ItemId
   DEF Goto, Kept, PassInv, Durability, TypeOK, PassType

(* or goes on to the next item.                                             *)
LEMMA PassNext ==
    ASSUME TypeOK, TypeOK', Durability, Kept, NEW p \in Passes, NextItem(p),
           UNCHANGED <<queue, payload>>
    PROVE  PassInv'
BY KeptBacked, ItemId
   DEF NextItem, Kept, PassInv, Durability, TypeOK, PassType

(* A reader moves on.                                                       *)
LEMMA ReaderMoves ==
    ASSUME TypeOK, TypeOK', Durability, Kept, NEW r \in Readers, NEW l,
           rpc[r] # "idle", ReaderGoto(r, l), UNCHANGED ritem,
           l \in {"download", "fetching"} => Backed(ritem[r].id)
    PROVE  ReaderInv'
BY KeptBacked, ItemId
   DEF ReaderGoto, Kept, ReaderInv, Durability, TypeOK, ReaderType

(* recordTelegramVersion keeps the database's part and leaves the file      *)
(* backed: a torn payload is only ever recorded beside a whole one.         *)
LEMMA RecordUpdate ==
    ASSUME TypeOK, Durability, NEW p \in Passes, NEW f, f = item[p].id, pc[p] = "record",
           RecordTelegramVersion(p), UNCHANGED transfer
    PROVE  Kept /\ RowInv' /\ Backed(f)'
<1>1. f \in Files /\ row[f].status # "absent" /\ payload[p] \in Payloads
  BY ItemId DEF TypeOK, PassType, Durability, PassInv
<1>2. payload[p] = "whole" \/ Backed(f)
  BY <1>1 DEF Durability, PassInv, Payloads
<1>3. /\ \A g \in Files : row'[g].status = row[g].status
      /\ \A g \in Files : row'[g].state = row[g].state \/ g = f
  BY <1>1 DEF RecordTelegramVersion, MarkSyncState, UpdateRow, TypeOK, DbType, Row
<1>4. Kept
  BY <1>1, <1>3 DEF Kept, Exists, RecordTelegramVersion, TypeOK, DbType
<1>5. /\ versions'[f] = versions[f] \cup {payload[p]} /\ latest'[f] = payload[p]
      /\ \A g \in Files \ {f} : versions'[g] = versions[g] /\ latest'[g] = latest[g]
  BY <1>1 DEF RecordTelegramVersion, TypeOK, DbType
<1>6. Backed(f)'
  BY <1>1, <1>2, <1>3, <1>5 DEF Backed
<1>7. Exists(f)' => "whole" \in versions'[f]
  BY <1>1, <1>6 DEF Backed, Exists
<1>8. RowInv'
  <2> SUFFICES ASSUME NEW g \in Files
               PROVE  /\ row'[g].status = "absent" => versions'[g] = {}
                      /\ ~Exists(g)' => transfer'[g] = "none"
                      /\ versions'[g] # {} => Backed(g)'
                      /\ latest'[g] # "none" => versions'[g] # {}
                      /\ Exists(g)' /\ row'[g].state = "telegram_synced"
                            => "whole" \in versions'[g]
                      /\ transfer'[g] = "completed" => versions'[g] # {}
    BY DEF RowInv
  <2>1. CASE g = f
    BY <2>1, <1>1, <1>3, <1>5, <1>6, <1>7 DEF Durability, RowInv, Exists
  <2>2. CASE g # f
    BY <2>2, <1>3, <1>5 DEF Durability, RowInv, Exists, Backed
  <2> QED
    BY <2>1, <2>2
<1> QED
  BY <1>4, <1>6, <1>8

(* Every step of the agent keeps the inductive invariant: one step of the   *)
(* proof per action, and under it one for each part the action can disturb. *)
LEMMA DurabilityStep == TypeOK /\ TypeOK' /\ Durability /\ [Next]_vars => Durability'
<1> SUFFICES ASSUME TypeOK, TypeOK', Durability, [Next]_vars PROVE Durability'
  OBVIOUS

<1>1. ASSUME NEW f \in Files, UploadBegin(f) PROVE Durability'
  <2>1. DiskInv'
    BY <1>1
       DEF UploadBegin, DiskInv, CallInv, Durability, TypeOK, DiskType, CallType, Save,
           SaveGoto, dbVars, Exists, Backed, diskVars
  <2>2. CallInv'
    BY <1>1
       DEF UploadBegin, CallInv, Durability, TypeOK, DiskType, CallType, Save, SaveGoto, dbVars,
           Exists, diskVars
  <2> QED
    BY <1>1, <2>1, <2>2, SameDb, KeptFrames DEF UploadBegin, Durability
<1>2. ASSUME NEW f \in Files, UploadBody(f) PROVE Durability'
  <2>1. DiskInv'
    BY <1>2
       DEF UploadBody, DiskInv, CallInv, Durability, TypeOK, DiskType, CallType, Save, SaveGoto,
           dbVars, Exists, Backed, diskVars
  <2>2. CallInv'
    BY <1>2
       DEF UploadBody, CallInv, Durability, TypeOK, DiskType, CallType, Save, SaveGoto, dbVars,
           Exists, diskVars
  <2> QED
    BY <1>2, <2>1, <2>2, SameDb, KeptFrames DEF UploadBody, Durability
<1>3. ASSUME NEW f \in Files, ImportBegin(f) PROVE Durability'
  <2>1. DiskInv'
    BY <1>3
       DEF ImportBegin, DiskInv, CallInv, Durability, TypeOK, DiskType, CallType, Save,
           SaveGoto, dbVars, Exists, Backed, diskVars
  <2>2. CallInv'
    BY <1>3
       DEF ImportBegin, CallInv, Durability, TypeOK, DiskType, CallType, Save, SaveGoto, dbVars,
           Exists, diskVars
  <2> QED
    BY <1>3, <2>1, <2>2, SameDb, KeptFrames DEF ImportBegin, Durability
<1>4. ASSUME NEW f \in Files, SaveDuplicate(f) PROVE Durability'
  <2>1. PICK g \in Files : save' = [save EXCEPT ![f] = [@ EXCEPT !.pc = "duplicate", !.dup = g]]
    BY <1>4 DEF SaveDuplicate, Twins
  <2>2. DiskInv'
    BY <1>4, <2>1
       DEF SaveDuplicate, DiskInv, CallInv, Durability, TypeOK, DiskType, CallType, Save,
           SaveGoto, dbVars, Exists, Backed, diskVars
  <2>3. CallInv'
    BY <1>4, <2>1
       DEF SaveDuplicate, CallInv, Durability, TypeOK, DiskType, CallType, Save, SaveGoto,
           dbVars, Exists, diskVars
  <2> QED
    BY <1>4, <2>2, <2>3, SameDb, KeptFrames DEF SaveDuplicate, Durability
<1>5. ASSUME NEW f \in Files, SaveLookup(f) PROVE Durability'
  <2>1. DiskInv'
    BY <1>5
       DEF SaveLookup, DiskInv, CallInv, Durability, TypeOK, DiskType, CallType, Save, SaveGoto,
           dbVars, Exists, Backed, diskVars
  <2>2. CallInv'
    BY <1>5
       DEF SaveLookup, CallInv, Durability, TypeOK, DiskType, CallType, Save, SaveGoto, dbVars,
           Exists, diskVars
  <2> QED
    BY <1>5, <2>1, <2>2, SameDb, KeptFrames DEF SaveLookup, Durability
<1>6. ASSUME NEW f \in Files, SaveInsert(f) PROVE Durability'
  <2>1. row[f].status = "absent" /\ versions[f] = {} /\ source[f] # "partial" /\ transfer[f] = "none"
    BY <1>6 DEF SaveInsert, Durability, CallInv, RowInv, DiskInv, Backed, Exists
  <2>2. /\ NewRow(f).status = "live" /\ NewRow(f).state # "telegram_synced"
        /\ row' = [row EXCEPT ![f] = NewRow(f)] /\ UNCHANGED <<versions, latest>>
        /\ save[f].pc = "insert" /\ save' = [save EXCEPT ![f].pc = "stored"]
        /\ UNCHANGED <<cache, source, del, passVars, readerVars, cleanerVars>>
    BY <1>6 DEF SaveInsert, NewRow, SaveGoto, diskVars
  <2>3. \A g \in Files : /\ row[g].status # "absent" => row'[g].status # "absent"
                         /\ Backed(g) => Backed(g)'
    BY <2>1, <2>2 DEF Backed, TypeOK, DbType
  <2>4. RowInv'
    BY <1>6, <2>1, <2>2 DEF SaveInsert, RowInv, Durability, Backed, Exists, TypeOK, DbType
  <2>5. DiskInv'
    BY <2>1, <2>2 DEF DiskInv, CallInv, Durability, Backed, Exists, TypeOK, DbType, CallType, Save
  <2>6. CallInv'
    BY <2>1, <2>2 DEF CallInv, Durability, Exists, TypeOK, DbType, CallType, Save
  <2> QED
    BY <2>2, <2>3, <2>4, <2>5, <2>6, ActorFrames DEF Durability
<1>7. ASSUME NEW f \in Files, SaveAbort(f) PROVE Durability'
  <2>1. DiskInv'
    BY <1>7
       DEF SaveAbort, DiskInv, CallInv, Durability, TypeOK, DiskType, CallType, Save, SaveGoto,
           dbVars, Exists, Backed, diskVars
  <2>2. CallInv'
    BY <1>7
       DEF SaveAbort, CallInv, Durability, TypeOK, DiskType, CallType, Save, SaveGoto, dbVars,
           Exists, diskVars
  <2> QED
    BY <1>7, <2>1, <2>2, SameDb, KeptFrames DEF SaveAbort, Durability
<1>8. ASSUME NEW f \in Files, DeleteRows(f) PROVE Durability'
  <2>1. Exists(f) /\ save[f].pc = "stored"
    BY <1>8 DEF DeleteRows, Durability, CallInv, Exists
  <2>2. /\ row'[f].status = "deleted" /\ \A g \in Files \ {f} : row'[g] = row[g]
        /\ versions' = [versions EXCEPT ![f] = {}] /\ latest' = [latest EXCEPT ![f] = "none"]
        /\ transfer' = [transfer EXCEPT ![f] = "none"] /\ del' = [del EXCEPT ![f].pc = "unlink"]
        /\ UNCHANGED <<cache, source, save, passVars, readerVars, cleanerVars>>
    BY <1>8 DEF DeleteRows, NoRow, diskVars, TypeOK, DbType
  <2>3. \A g \in Files : /\ row[g].status # "absent" => row'[g].status # "absent"
                         /\ Backed(g) => Backed(g)'
    BY <2>2 DEF Backed, TypeOK, DbType
  <2>4. RowInv'
    BY <2>2 DEF RowInv, Durability, Backed, Exists, TypeOK, DbType
  <2>5. DiskInv'
    BY <2>2 DEF DiskInv, Durability, Backed, Exists, TypeOK, DbType
  <2>6. CallInv'
    BY <2>1, <2>2 DEF CallInv, Durability, Exists, TypeOK, CallType, Del
  <2> QED
    BY <2>2, <2>3, <2>4, <2>5, <2>6, ActorFrames DEF Durability
<1>9. ASSUME NEW f \in Files, DeleteFails(f) PROVE Durability'
  <2>1. CallInv'
    BY <1>9
       DEF DeleteFails, NewDel, CallInv, Durability, TypeOK, CallType, Del, dbVars, Exists,
           diskVars
  <2> QED
    BY <1>9, <2>1, SameDb, KeptFrames DEF DeleteFails, Durability
<1>10. ASSUME NEW f \in Files, DeleteUnlink(f) PROVE Durability'
  <2>1. row[f].status = "deleted" /\ save[f].pc = "stored" /\ Backed(f)
    BY <1>10 DEF DeleteUnlink, Durability, CallInv, Backed
  <2>2. DiskInv'
    BY <1>10, <2>1
       DEF DeleteUnlink, Write, DiskInv, Durability, TypeOK, DiskType, dbVars, Exists, Backed,
           diskVars
  <2>3. CallInv'
    BY <1>10, <2>1
       DEF DeleteUnlink, Write, NewDel, CallInv, Durability, TypeOK, DiskType, CallType, Del,
           dbVars, Exists, diskVars
  <2> QED
    BY <1>10, <2>2, <2>3, SameDb, KeptFrames DEF DeleteUnlink, Durability
<1>11. ASSUME NEW f \in Files, DeleteBegin(f) PROVE Durability'
  <2>1. CallInv'
    BY <1>11
       DEF DeleteBegin, NewDel, CallInv, Durability, TypeOK, CallType, Del, dbVars, Exists,
           diskVars
  <2> QED
    BY <1>11, <2>1, SameDb, KeptFrames DEF DeleteBegin, Durability
<1>12. ASSUME NEW f \in Files, TrashFile(f) PROVE Durability'
  <2>1. Kept
    BY <1>12 DEF TrashFile, Live, Kept, Exists, TypeOK, DbType, Row
  <2>2. RowInv'
    BY <1>12 DEF TrashFile, Live, RowInv, Durability, Backed, Exists, TypeOK, DbType, Row
  <2> QED
    BY <1>12, <2>1, <2>2, KeptFrames DEF TrashFile, Durability, diskVars, callVars
<1>13. ASSUME NEW f \in Files, RestoreFile(f) PROVE Durability'
  <2>1. Kept
    BY <1>13 DEF RestoreFile, Live, Kept, Exists, TypeOK, DbType, Row
  <2>2. RowInv'
    BY <1>13 DEF RestoreFile, Live, RowInv, Durability, Backed, Exists, TypeOK, DbType, Row
  <2> QED
    BY <1>13, <2>1, <2>2, KeptFrames DEF RestoreFile, Durability, diskVars, callVars
<1>14. ASSUME NEW f \in Files, RetryWindowElapses(f) PROVE Durability'
  BY <1>14, SameData DEF RetryWindowElapses, Durability
<1>15. ASSUME NEW f \in Files, TransferExpires(f) PROVE Durability'
  <2>1. Kept
    BY <1>15 DEF TransferExpires, Kept, Exists
  <2>2. RowInv'
    BY <1>15 DEF TransferExpires, RowInv, Durability, Backed, Exists, TypeOK, DbType
  <2> QED
    BY <1>15, <2>1, <2>2, KeptFrames DEF TransferExpires, Durability, diskVars, callVars
<1>16. ASSUME NEW f \in Files, RemoveSource(f) PROVE Durability'
  <2>1. DiskInv'
    BY <1>16
       DEF RemoveSource, DiskInv, Durability, TypeOK, DiskType, dbVars, callVars, Exists, Backed
  <2> QED
    BY <1>16, <2>1, SameDb, KeptFrames DEF RemoveSource, Durability
<1>17. ASSUME NEW p \in Passes, PassBegin(p) PROVE Durability'
  <2>1. PassInv'
    BY <1>17, ItemId
       DEF PassBegin, Pending, IsPending, Live, DefaultPath, Goto, PassInv, Durability, TypeOK,
           PassType, dbVars, Backed
  <2> QED
    BY <1>17, <2>1, SameData DEF PassBegin, Durability
<1>18. ASSUME NEW p \in Passes, PassTake(p) PROVE Durability'
  <2>1. PassInv'
    BY <1>18, ItemId
       DEF PassTake, Goto, NextItem, PassInv, Durability, TypeOK, PassType, dbVars, Backed
  <2> QED
    BY <1>18, <2>1, SameData DEF PassTake, Durability
<1>19. ASSUME NEW p \in Passes, PassEnd(p) PROVE Durability'
  <2>1. PassInv'
    BY <1>19, ItemId
       DEF PassEnd, Goto, NextItem, PassInv, Durability, TypeOK, PassType, dbVars, Backed
  <2> QED
    BY <1>19, <2>1, SameData DEF PassEnd, Durability
<1>20. ASSUME NEW p \in Passes, PassStat(p) PROVE Durability'
  <2>1. PassInv'
    BY <1>20, ItemId
       DEF PassStat, Goto, NextItem, PassInv, Durability, TypeOK, PassType, dbVars, Backed
  <2> QED
    BY <1>20, <2>1, SameData DEF PassStat, Durability
<1>21. ASSUME NEW p \in Passes, PassMissing(p) PROVE Durability'
  <2>1. Kept /\ RowInv'
    BY <1>21, MarkUpdate, SameDb, ItemId DEF PassMissing, TypeOK, PassType, SyncStates, dbVars
  <2>2. PassInv'
    BY <1>21, <2>1, PassGoto DEF PassMissing
  <2> QED
    BY <1>21, <2>1, <2>2, KeptFrames DEF PassMissing, Durability, diskVars, callVars
<1>22. ASSUME NEW p \in Passes, PassMissingTransfer(p) PROVE Durability'
  <2>1. Kept /\ RowInv'
    BY <1>22, TransferUpdate, SameDb, ItemId DEF PassMissingTransfer, TypeOK, PassType, dbVars
  <2>2. PassInv'
    BY <1>22, <2>1, PassNext DEF PassMissingTransfer
  <2> QED
    BY <1>22, <2>1, <2>2, KeptFrames DEF PassMissingTransfer, Durability, diskVars, callVars
<1>23. ASSUME NEW p \in Passes, PassMark(p) PROVE Durability'
  <2>1. Kept /\ RowInv'
    BY <1>23, MarkUpdate, SameDb, ItemId DEF PassMark, TypeOK, PassType, SyncStates, dbVars
  <2>2. PassInv'
    BY <1>23, <2>1, PassGoto, PassNext DEF PassMark
  <2> QED
    BY <1>23, <2>1, <2>2, KeptFrames DEF PassMark, Durability, diskVars, callVars
<1>24. ASSUME NEW p \in Passes, PassProgress(p) PROVE Durability'
  <2>1. Kept /\ RowInv'
    BY <1>24, TransferUpdate, SameDb, ItemId DEF PassProgress, TypeOK, PassType, dbVars
  <2>2. PassInv'
    BY <1>24, <2>1, PassGoto DEF PassProgress, Durability, PassInv, TypeOK, PassType
  <2> QED
    BY <1>24, <2>1, <2>2, KeptFrames DEF PassProgress, Durability, diskVars, callVars
<1>25. ASSUME NEW p \in Passes, PassUpload(p) PROVE Durability'
  <2>1. payload'[p] = "torn" => Backed(item[p].id)
    BY <1>25, PartialBacked, ItemId
       DEF PassUpload, At, Durability, PassInv, TypeOK, PassType, DiskType, OnDisk
  <2>2. PassInv'
    BY <1>25, <2>1, ItemId
       DEF PassUpload, Goto, PassInv, Durability, TypeOK, PassType, dbVars, Backed
  <2> QED
    BY <1>25, <2>2, SameData DEF PassUpload, Durability
<1>26. ASSUME NEW p \in Passes, PassUploadFails(p) PROVE Durability'
  <2>1. PassInv'
    BY <1>26, ItemId
       DEF PassUploadFails, Goto, NextItem, PassInv, Durability, TypeOK, PassType, dbVars,
           Backed
  <2> QED
    BY <1>26, <2>1, SameData DEF PassUploadFails, Durability
<1>27. ASSUME NEW p \in Passes, PassFailed(p) PROVE Durability'
  <2>1. Kept /\ RowInv'
    BY <1>27, MarkUpdate, SameDb, ItemId DEF PassFailed, TypeOK, PassType, SyncStates, dbVars
  <2>2. PassInv'
    BY <1>27, <2>1, PassGoto DEF PassFailed
  <2> QED
    BY <1>27, <2>1, <2>2, KeptFrames DEF PassFailed, Durability, diskVars, callVars
<1>28. ASSUME NEW p \in Passes, PassFailedTransfer(p) PROVE Durability'
  <2>1. Kept /\ RowInv'
    BY <1>28, TransferUpdate, SameDb, ItemId DEF PassFailedTransfer, TypeOK, PassType, dbVars
  <2>2. PassInv'
    BY <1>28, <2>1, PassNext DEF PassFailedTransfer
  <2> QED
    BY <1>28, <2>1, <2>2, KeptFrames DEF PassFailedTransfer, Durability, diskVars, callVars
<1>29. ASSUME NEW p \in Passes, PassRecord(p) PROVE Durability'
  <2>1. CASE RecordTelegramVersion(p) /\ Goto(p, "done")
    <3>1. Kept /\ RowInv' /\ Backed(item[p].id)'
      BY <1>29, <2>1, RecordUpdate DEF PassRecord, Goto
    <3>2. PassInv'
      BY <1>29, <2>1, <3>1, PassGoto DEF PassRecord
    <3> QED
      BY <1>29, <3>1, <3>2, KeptFrames DEF PassRecord, Durability, diskVars, callVars
  <2>2. CASE UNCHANGED <<row, versions, latest>> /\ Goto(p, "failed")
    <3>1. Kept /\ RowInv'
      BY <1>29, <2>2, SameDb DEF PassRecord, dbVars
    <3>2. PassInv'
      BY <1>29, <2>2, <3>1, PassGoto DEF PassRecord
    <3> QED
      BY <1>29, <3>1, <3>2, KeptFrames DEF PassRecord, Durability, diskVars, callVars
  <2> QED
    BY <1>29, <2>1, <2>2 DEF PassRecord
<1>30. ASSUME NEW p \in Passes, PassDone(p) PROVE Durability'
  <2>0. Backed(item[p].id)
    BY <1>30 DEF PassDone, Durability, PassInv
  <2>1. Kept /\ RowInv'
    BY <1>30, <2>0, TransferUpdate, SameDb, ItemId DEF PassDone, TypeOK, PassType, dbVars
  <2>b. Backed(item[p].id)'
    BY <1>30, <2>0, <2>1, KeptBacked, ItemId DEF PassDone, Goto, TypeOK, PassType
  <2>2. PassInv'
    BY <1>30, <2>0, <2>1, PassGoto, <2>b DEF PassDone
  <2> QED
    BY <1>30, <2>1, <2>2, KeptFrames DEF PassDone, Durability, diskVars, callVars
<1>31. ASSUME NEW p \in Passes, PassEvict(p) PROVE Durability'
  <2>1. PassInv'
    BY <1>31, ItemId
       DEF PassEvict, Goto, NextItem, PassInv, Durability, TypeOK, PassType, dbVars, Backed
  <2> QED
    BY <1>31, <2>1, SameData DEF PassEvict, Durability
<1>32. ASSUME NEW p \in Passes, PassEvictRemove(p) PROVE Durability'
  <2>1. item[p].id \in Files /\ row[item[p].id].status # "absent" /\ Backed(item[p].id)
    BY <1>32, ItemId DEF PassEvictRemove, Durability, PassInv, TypeOK, PassType
  <2>2. DiskInv' /\ CallInv'
    <3>1. CASE UNCHANGED cache
      BY <1>32, <3>1, SameData DEF PassEvictRemove, Durability, diskVars
    <3> QED
      BY <1>32, <2>1, <3>1, WriteBacked DEF PassEvictRemove, OnDisk
  <2>3. Kept /\ RowInv'
    BY <1>32, SameDb DEF PassEvictRemove
  <2>4. PassInv'
    BY <1>32, <2>3, PassGoto, PassNext DEF PassEvictRemove
  <2> QED
    BY <1>32, <2>2, <2>3, <2>4, KeptFrames DEF PassEvictRemove, Durability
<1>33. ASSUME NEW p \in Passes, PassEvictClear(p) PROVE Durability'
  <2>1. Kept /\ RowInv'
    BY <1>33, PathUpdate, SameDb, ItemId DEF PassEvictClear, TypeOK, PassType, SyncStates, dbVars
  <2>2. PassInv'
    BY <1>33, <2>1, PassNext DEF PassEvictClear
  <2> QED
    BY <1>33, <2>1, <2>2, KeptFrames DEF PassEvictClear, Durability, diskVars, callVars
<1>34. ASSUME NEW p \in Passes, Disconnect(p) PROVE Durability'
  <2>1. PassInv'
    BY <1>34, ItemId
       DEF Disconnect, Goto, NextItem, PassInv, Durability, TypeOK, PassType, dbVars, Backed
  <2> QED
    BY <1>34, <2>1, SameData DEF Disconnect, Durability
<1>35. ASSUME NEW r \in Readers, NEW f \in Files, ReaderOpen(r, f) PROVE Durability'
  <2>1. ReaderInv'
    BY <1>35, ItemId
       DEF ReaderOpen, ReaderGoto, GetFile, SafeRestorePath, DefaultPath, ReaderInv, RowInv,
           Durability, TypeOK, ReaderType, Live, dbVars, Backed
  <2> QED
    BY <1>35, <2>1, SameData DEF ReaderOpen, Durability, agentVars
<1>36. ASSUME NEW r \in Readers, ReaderVersion(r) PROVE Durability'
  <2>1. ReaderInv'
    BY <1>36, ItemId
       DEF ReaderVersion, ReaderGoto, GetFile, SafeRestorePath, DefaultPath, ReaderInv, RowInv,
           Durability, TypeOK, ReaderType, Live, dbVars, Backed
  <2> QED
    BY <1>36, <2>1, SameData DEF ReaderVersion, Durability, agentVars
<1>37. ASSUME NEW r \in Readers, ReaderLeave(r) PROVE Durability'
  <2>1. ReaderInv'
    BY <1>37, ItemId
       DEF ReaderLeave, ReaderGoto, GetFile, SafeRestorePath, DefaultPath, ReaderInv, RowInv,
           Durability, TypeOK, ReaderType, Live, dbVars, Backed
  <2> QED
    BY <1>37, <2>1, SameData DEF ReaderLeave, Durability, agentVars
<1>38. ASSUME NEW r \in Readers, ReaderDownload(r) PROVE Durability'
  <2>1. ritem[r].id \in Files /\ row[ritem[r].id].status # "absent" /\ Backed(ritem[r].id)
    BY <1>38, ItemId DEF ReaderDownload, Durability, ReaderInv, TypeOK, ReaderType
  <2>2. DiskInv' /\ CallInv'
    BY <1>38, <2>1, WriteBacked DEF ReaderDownload, Write, OnDisk
  <2>3. Kept /\ RowInv'
    BY <1>38, SameDb DEF ReaderDownload
  <2>4. ReaderInv'
    BY <1>38, <2>1, <2>3, ReaderMoves DEF ReaderDownload
  <2> QED
    BY <1>38, <2>2, <2>3, <2>4, KeptFrames DEF ReaderDownload, Durability
<1>39. ASSUME NEW r \in Readers, ReaderFetched(r) PROVE Durability'
  <2>1. ritem[r].id \in Files /\ row[ritem[r].id].status # "absent" /\ Backed(ritem[r].id)
    BY <1>39, ItemId DEF ReaderFetched, Durability, ReaderInv, TypeOK, ReaderType
  <2>2. DiskInv' /\ CallInv'
    BY <1>39, <2>1, WriteBacked DEF ReaderFetched, Write, OnDisk
  <2>3. Kept /\ RowInv'
    BY <1>39, SameDb DEF ReaderFetched
  <2>4. ReaderInv'
    BY <1>39, <2>1, <2>3, ReaderMoves DEF ReaderFetched
  <2> QED
    BY <1>39, <2>2, <2>3, <2>4, KeptFrames DEF ReaderFetched, Durability
<1>40. ASSUME NEW r \in Readers, ReaderBreaksOff(r) PROVE Durability'
  <2>1. ReaderInv'
    BY <1>40, ItemId
       DEF ReaderBreaksOff, ReaderGoto, GetFile, SafeRestorePath, DefaultPath, ReaderInv,
           RowInv, Durability, TypeOK, ReaderType, Live, dbVars, Backed
  <2> QED
    BY <1>40, <2>1, SameData DEF ReaderBreaksOff, Durability, agentVars
<1>41. ASSUME NEW r \in Readers, ReaderRelabel(r) PROVE Durability'
  <2>1. Kept /\ RowInv'
    BY <1>41, PathUpdate, SameDb, ItemId DEF ReaderRelabel, TypeOK, ReaderType, dbVars
  <2>2. ReaderInv'
    BY <1>41, <2>1, ReaderMoves DEF ReaderRelabel
  <2> QED
    BY <1>41, <2>1, <2>2, KeptFrames DEF ReaderRelabel, Durability, diskVars, callVars
<1>42. ASSUME NEW c \in Cleaners, CleanerBegin(c) PROVE Durability'
  <2>1. CleanerInv'
    BY <1>42
       DEF CleanerBegin, Cleanable, CleanerInv, RowInv, Durability, TypeOK, CleanerType, Live,
           Exists, Backed, dbVars
  <2> QED
    BY <1>42, <2>1, SameData DEF CleanerBegin, Durability
<1>43. ASSUME NEW c \in Cleaners, CleanerRemove(c) PROVE Durability'
  <2>1. PICK f \in cqueue[c] :
            /\ cqueue' = [cqueue EXCEPT ![c] = @ \ {f}]
            /\ cache' = [cache EXCEPT ![f] = "absent"] \/ UNCHANGED cache
    BY <1>43 DEF CleanerRemove
  <2>2. f \in Files /\ row[f].status # "absent" /\ Backed(f)
    BY DEF Durability, CleanerInv, TypeOK, CleanerType
  <2>3. DiskInv' /\ CallInv'
    BY <1>43, <2>1, <2>2, WriteBacked, SameDb, KeptFrames
       DEF CleanerRemove, OnDisk, diskVars, callVars
  <2>4. CleanerInv'
    BY <1>43, <2>1 DEF CleanerRemove, CleanerInv, Durability, TypeOK, CleanerType, Backed, dbVars
  <2> QED
    BY <1>43, <2>3, <2>4, SameDb, KeptFrames DEF CleanerRemove, Durability
<1>44. ASSUME NEW c \in Cleaners, CleanerClear(c) PROVE Durability'
  <2>1. Kept /\ RowInv'
    BY <1>44, PathUpdate, SameDb DEF CleanerClear, TypeOK, CleanerType, dbVars
  <2>2. CleanerInv'
    BY <1>44, <2>1, KeptBacked DEF CleanerClear, Kept, CleanerInv, Durability, TypeOK, CleanerType
  <2> QED
    BY <1>44, <2>1, <2>2, KeptFrames DEF CleanerClear, Durability, diskVars, callVars
<1>45. ASSUME NEW c \in Cleaners, CleanerEnd(c) PROVE Durability'
  <2>1. CleanerInv'
    BY <1>45
       DEF CleanerEnd, CleanerInv, RowInv, Durability, TypeOK, CleanerType, Live, Exists,
           Backed, dbVars
  <2> QED
    BY <1>45, <2>1, SameData DEF CleanerEnd, Durability
<1>48. ASSUME NEW mode \in Policies, SetCachePolicy(mode) PROVE Durability'
  <2>1. CleanerInv'
    BY <1>48 DEF SetCachePolicy, CleanerInv, Durability, Backed, dbVars
  <2> QED
    BY <1>48, <2>1, SameData DEF SetCachePolicy, Durability
<1>49. ASSUME TogglePause PROVE Durability'
  BY <1>49, SameData DEF TogglePause, Durability
<1>46. ASSUME Crash PROVE Durability'
  <2>1. CallInv'
    BY <1>46
       DEF Crash, NewDel, CallInv, Durability, TypeOK, CallType, Save, dbVars, diskVars, Exists
  <2>2. DiskInv'
    BY <1>46
       DEF Crash, DiskInv, Durability, TypeOK, CallType, Save, dbVars, diskVars, Exists, Backed
  <2>3. PassInv' /\ ReaderInv' /\ CleanerInv'
    BY <1>46 DEF Crash, PassInv, ReaderInv, CleanerInv
  <2> QED
    BY <1>46, <2>1, <2>2, <2>3, SameDb DEF Crash, Durability
<1>47. ASSUME UNCHANGED vars PROVE Durability'
  BY <1>47, SameData DEF vars, Durability
<1>a. ASSUME NEW f \in Files, FileStep(f) PROVE Durability'
  BY <1>a, <1>1, <1>2, <1>3, <1>4, <1>5, <1>6, <1>7, <1>8, <1>9, <1>10, <1>11, <1>12, <1>13,
     <1>14, <1>15, <1>16
     DEF FileStep, SaveStep, DeleteStep
<1>b. ASSUME NEW p \in Passes, PassBegin(p) \/ PassStep(p) \/ Disconnect(p) PROVE Durability'
  BY <1>b, <1>17, <1>18, <1>19, <1>20, <1>21, <1>22, <1>23, <1>24, <1>25, <1>26, <1>27, <1>28,
     <1>29, <1>30, <1>31, <1>32, <1>33, <1>34
     DEF PassStep
<1>c. ASSUME NEW r \in Readers, (\E f \in Files : ReaderOpen(r, f)) \/ ReaderStep(r)
      PROVE  Durability'
  BY <1>c, <1>35, <1>36, <1>37, <1>38, <1>39, <1>40, <1>41 DEF ReaderStep
<1>d. ASSUME NEW c \in Cleaners, CleanerBegin(c) \/ CleanerStep(c) PROVE Durability'
  BY <1>d, <1>42, <1>43, <1>44, <1>45 DEF CleanerStep
<1> QED
  BY <1>a, <1>b, <1>c, <1>d, <1>46, <1>47, <1>48, <1>49 DEF Next

(* The type invariant holds in every reachable state, for any numbers of    *)
(* files, passes, readers and cleaners, any cache policy and any events.    *)
THEOREM TypeCorrect == Spec => []TypeOK
<1>0. Init => AgentType
  <2>1. Init => /\ retry \in [Files -> {"none", "closed", "elapsed"}]
                /\ client \in Readers \cup {None}
    BY DEF Init
  <2>2. Init => paused \in BOOLEAN
    BY Zenon DEF Init
  <2> QED
    BY <2>1, <2>2 DEF AgentType
<1>1. Init => TypeOK
  BY <1>0, ConstantsAssumption
     DEF Init, TypeOK, DbType, DiskType, CallType, PassType, ReaderType, CleanerType,
         Row, NoRow, Save, NewSave, Del, NewDel, Statuses, SyncStates, Origins, OnDisk, Payloads,
         PassPCs, ReaderPCs
<1> QED
  BY <1>1, TypeStep, PTL DEF Spec

(* So does the inductive invariant of the bytes' life.                      *)
THEOREM DurabilityHolds == Spec => []Durability
<1>1. Init => RowInv
  BY DEF Init, RowInv, NoRow, Exists
<1>2. Init => DiskInv
  BY DEF Init, DiskInv, NoRow, Exists
<1>3. Init => CallInv
  BY DEF Init, CallInv, NoRow, NewSave, NewDel, Exists
<1>4. Init => PassInv /\ ReaderInv /\ CleanerInv
  BY DEF Init, PassInv, ReaderInv, CleanerInv
<1> QED
  BY <1>1, <1>2, <1>3, <1>4, TypeCorrect, DurabilityStep, PTL DEF Spec, Durability

(* No interleaving of passes, downloads, evictions, trash, crashes and      *)
(* failures ever leaves the row of an uploaded file without whole bytes in  *)
(* uploads/ or in a recorded message.                                       *)
THEOREM BytesSurvive == Spec => []BytesSomewhere
<1>1. Durability => BytesSomewhere
  BY DEF Durability, DiskInv, BytesSomewhere
<1> QED
  BY <1>1, DurabilityHolds, PTL

(* A file labelled telegram_synced can be fetched back whole from some      *)
(* recorded message,                                                        *)
THEOREM LabelsAreTrue == Spec => []SyncedHasVersion
<1>1. Durability => SyncedHasVersion
  BY DEF Durability, RowInv, SyncedHasVersion
<1> QED
  BY <1>1, DurabilityHolds, PTL

(* and a transfer shown as completed has a recorded message behind it.      *)
THEOREM TransfersAreTrue == Spec => []CompletedHasVersion
<1>1. Durability => CompletedHasVersion
  BY DEF Durability, RowInv, CompletedHasVersion
<1> QED
  BY <1>1, DurabilityHolds, PTL

-----------------------------------------------------------------------------
(* What a step may never do to the user's own folder.                       *)

(* A step that makes a file of the synced folder disappear is the user's    *)
(* own or that of a permanent deletion: downloads write, and nothing else   *)
(* reaches the folder.                                                      *)
LEMMA SourceStep ==
    ASSUME TypeOK, [Next]_vars, NEW f \in Files, source[f] # "absent", source'[f] = "absent"
    PROVE  RemoveSource(f) \/ DeleteUnlink(f)
<1>1. ASSUME NEW g \in Files, SaveStep(g) PROVE FALSE
  BY <1>1
     DEF SaveStep, UploadBegin, UploadBody, ImportBegin, SaveDuplicate, SaveLookup, SaveInsert,
         SaveAbort, diskVars
<1>2. ASSUME NEW g \in Files, FileStep(g), ~SaveStep(g) PROVE RemoveSource(f) \/ DeleteUnlink(f)
  <2>1. RemoveSource(g) \/ DeleteUnlink(g)
    BY <1>2
       DEF FileStep, DeleteStep, DeleteRows, DeleteFails, DeleteBegin, TrashFile, RestoreFile,
           RetryWindowElapses, TransferExpires, diskVars
  <2>2. g = f
    BY <2>1 DEF RemoveSource, DeleteUnlink, Write, TypeOK, DiskType, diskVars
  <2> QED
    BY <2>1, <2>2
<1>3. ASSUME NEW p \in Passes, PassBegin(p) \/ PassStep(p) \/ Disconnect(p) PROVE FALSE
  BY <1>3
     DEF PassBegin, PassStep, Disconnect, PassTake, PassEnd, PassStat, PassMissing,
         PassMissingTransfer, PassMark, PassProgress, PassUpload, PassUploadFails, PassFailed,
         PassFailedTransfer, PassRecord, PassDone, PassEvict, PassEvictRemove, PassEvictClear,
         diskVars
<1>4. ASSUME NEW r \in Readers, (\E g \in Files : ReaderOpen(r, g)) \/ ReaderStep(r) PROVE FALSE
  BY <1>4
     DEF ReaderStep, ReaderOpen, ReaderVersion, ReaderLeave, ReaderDownload, ReaderFetched,
         ReaderBreaksOff, ReaderRelabel, Write, TypeOK, DiskType, diskVars
<1>5. ASSUME NEW c \in Cleaners, CleanerBegin(c) \/ CleanerStep(c) PROVE FALSE
  BY <1>5 DEF CleanerBegin, CleanerStep, CleanerRemove, CleanerClear, CleanerEnd, diskVars
<1>6. CASE Crash \/ (\E mode \in Policies : SetCachePolicy(mode)) \/ TogglePause \/ UNCHANGED vars
  BY <1>6 DEF Crash, SetCachePolicy, TogglePause, vars, diskVars
<1> QED
  BY <1>1, <1>2, <1>3, <1>4, <1>5, <1>6 DEF Next

(* No eviction, no download and no crash takes a file out of the user's     *)
(* folder.                                                                  *)
THEOREM SourceIsSpared == Spec => SparesSource
<1>1. TypeOK /\ [Next]_vars
        => [\A f \in Files : source[f] # "absent" /\ source'[f] = "absent"
                               => RemoveSource(f) \/ DeleteUnlink(f)]_vars
  BY SourceStep
<1> QED
  BY <1>1, TypeCorrect, PTL DEF Spec, SparesSource

-----------------------------------------------------------------------------
(* One pass at a time.  POST /v1/files/sync can start a second one; without *)
(* it, no pass ever acts on a list that another has outdated, and three     *)
(* more things hold that two passes can break.                              *)

(* Nothing about f has reached Telegram or come back from there.            *)
Fresh(f) ==
    /\ versions[f] = {} /\ latest[f] = "none"
    /\ cache[f] # "partial" /\ source[f] # "partial"
    /\ \A r \in Readers : rpc[r] \in {"download", "fetching"} => ritem[r].id # f

Synced(f) == row[f].state = "telegram_synced"

(* Where a pass has its item before a version of it is recorded.            *)
InWork == PassPCs \ {"idle", "next", "done", "evict", "evict_remove", "evict_clear"}

FreshInv ==
    \A f \in Files : (Exists(f) /\ ~Synced(f) => Fresh(f)) /\ latest[f] # "torn"

(* The pass knows the label of every file it has not done yet.              *)
OneListInv ==
    \A p \in Passes :
        /\ \A i \in queue[p] : ~Synced(i.id) /\ Fresh(i.id)
        /\ \A i, j \in queue[p] : i.id = j.id => i = j
        /\ pc[p] \notin {"idle", "next"} => \A i \in queue[p] : i.id # item[p].id

OneItemInv ==
    \A p \in Passes :
        /\ pc[p] \in InWork => ~Synced(item[p].id) /\ Fresh(item[p].id)
        /\ pc[p] \in {"report", "record"} => payload[p] = "whole"
        /\ pc[p] \in {"done", "evict", "evict_remove"} /\ Exists(item[p].id) => Synced(item[p].id)

OneCleanInv == \A c \in Cleaners : \A f \in cqueue[c] : Exists(f) => Synced(f)

OnePassInv == FreshInv /\ OneListInv /\ OneItemInv /\ OneCleanInv

(* What all steps do to the files but two: the commit of a save and that of *)
(* a recorded version.                                                      *)
Gentle ==
    \A f \in Files :
        /\ row[f].status # "absent" => row'[f].status # "absent"
        /\ Exists(f)' => Exists(f)
        /\ row[f].status # "absent" /\ ~Synced(f) => ~Synced(f)'
        /\ Synced(f) /\ Exists(f)' => Synced(f)'
        /\ row[f].status # "absent" /\ Fresh(f) => Fresh(f)'
        /\ latest'[f] \in {latest[f], "none"}

LEMMA GentleFrames ==
    ASSUME TypeOK, TypeOK', Durability, OnePassInv, Gentle
    PROVE  /\ FreshInv'
           /\ UNCHANGED passVars => OneListInv' /\ OneItemInv'
           /\ UNCHANGED cleanerVars => OneCleanInv'
<1>1. FreshInv'
  BY DEF OnePassInv, FreshInv, Gentle, Exists
<1>2. ASSUME UNCHANGED passVars PROVE OneListInv'
  <2>1. \A p \in Passes : \A i \in queue[p] : i.id \in Files /\ row[i.id].status # "absent"
    BY ItemId DEF TypeOK, PassType, Durability, PassInv
  <2> QED
    BY <1>2, <2>1 DEF OnePassInv, OneListInv, Gentle, passVars
<1>3. ASSUME UNCHANGED passVars PROVE OneItemInv'
  <2>1. \A p \in Passes : pc[p] \notin {"idle", "next"}
                            => item[p].id \in Files /\ row[item[p].id].status # "absent"
    BY ItemId DEF TypeOK, PassType, Durability, PassInv
  <2> QED
    BY <1>3, <2>1 DEF OnePassInv, OneItemInv, Gentle, passVars, InWork, PassPCs
<1>4. ASSUME UNCHANGED cleanerVars PROVE OneCleanInv'
  BY <1>4 DEF OnePassInv, OneCleanInv, Gentle, cleanerVars, TypeOK, CleanerType
<1> QED
  BY <1>1, <1>2, <1>3, <1>4

(* A step that leaves labels and versions alone, writes no prefix over a    *)
(* file and starts no transfer is gentle,                                   *)
LEMMA QuietStep ==
    ASSUME TypeOK, UNCHANGED <<versions, latest>>,
           \A f \in Files : row'[f].status = row[f].status /\ row'[f].state = row[f].state,
           \A f \in Files : row[f].status # "absent" =>
               /\ cache'[f] = "partial" => cache[f] = "partial"
               /\ source'[f] = "partial" => source[f] = "partial",
           \A r \in Readers : rpc'[r] \in {"download", "fetching"}
               => rpc[r] \in {"download", "fetching"} /\ ritem'[r] = ritem[r]
    PROVE  Gentle
<1>1. \A f \in Files : row[f].status # "absent" /\ Fresh(f) => Fresh(f)'
  BY DEF Fresh
<1> QED
  BY <1>1 DEF Gentle, Exists, Synced

(* and so is an UPDATE of one row that keeps its status, and its label if   *)
(* that is telegram_synced, and does not set this label.                    *)
LEMMA UpdateStep ==
    ASSUME TypeOK, NEW f \in Files, NEW r \in Row, UpdateRow(f, r), r.status = row[f].status,
           r.state = row[f].state \/ (r.state # "telegram_synced" /\ ~Synced(f)),
           UNCHANGED <<versions, latest, cache, source, rpc, ritem>>
    PROVE  Gentle
<1>1. \A g \in Files : Fresh(g) => Fresh(g)'
  BY DEF Fresh
<1>2. \A g \in Files : /\ row'[g].status = row[g].status
                       /\ row'[g].state = row[g].state
                            \/ (g = f /\ row'[g].state # "telegram_synced" /\ ~Synced(f))
  BY DEF UpdateRow, TypeOK, DbType
<1> QED
  BY <1>1, <1>2 DEF Gentle, Exists, Synced

LEMMA UpdateSteps ==
    ASSUME TypeOK, NEW f \in Files, UNCHANGED <<versions, latest, cache, source, rpc, ritem>>
    PROVE  /\ \A s \in SyncStates \ {"telegram_synced"} :
                  MarkSyncState(f, s) /\ ~Synced(f) => Gentle
           /\ ForgetPath(f) => Gentle
<1>1. ASSUME NEW s \in SyncStates \ {"telegram_synced"}, MarkSyncState(f, s), ~Synced(f)
      PROVE  Gentle
  <2> DEFINE r == [row[f] EXCEPT !.state = s]
  <2>1. r \in Row /\ r.status = row[f].status /\ r.state = s
    BY DEF TypeOK, DbType, Row
  <2> QED
    BY <1>1, <2>1, UpdateStep DEF MarkSyncState
<1>2. ASSUME ForgetPath(f) PROVE Gentle
  <2> DEFINE r == [row[f] EXCEPT !.path = "none"]
  <2>1. r \in Row /\ r.status = row[f].status /\ r.state = row[f].state
    BY DEF TypeOK, DbType, Row
  <2> QED
    BY <1>2, <2>1, UpdateStep DEF ForgetPath
<1> QED
  BY <1>1, <1>2

(* Saves up to their commit, trash and deletion are gentle,                 *)
LEMMA FileGentle ==
    ASSUME TypeOK, Durability, NEW f \in Files, FileStep(f), ~SaveInsert(f)
    PROVE  Gentle
<1>1. CASE UploadBegin(f)
  <2>1. row[f].status = "absent"
    BY <1>1 DEF UploadBegin, Durability, CallInv
  <2> QED
    BY <1>1, <2>1, QuietStep
       DEF UploadBegin, TypeOK, DiskType, dbVars, readerVars
<1>2. CASE UploadBody(f) \/ ImportBegin(f) \/ SaveDuplicate(f) \/ SaveLookup(f) \/ SaveAbort(f)
  <2>1. UNCHANGED <<row, versions, latest, source, rpc, ritem>>
    BY <1>2
       DEF UploadBody, ImportBegin, SaveDuplicate, SaveLookup, SaveAbort, dbVars, diskVars,
           readerVars
  <2>2. \A g \in Files : cache'[g] = "partial" => cache[g] = "partial"
    BY <1>2
       DEF UploadBody, ImportBegin, SaveDuplicate, SaveLookup, SaveAbort, diskVars, TypeOK,
           DiskType
  <2> QED
    BY <2>1, <2>2, QuietStep
<1>3. CASE DeleteRows(f)
  <2>1. /\ row'[f].status = "deleted" /\ row'[f].state = "metadata_only"
        /\ versions'[f] = {} /\ latest'[f] = "none"
        /\ \A g \in Files \ {f} : row'[g] = row[g] /\ versions'[g] = versions[g]
                                   /\ latest'[g] = latest[g]
        /\ UNCHANGED <<cache, source, rpc, ritem>>
    BY <1>3 DEF DeleteRows, NoRow, TypeOK, DbType, diskVars, readerVars
  <2>2. \A g \in Files : Fresh(g) => Fresh(g)'
    BY <2>1 DEF Fresh
  <2> QED
    BY <2>1, <2>2 DEF Gentle, Exists, Synced
<1>4. CASE DeleteUnlink(f)
  <2>1. \A g \in Files : /\ cache'[g] = "partial" => cache[g] = "partial"
                         /\ source'[g] = "partial" => source[g] = "partial"
    BY <1>4 DEF DeleteUnlink, Write, TypeOK, DiskType, diskVars
  <2> QED
    BY <1>4, <2>1, QuietStep DEF DeleteUnlink, dbVars, readerVars
<1>5. CASE TrashFile(f) \/ RestoreFile(f)
  <2>1. /\ UNCHANGED <<versions, latest, cache, source, rpc, ritem>>
        /\ \A g \in Files : Exists(g)' = Exists(g) /\ row'[g].state = row[g].state
                              /\ (row'[g].status = "absent" <=> row[g].status = "absent")
    BY <1>5
       DEF TrashFile, RestoreFile, Live, Exists, TypeOK, DbType, Row, diskVars, readerVars
  <2>2. \A g \in Files : Fresh(g) => Fresh(g)'
    BY <2>1 DEF Fresh
  <2> QED
    BY <2>1, <2>2 DEF Gentle, Synced
<1>6. CASE RemoveSource(f)
  <2>1. \A g \in Files : source'[g] = "partial" => source[g] = "partial"
    BY <1>6 DEF RemoveSource, TypeOK, DiskType
  <2> QED
    BY <1>6, <2>1, QuietStep DEF RemoveSource, dbVars, readerVars
<1>7. CASE DeleteBegin(f) \/ DeleteFails(f) \/ RetryWindowElapses(f) \/ TransferExpires(f)
  BY <1>7, QuietStep
     DEF DeleteBegin, DeleteFails, RetryWindowElapses, TransferExpires, dbVars, diskVars,
         readerVars
<1> QED
  BY <1>1, <1>2, <1>3, <1>4, <1>5, <1>6, <1>7 DEF FileStep, SaveStep, DeleteStep

(* and so is a pass until it records a version, as it knows that its item   *)
(* is not synced yet.                                                       *)
LEMMA PassGentle ==
    ASSUME TypeOK, OnePassInv, NEW p \in Passes, PassBegin(p) \/ PassStep(p) \/ Disconnect(p),
           ~PassRecord(p)
    PROVE  Gentle
<1>1. CASE PassMissing(p) \/ PassMark(p) \/ PassFailed(p)
  <2>1. item[p].id \in Files /\ ~Synced(item[p].id)
    BY <1>1, ItemId
       DEF PassMissing, PassMark, PassFailed, OnePassInv, OneItemInv, InWork, PassPCs, TypeOK,
           PassType
  <2>2. UNCHANGED <<versions, latest, cache, source, rpc, ritem>>
    BY <1>1 DEF PassMissing, PassMark, PassFailed, diskVars, readerVars
  <2>3. CASE UNCHANGED row
    BY <2>2, <2>3, QuietStep
  <2>4. CASE \E s \in SyncStates \ {"telegram_synced"} : MarkSyncState(item[p].id, s)
    BY <2>1, <2>2, <2>4, UpdateSteps
  <2> QED
    BY <1>1, <2>3, <2>4 DEF PassMissing, PassMark, PassFailed, SyncStates
<1>2. CASE PassEvictRemove(p)
  <2>1. \A g \in Files : cache'[g] = "partial" => cache[g] = "partial"
    BY <1>2 DEF PassEvictRemove, TypeOK, DiskType
  <2> QED
    BY <1>2, <2>1, QuietStep DEF PassEvictRemove, dbVars, readerVars
<1>3. CASE PassEvictClear(p)
  <2>1. item[p].id \in Files
    BY <1>3, ItemId DEF PassEvictClear, TypeOK, PassType
  <2>2. UNCHANGED <<versions, latest, cache, source, rpc, ritem>>
    BY <1>3 DEF PassEvictClear, diskVars, readerVars
  <2> QED
    BY <1>3, <2>1, <2>2, UpdateSteps, QuietStep DEF PassEvictClear
<1>4. CASE UNCHANGED <<row, versions, latest, cache, source, rpc, ritem>>
  BY <1>4, QuietStep
<1> QED
  BY <1>1, <1>2, <1>3, <1>4
     DEF PassBegin, PassStep, Disconnect, PassTake, PassEnd, PassStat, PassMissingTransfer,
         PassProgress, PassUpload, PassUploadFails, PassFailedTransfer, PassDone, PassEvict,
         dbVars, diskVars, readerVars

(* Downloads only ever write over files that have a version.                *)
LEMMA ReaderGentle ==
    ASSUME TypeOK, NEW r \in Readers, (\E f \in Files : ReaderOpen(r, f)) \/ ReaderStep(r)
    PROVE  Gentle
<1>1. CASE ReaderVersion(r)
  <2>1. \A f \in Files : Fresh(f) => Fresh(f)'
    BY <1>1 DEF ReaderVersion, Fresh, ReaderGoto, TypeOK, ReaderType, dbVars, diskVars
  <2> QED
    BY <1>1, <2>1 DEF ReaderVersion, Gentle, Exists, Synced, dbVars
<1>2. CASE ReaderDownload(r) \/ ReaderFetched(r)
  <2>1. /\ rpc[r] \in {"download", "fetching"} /\ ritem[r].id \in Files
        /\ UNCHANGED <<row, versions, latest, ritem>>
        /\ rpc' = [rpc EXCEPT ![r] = "fetching"] \/ rpc' = [rpc EXCEPT ![r] = "relabel"]
        /\ \A f \in Files \ {ritem[r].id} : cache'[f] = cache[f] /\ source'[f] = source[f]
    BY <1>2, ItemId
       DEF ReaderDownload, ReaderFetched, Write, ReaderGoto, TypeOK, ReaderType, DiskType, dbVars
  <2>2. \A f \in Files : Fresh(f) => Fresh(f)'
    BY <2>1 DEF Fresh, TypeOK, ReaderType
  <2> QED
    BY <2>1, <2>2 DEF Gentle, Exists, Synced
<1>3. CASE ReaderRelabel(r)
  <2> DEFINE f == ritem[r].id
             new == [row[f] EXCEPT !.path = ritem[r].path, !.origin = "restored_cache"]
  <2>0. f \in Files /\ new.status = row[f].status /\ new.state = row[f].state
    BY <1>3, ItemId DEF ReaderRelabel, TypeOK, ReaderType, DbType, Row
  <2>1. \A g \in Files : row'[g].status = row[g].status /\ row'[g].state = row[g].state
    <3>1. UNCHANGED row \/ row' = [row EXCEPT ![f] = new]
      BY <1>3 DEF ReaderRelabel, SetLocalPath, UpdateRow
    <3> QED
      BY <2>0, <3>1 DEF TypeOK, DbType
  <2>2. /\ UNCHANGED <<versions, latest, cache, source, ritem>>
        /\ rpc' = [rpc EXCEPT ![r] = "serving"]
    BY <1>3 DEF ReaderRelabel, ReaderGoto, diskVars
  <2> QED
    BY <2>1, <2>2, QuietStep DEF TypeOK, ReaderType
<1>4. CASE (\E f \in Files : ReaderOpen(r, f)) \/ ReaderLeave(r) \/ ReaderBreaksOff(r)
  <2>1. /\ UNCHANGED <<row, versions, latest, cache, source>>
        /\ \E l \in {"serving", "version", "idle"} : rpc' = [rpc EXCEPT ![r] = l]
        /\ \A s \in Readers \ {r} : ritem'[s] = ritem[s]
    BY <1>4
       DEF ReaderOpen, ReaderLeave, ReaderBreaksOff, ReaderGoto, TypeOK, ReaderType, dbVars,
           diskVars
  <2> QED
    BY <2>1, QuietStep DEF TypeOK, ReaderType
<1> QED
  BY <1>1, <1>2, <1>3, <1>4 DEF ReaderStep

LEMMA OtherGentle ==
    ASSUME TypeOK,
           \/ \E c \in Cleaners : CleanerBegin(c) \/ CleanerStep(c)
           \/ \E mode \in Policies : SetCachePolicy(mode)
           \/ TogglePause \/ Crash \/ UNCHANGED vars
    PROVE  Gentle
<1>1. ASSUME NEW c \in Cleaners, CleanerClear(c) PROVE Gentle
  <2>1. citem[c] \in Files
    BY <1>1 DEF CleanerClear, TypeOK, CleanerType
  <2>2. UNCHANGED <<versions, latest, cache, source, rpc, ritem>>
    BY <1>1 DEF CleanerClear, diskVars, readerVars
  <2> QED
    BY <1>1, <2>1, <2>2, UpdateSteps, QuietStep DEF CleanerClear
<1>2. ASSUME NEW c \in Cleaners, CleanerBegin(c) \/ CleanerRemove(c) \/ CleanerEnd(c) PROVE Gentle
  <2>1. \A g \in Files : cache'[g] = "partial" => cache[g] = "partial"
    BY <1>2 DEF CleanerBegin, CleanerRemove, CleanerEnd, diskVars, TypeOK, DiskType
  <2> QED
    BY <1>2, <2>1, QuietStep
       DEF CleanerBegin, CleanerRemove, CleanerEnd, dbVars, diskVars, readerVars
<1>3. CASE (\E mode \in Policies : SetCachePolicy(mode)) \/ TogglePause \/ UNCHANGED vars
  BY <1>3, QuietStep DEF SetCachePolicy, TogglePause, vars, dbVars, diskVars, readerVars
<1>4. CASE Crash
  BY <1>4, QuietStep DEF Crash, dbVars, diskVars
<1> QED
  BY <1>1, <1>2, <1>3, <1>4 DEF CleanerStep

(* The only pass moves within its item or leaves it, its list unchanged.    *)
LEMMA OneMoves ==
    ASSUME TypeOK, TypeOK', Durability, OnePassInv, Gentle, NEW p \in Passes,
           \A q \in Passes : q = p, UNCHANGED queue,
           pc'[p] \in {"idle", "next"} \/ (pc[p] \notin {"idle", "next"} /\ UNCHANGED item)
    PROVE  OneListInv'
<1>1. \A i \in queue[p] : i.id \in Files /\ row[i.id].status # "absent"
  BY ItemId DEF TypeOK, PassType, Durability, PassInv
<1> QED
  BY <1>1 DEF OnePassInv, OneListInv, Gentle

(* What it knows of its item stays true.                                    *)
LEMMA OneStays ==
    ASSUME TypeOK, TypeOK', Durability, OnePassInv, Gentle, NEW p \in Passes,
           \A q \in Passes : q = p,
           pc'[p] \in {"idle", "next", "evict_clear"} \/
             /\ UNCHANGED item /\ pc[p] \notin {"idle", "next"}
             /\ pc'[p] \in InWork => pc[p] \in InWork
             /\ pc'[p] \in {"report", "record"} => payload'[p] = "whole"
             /\ pc'[p] \in {"done", "evict", "evict_remove"}
                  => pc[p] \in {"done", "evict", "evict_remove"}
    PROVE  OneItemInv'
<1>1. pc[p] \notin {"idle", "next"} => item[p].id \in Files /\ row[item[p].id].status # "absent"
  BY ItemId DEF TypeOK, PassType, Durability, PassInv
<1>2. CASE pc'[p] \in {"idle", "next", "evict_clear"}
  BY <1>2 DEF OneItemInv, InWork
<1>3. CASE ~(pc'[p] \in {"idle", "next", "evict_clear"})
  BY <1>1, <1>3 DEF OnePassInv, OneItemInv, Gentle
<1> QED
  BY <1>2, <1>3

(* A pass lists files that are not synced, each once, and takes one of them *)
(* at a time.                                                               *)
LEMMA OneTakes ==
    ASSUME TypeOK, TypeOK', Durability, OnePassInv, NEW p \in Passes, \A q \in Passes : q = p,
           PassBegin(p) \/ PassTake(p)
    PROVE  OneListInv' /\ OneItemInv'
<1>1. \A f \in Files : (Synced(f)' <=> Synced(f)) /\ (Fresh(f)' <=> Fresh(f))
  BY DEF PassBegin, PassTake, Synced, Fresh, dbVars, diskVars, readerVars
<1>2. CASE PassBegin(p)
  <2>1. /\ queue'[p] = Pending /\ pc'[p] = "next"
    BY <1>2 DEF PassBegin, Goto, TypeOK, PassType
  <2>2. \A i \in Pending : i.id \in Files /\ ~Synced(i.id) /\ Exists(i.id)
    BY DEF Pending, IsPending, Live, Synced, Exists
  <2>3. \A i, j \in Pending : i.id = j.id => i = j
    BY DEF Pending
  <2>4. OneListInv'
    BY <1>1, <2>1, <2>2, <2>3 DEF OneListInv, OnePassInv, FreshInv
  <2> QED
    BY <2>1, <2>4 DEF OneItemInv, InWork
<1>3. CASE PassTake(p)
  <2>1. PICK i \in queue[p] :
            /\ queue'[p] = queue[p] \ {i}
            /\ \/ UNCHANGED <<pc, item>>
               \/ pc'[p] = "stat" /\ item'[p] = i
    BY <1>3 DEF PassTake, TypeOK, PassType
  <2>2. pc[p] = "next" /\ \A j \in queue[p] : j.id \in Files
    BY <1>3, ItemId DEF PassTake, TypeOK, PassType
  <2>3. OneListInv'
    BY <1>1, <2>1, <2>2 DEF OneListInv, OnePassInv
  <2>4. OneItemInv'
    <3>1. CASE UNCHANGED <<pc, item>>
      BY <2>2, <3>1 DEF OneItemInv, InWork
    <3>2. CASE pc'[p] = "stat" /\ item'[p] = i
      BY <1>1, <2>2, <3>2 DEF OneItemInv, OneListInv, OnePassInv
    <3> QED
      BY <2>1, <3>1, <3>2
  <2> QED
    BY <2>3, <2>4
<1> QED
  BY <1>2, <1>3

LEMMA OneWalks ==
    ASSUME TypeOK, TypeOK', Durability, OnePassInv, NEW p \in Passes, \A q \in Passes : q = p,
           PassStep(p) \/ Disconnect(p), ~PassTake(p), ~PassRecord(p)
    PROVE  OneListInv' /\ OneItemInv'
<1>1. Gentle
  BY PassGentle
<1>2. CASE PassUpload(p)
  <2>1. pc[p] = "upload" /\ item[p] \in Items /\ Fresh(item[p].id)
    BY <1>2, ItemId
       DEF PassUpload, OnePassInv, OneItemInv, InWork, PassPCs, TypeOK, PassType
  <2>2. At(item[p]) = "whole"
    BY <1>2, <2>1, ItemId DEF PassUpload, Fresh, At, TypeOK, DiskType, OnDisk
  <2>3. UNCHANGED <<queue, item>> /\ pc'[p] = "report" /\ payload'[p] = "whole"
    BY <1>2, <2>2 DEF PassUpload, Goto, TypeOK, PassType
  <2> QED
    BY <1>1, <2>1, <2>3, OneMoves, OneStays DEF InWork, PassPCs
<1>3. CASE Disconnect(p)
  BY <1>1, <1>3, OneMoves, OneStays, GentleFrames DEF Disconnect, OnePassInv, OneItemInv
<1>4. CASE PassProgress(p)
  <2>1. /\ pc[p] \in {"start", "report"} /\ UNCHANGED <<queue, item, payload>>
        /\ pc'[p] = IF pc[p] = "start" THEN "upload" ELSE "record"
    BY <1>4 DEF PassProgress, Goto, TypeOK, PassType
  <2>2. pc[p] = "report" => payload[p] = "whole"
    BY DEF OnePassInv, OneItemInv
  <2> QED
    BY <1>1, <2>1, <2>2, OneMoves, OneStays DEF InWork, PassPCs
<1>5. CASE PassEnd(p) \/ PassMissingTransfer(p) \/ PassFailedTransfer(p) \/ PassEvictClear(p)
           \/ PassEvictRemove(p)
  <2>1. /\ UNCHANGED queue /\ pc'[p] \in {"idle", "next", "evict_clear"}
        /\ pc'[p] = "evict_clear" => pc[p] = "evict_remove" /\ UNCHANGED item
    BY <1>5
       DEF PassEnd, PassMissingTransfer, PassFailedTransfer, PassEvictClear, PassEvictRemove,
           Goto, NextItem, TypeOK, PassType
  <2> QED
    BY <1>1, <2>1, OneMoves, OneStays
<1>6. CASE PassStat(p) \/ PassMissing(p) \/ PassMark(p) \/ PassUploadFails(p) \/ PassFailed(p)
  <2>1. /\ UNCHANGED queue /\ pc[p] \in InWork
        /\ \/ pc'[p] = "next"
           \/ /\ pc'[p] \in {"missing", "mark", "missing_transfer", "start", "failed",
                             "failed_transfer"}
              /\ UNCHANGED item
    BY <1>6
       DEF PassStat, PassMissing, PassMark, PassUploadFails, PassFailed, Goto, NextItem, InWork,
           PassPCs, TypeOK, PassType
  <2> QED
    BY <1>1, <2>1, OneMoves, OneStays DEF InWork
<1>7. CASE PassDone(p) \/ PassEvict(p)
  <2>1. /\ UNCHANGED queue /\ pc[p] \in {"done", "evict"}
        /\ pc'[p] = "next" \/ (pc'[p] \in {"evict", "evict_remove"} /\ UNCHANGED item)
    BY <1>7 DEF PassDone, PassEvict, Goto, NextItem, TypeOK, PassType
  <2> QED
    BY <1>1, <2>1, OneMoves, OneStays DEF InWork
<1> QED
  BY <1>2, <1>3, <1>4, <1>5, <1>6, <1>7 DEF PassStep

(* A whole payload is recorded, for a file no longer on the list.           *)
LEMMA OneRecords ==
    ASSUME TypeOK, TypeOK', Durability, OnePassInv, NEW p \in Passes, \A q \in Passes : q = p,
           PassRecord(p)
    PROVE  /\ OnePassInv'
           /\ \A f \in Files : Synced(f) /\ Exists(f)' => Synced(f)'
<1>0. PICK f \in Files : f = item[p].id
  BY ItemId DEF PassRecord, TypeOK, PassType
<1>1. /\ pc[p] = "record" /\ payload[p] = "whole" /\ UNCHANGED queue
      /\ \A i \in queue[p] : i.id \in Files /\ i.id # f
      /\ UNCHANGED <<cache, source, readerVars, cleanerVars, payload, item>>
  BY <1>0, ItemId
     DEF PassRecord, Goto, OnePassInv, OneItemInv, OneListInv, TypeOK, PassType, diskVars
<1>2. CASE UNCHANGED <<row, versions, latest>> /\ Goto(p, "failed")
  <2>1. Gentle
    BY <1>0, <1>1, <1>2, QuietStep DEF readerVars
  <2>2. pc'[p] = "failed" /\ UNCHANGED item
    BY <1>2 DEF Goto, TypeOK, PassType
  <2>3. OneListInv' /\ OneItemInv'
    BY <1>0, <1>1, <2>1, <2>2, OneMoves, OneStays DEF InWork, PassPCs
  <2> QED
    BY <1>0, <1>1, <2>1, <2>3, GentleFrames DEF OnePassInv, Gentle
<1>3. CASE RecordTelegramVersion(p) /\ Goto(p, "done")
  <2>1. /\ pc'[p] = "done" /\ UNCHANGED item
        /\ \A g \in Files \ {f} : row'[g] = row[g] /\ versions'[g] = versions[g]
                                   /\ latest'[g] = latest[g]
        /\ row'[f].status = row[f].status /\ latest'[f] = "whole"
        /\ Exists(f) => row'[f].state = "telegram_synced"
    BY <1>0, <1>1, <1>3
       DEF RecordTelegramVersion, MarkSyncState, UpdateRow, Goto, TypeOK, PassType, DbType, Row
  <2>2. \A g \in Files \ {f} : /\ Exists(g)' <=> Exists(g)
                               /\ Synced(g)' <=> Synced(g)
                               /\ Fresh(g)' <=> Fresh(g)
    BY <1>0, <1>1, <2>1 DEF Exists, Synced, Fresh, readerVars
  <2>3. Exists(f)' => Exists(f) /\ Synced(f)'
    BY <2>1 DEF Exists, Synced
  <2>4. FreshInv'
    BY <1>0, <1>1, <2>1, <2>2, <2>3 DEF OnePassInv, FreshInv
  <2>5. OneListInv'
    BY <1>0, <1>1, <2>1, <2>2 DEF OnePassInv, OneListInv
  <2>6. OneItemInv'
    BY <1>0, <1>1, <2>1, <2>3 DEF OneItemInv, InWork
  <2>7. OneCleanInv'
    BY <1>0, <1>1, <2>2, <2>3 DEF OnePassInv, OneCleanInv, cleanerVars, TypeOK, CleanerType
  <2>8. \A g \in Files : Synced(g) /\ Exists(g)' => Synced(g)'
    <3> SUFFICES ASSUME NEW g \in Files, Synced(g), Exists(g)' PROVE Synced(g)'
      OBVIOUS
    <3>1. CASE g = f
      BY <2>3, <3>1
    <3>2. CASE g \in Files \ {f}
      BY <2>2, <3>2
    <3> QED
      BY <3>1, <3>2
  <2> QED
    BY <2>4, <2>5, <2>6, <2>7, <2>8 DEF OnePassInv
<1> QED
  BY <1>2, <1>3 DEF PassRecord

(* A new row is fresh.                                                      *)
LEMMA OneInserts ==
    ASSUME TypeOK, TypeOK', Durability, OnePassInv, NEW f \in Files, SaveInsert(f)
    PROVE  /\ OnePassInv'
           /\ \A g \in Files : Synced(g) /\ Exists(g) => Synced(g)'
<1>1. /\ row[f].status = "absent" /\ versions[f] = {} /\ latest[f] = "none"
      /\ source[f] # "partial" /\ cache[f] # "partial"
  BY DEF SaveInsert, Durability, CallInv, RowInv, DiskInv, Backed
<1>2. \A r \in Readers : rpc[r] # "idle" => ritem[r].id # f
  BY <1>1 DEF Durability, ReaderInv
<1>3. /\ \A g \in Files \ {f} : row'[g] = row[g]
      /\ ~Synced(f)'
      /\ UNCHANGED <<versions, latest, cache, source, passVars, readerVars, cleanerVars>>
  BY DEF SaveInsert, NewRow, Synced, TypeOK, DbType, diskVars
<1>4. Fresh(f)'
  BY <1>1, <1>2, <1>3 DEF Fresh, readerVars
<1>5. \A g \in Files \ {f} : /\ Exists(g)' <=> Exists(g)
                             /\ Synced(g)' <=> Synced(g)
                             /\ Fresh(g)' <=> Fresh(g)
  BY <1>3 DEF Exists, Synced, Fresh, readerVars
<1>6. ~Exists(f)
  BY <1>1 DEF Exists
<1>7. FreshInv'
  BY <1>1, <1>3, <1>4, <1>5 DEF OnePassInv, FreshInv
<1>8. /\ \A p \in Passes : \A i \in queue[p] : i.id \in Files \ {f}
      /\ \A p \in Passes : pc[p] \notin {"idle", "next"} => item[p].id \in Files \ {f}
      /\ \A c \in Cleaners : \A g \in cqueue[c] : g \in Files \ {f}
  BY <1>1, ItemId DEF Durability, PassInv, CleanerInv, TypeOK, PassType, CleanerType
<1>9. OneListInv'
  BY <1>3, <1>5, <1>8 DEF OnePassInv, OneListInv, passVars
<1>10. OneItemInv'
  BY <1>3, <1>5, <1>8 DEF OnePassInv, OneItemInv, passVars, InWork
<1>11. OneCleanInv'
  BY <1>3, <1>5, <1>8 DEF OnePassInv, OneCleanInv, cleanerVars
<1> QED
  BY <1>5, <1>6, <1>7, <1>9, <1>10, <1>11 DEF OnePassInv

(* With one pass, every step keeps the invariant and the labels of synced   *)
(* files.                                                                   *)
LEMMA OnePassStep ==
    ASSUME \A p, q \in Passes : p = q, TypeOK, TypeOK', Durability, OnePassInv, [Next]_vars
    PROVE  /\ OnePassInv'
           /\ \A f \in Files : Synced(f) /\ Exists(f) /\ Exists(f)' => Synced(f)'
<1>1. ASSUME NEW f \in Files, FileStep(f), ~SaveInsert(f) PROVE Gentle /\ OnePassInv'
  <2>1. UNCHANGED passVars /\ UNCHANGED cleanerVars
    BY <1>1
       DEF FileStep, SaveStep, DeleteStep, UploadBegin, UploadBody, ImportBegin, SaveDuplicate,
           SaveLookup, SaveAbort, DeleteBegin, DeleteRows, DeleteFails, DeleteUnlink, TrashFile,
           RestoreFile, RetryWindowElapses, TransferExpires, RemoveSource
  <2> QED
    BY <1>1, <2>1, FileGentle, GentleFrames DEF OnePassInv
<1>2. ASSUME NEW p \in Passes, PassBegin(p) \/ PassStep(p) \/ Disconnect(p), ~PassRecord(p)
      PROVE  Gentle /\ OnePassInv'
  <2>1. UNCHANGED cleanerVars
    BY <1>2
       DEF PassBegin, PassStep, Disconnect, PassTake, PassEnd, PassStat, PassMissing,
           PassMissingTransfer, PassMark, PassProgress, PassUpload, PassUploadFails, PassFailed,
           PassFailedTransfer, PassDone, PassEvict, PassEvictRemove, PassEvictClear
  <2>2. OneListInv' /\ OneItemInv'
    BY <1>2, OneTakes, OneWalks
  <2> QED
    BY <1>2, <2>1, <2>2, PassGentle, GentleFrames DEF OnePassInv
<1>3. ASSUME NEW r \in Readers, (\E f \in Files : ReaderOpen(r, f)) \/ ReaderStep(r)
      PROVE  Gentle /\ OnePassInv'
  <2>1. UNCHANGED passVars /\ UNCHANGED cleanerVars
    BY <1>3
       DEF ReaderStep, ReaderOpen, ReaderVersion, ReaderLeave, ReaderDownload, ReaderFetched,
           ReaderBreaksOff, ReaderRelabel
  <2> QED
    BY <1>3, <2>1, ReaderGentle, GentleFrames DEF OnePassInv
<1>4. ASSUME NEW c \in Cleaners, CleanerBegin(c) \/ CleanerStep(c) PROVE Gentle /\ OnePassInv'
  <2>1. Gentle /\ UNCHANGED passVars
    BY <1>4, OtherGentle
       DEF CleanerStep, CleanerBegin, CleanerRemove, CleanerClear, CleanerEnd
  <2>2. \A d \in Cleaners : \A f \in cqueue'[d] :
            f \in cqueue[d] \/ (f \in Files /\ Synced(f))
    BY <1>4
       DEF CleanerStep, CleanerBegin, CleanerRemove, CleanerClear, CleanerEnd, Cleanable, Synced,
           TypeOK, CleanerType
  <2>3. OneCleanInv'
    BY <2>1, <2>2 DEF OneCleanInv, OnePassInv, Gentle, TypeOK, CleanerType
  <2> QED
    BY <2>1, <2>3, GentleFrames DEF OnePassInv
<1>5. ASSUME NEW mode \in Policies, SetCachePolicy(mode) PROVE Gentle /\ OnePassInv'
  <2>1. Gentle /\ UNCHANGED passVars
    BY <1>5, OtherGentle DEF SetCachePolicy
  <2>2. OneCleanInv'
    BY <1>5, <2>1 DEF SetCachePolicy, OneCleanInv, OnePassInv, Gentle, TypeOK, CleanerType
  <2> QED
    BY <2>1, <2>2, GentleFrames DEF OnePassInv
<1>6. ASSUME Crash PROVE Gentle /\ OnePassInv'
  <2>1. Gentle
    BY <1>6, OtherGentle
  <2>2. OneListInv' /\ OneItemInv' /\ OneCleanInv'
    BY <1>6 DEF Crash, OneListInv, OneItemInv, OneCleanInv, InWork
  <2> QED
    BY <2>1, <2>2, GentleFrames DEF OnePassInv
<1>7. ASSUME TogglePause \/ UNCHANGED vars PROVE Gentle /\ OnePassInv'
  <2>1. Gentle /\ UNCHANGED passVars /\ UNCHANGED cleanerVars
    BY <1>7, OtherGentle DEF TogglePause, vars
  <2> QED
    BY <2>1, GentleFrames DEF OnePassInv
<1>8. (Gentle /\ OnePassInv')
        \/ (\E f \in Files : SaveInsert(f)) \/ (\E p \in Passes : PassRecord(p))
  <2> SUFFICES ASSUME ~(\E f \in Files : SaveInsert(f)), ~(\E p \in Passes : PassRecord(p))
               PROVE  Gentle /\ OnePassInv'
    OBVIOUS
  <2> QED
    BY <1>1, <1>2, <1>3, <1>4, <1>5, <1>6, <1>7 DEF Next
<1> QED
  BY <1>8, OneInserts, OneRecords DEF Gentle

(* The invariant of one pass, for any files, downloads, cleaners, policy    *)
(* and events.                                                              *)
LEMMA OnePassHolds ==
    ASSUME \A p, q \in Passes : p = q
    PROVE  Spec => []OnePassInv
<1>1. Init => OnePassInv
  BY DEF Init, OnePassInv, FreshInv, OneListInv, OneItemInv, OneCleanInv, NoRow, Exists, InWork
<1> QED
  BY <1>1, TypeCorrect, DurabilityHolds, OnePassStep, PTL DEF Spec

(* With one pass at a time the newest version always holds all bytes,       *)
(* although a restore that broke off leaves a prefix where the next upload  *)
(* would read.                                                              *)
THEOREM LatestHoldsWithOnePass ==
    ASSUME \A p, q \in Passes : p = q
    PROVE  Spec => []LatestIsWhole
<1>1. OnePassInv => LatestIsWhole
  BY DEF OnePassInv, FreshInv, LatestIsWhole
<1> QED
  BY <1>1, OnePassHolds, PTL

(* With one pass at a time no file loses the label telegram_synced.         *)
THEOREM SyncedStaysWithOnePass ==
    ASSUME \A p, q \in Passes : p = q
    PROVE  Spec => SyncedIsStable
<1>1. TypeOK /\ TypeOK' /\ Durability /\ OnePassInv /\ [Next]_vars
        => [\A f \in Files : Exists(f) /\ row[f].state = "telegram_synced" /\ Exists(f)'
                               => row'[f].state = "telegram_synced"]_vars
  BY OnePassStep DEF Synced
<1> QED
  BY <1>1, TypeCorrect, DurabilityHolds, OnePassHolds, PTL DEF Spec, SyncedIsStable

(* A step that removes the cached copy of an existing file is an eviction,  *)
(* of a file that is synced.                                                *)
LEMMA EvictionStep ==
    ASSUME TypeOK, Durability, OnePassInv, [Next]_vars,
           NEW f \in Files, Exists(f), cache[f] # "absent", cache'[f] = "absent"
    PROVE  Synced(f)
<1>1. ASSUME NEW g \in Files, FileStep(g) PROVE FALSE
  <2>1. CASE SaveDuplicate(g) \/ DeleteUnlink(g)
    <3>1. g = f
      BY <2>1 DEF SaveDuplicate, DeleteUnlink, Write, TypeOK, DiskType, diskVars
    <3> QED
      BY <2>1, <3>1 DEF SaveDuplicate, DeleteUnlink, Durability, CallInv, Exists
  <2>2. CASE UploadBegin(g) \/ UploadBody(g)
    BY <2>2 DEF UploadBegin, UploadBody, TypeOK, DiskType
  <2>3. CASE UNCHANGED cache
    BY <2>3
  <2> QED
    BY <1>1, <2>1, <2>2, <2>3
       DEF FileStep, SaveStep, DeleteStep, ImportBegin, SaveLookup, SaveInsert, SaveAbort,
           DeleteBegin, DeleteRows, DeleteFails, TrashFile, RestoreFile, RetryWindowElapses,
           TransferExpires, RemoveSource, diskVars
<1>2. ASSUME NEW p \in Passes, PassBegin(p) \/ PassStep(p) \/ Disconnect(p) PROVE Synced(f)
  <2>1. PassEvictRemove(p)
    BY <1>2
       DEF PassBegin, PassStep, Disconnect, PassTake, PassEnd, PassStat, PassMissing,
           PassMissingTransfer, PassMark, PassProgress, PassUpload, PassUploadFails, PassFailed,
           PassFailedTransfer, PassRecord, PassDone, PassEvict, PassEvictClear, diskVars
  <2>2. f = item[p].id
    BY <2>1 DEF PassEvictRemove, TypeOK, DiskType
  <2> QED
    BY <2>1, <2>2 DEF PassEvictRemove, OnePassInv, OneItemInv
<1>3. ASSUME NEW r \in Readers, (\E g \in Files : ReaderOpen(r, g)) \/ ReaderStep(r) PROVE FALSE
  BY <1>3
     DEF ReaderStep, ReaderOpen, ReaderVersion, ReaderLeave, ReaderDownload, ReaderFetched,
         ReaderBreaksOff, ReaderRelabel, Write, TypeOK, DiskType, diskVars
<1>4. ASSUME NEW c \in Cleaners, CleanerBegin(c) \/ CleanerStep(c) PROVE Synced(f)
  <2>1. f \in cqueue[c]
    BY <1>4
       DEF CleanerStep, CleanerBegin, CleanerRemove, CleanerClear, CleanerEnd, diskVars, TypeOK,
           DiskType
  <2> QED
    BY <2>1 DEF OnePassInv, OneCleanInv
<1>5. CASE Crash \/ (\E mode \in Policies : SetCachePolicy(mode)) \/ TogglePause \/ UNCHANGED vars
  BY <1>5 DEF Crash, SetCachePolicy, TogglePause, vars, diskVars
<1> QED
  BY <1>1, <1>2, <1>3, <1>4, <1>5 DEF Next

(* With one pass at a time the cache policy evicts only files that are      *)
(* telegram_synced when it does.                                            *)
THEOREM EvictionsWithOnePass ==
    ASSUME \A p, q \in Passes : p = q
    PROVE  Spec => EvictsOnlySynced
<1>1. TypeOK /\ Durability /\ OnePassInv /\ [Next]_vars
        => [\A f \in Files : Exists(f) /\ cache[f] # "absent" /\ cache'[f] = "absent"
                               => row[f].state = "telegram_synced"]_vars
  BY EvictionStep DEF Synced
<1> QED
  BY <1>1, TypeCorrect, DurabilityHolds, OnePassHolds, PTL DEF Spec, EvictsOnlySynced

-----------------------------------------------------------------------------
(* A second file of the same content.                                       *)

(* The row a duplicate was answered with.                                   *)
TwinInv ==
    \A f \in Files :
        save[f].pc = "duplicate"
            => save[f].dup \in Files /\ ~Empty(save[f].dup) /\ row[save[f].dup].status # "absent"

(* Only the call itself and a stop change what is known of a save.          *)
LEMMA SaveSteps ==
    ASSUME TypeOK, [Next]_vars, NEW f \in Files
    PROVE  SaveStep(f) \/ Crash \/ save'[f] = save[f]
<1>1. ASSUME NEW g \in Files, FileStep(g) PROVE SaveStep(f) \/ save'[f] = save[f]
  <2>1. CASE SaveStep(g) /\ g # f
    BY <2>1
       DEF SaveStep, UploadBegin, UploadBody, ImportBegin, SaveDuplicate, SaveLookup, SaveInsert,
           SaveAbort, SaveGoto, TypeOK, CallType
  <2>2. CASE ~SaveStep(g)
    BY <1>1, <2>2
       DEF FileStep, DeleteStep, DeleteBegin, DeleteRows, DeleteFails, DeleteUnlink, TrashFile,
           RestoreFile, RetryWindowElapses, TransferExpires, RemoveSource, callVars
  <2> QED
    BY <2>1, <2>2
<1>2. ASSUME NEW p \in Passes, PassBegin(p) \/ PassStep(p) \/ Disconnect(p) PROVE UNCHANGED save
  BY <1>2
     DEF PassBegin, PassStep, Disconnect, PassTake, PassEnd, PassStat, PassMissing,
         PassMissingTransfer, PassMark, PassProgress, PassUpload, PassUploadFails, PassFailed,
         PassFailedTransfer, PassRecord, PassDone, PassEvict, PassEvictRemove, PassEvictClear,
         callVars
<1>3. ASSUME NEW r \in Readers, (\E g \in Files : ReaderOpen(r, g)) \/ ReaderStep(r)
      PROVE  UNCHANGED save
  BY <1>3
     DEF ReaderStep, ReaderOpen, ReaderVersion, ReaderLeave, ReaderDownload, ReaderFetched,
         ReaderBreaksOff, ReaderRelabel, callVars
<1>4. ASSUME NEW c \in Cleaners, CleanerBegin(c) \/ CleanerStep(c) PROVE UNCHANGED save
  BY <1>4 DEF CleanerStep, CleanerBegin, CleanerRemove, CleanerClear, CleanerEnd, callVars
<1>5. CASE (\E mode \in Policies : SetCachePolicy(mode)) \/ TogglePause \/ UNCHANGED vars
  BY <1>5 DEF SetCachePolicy, TogglePause, vars, callVars
<1> QED
  BY <1>1, <1>2, <1>3, <1>4, <1>5 DEF Next

(* A save that is stored stays stored, so its row never becomes absent      *)
(* again.                                                                   *)
LEMMA RowsStay ==
    ASSUME TypeOK, Durability, Durability', [Next]_vars, NEW f \in Files, row[f].status # "absent"
    PROVE  row'[f].status # "absent" /\ save'[f] = save[f]
<1>1. save[f].pc = "stored"
  BY DEF Durability, CallInv
<1>2. ~SaveStep(f)
  BY <1>1
     DEF SaveStep, UploadBegin, UploadBody, ImportBegin, SaveDuplicate, SaveLookup, SaveInsert,
         SaveAbort
<1>3. Crash => save'[f] = save[f]
  BY <1>1 DEF Crash
<1>4. save'[f] = save[f]
  BY <1>2, <1>3, SaveSteps
<1> QED
  BY <1>1, <1>4 DEF Durability, CallInv

LEMMA TwinStep ==
    ASSUME TypeOK, Durability, Durability', TwinInv, [Next]_vars
    PROVE  TwinInv'
<1>1. SUFFICES ASSUME NEW f \in Files, save'[f].pc = "duplicate"
               PROVE  /\ save'[f].dup \in Files /\ ~Empty(save'[f].dup)
                      /\ row'[save'[f].dup].status # "absent"
  BY DEF TwinInv, Empty
<1>2. CASE SaveDuplicate(f)
  <2>1. PICK g \in Twins(f) : save' = [save EXCEPT ![f] = [@ EXCEPT !.pc = "duplicate", !.dup = g]]
    BY <1>2 DEF SaveDuplicate
  <2>2. save'[f].dup = g /\ g \in Files /\ ~Empty(g) /\ row[g].status # "absent"
    BY <2>1 DEF TypeOK, CallType, Save, Twins, Live
  <2> QED
    BY <2>2, RowsStay
<1>3. CASE save'[f].dup = save[f].dup /\ save[f].pc = "duplicate"
  BY <1>3, RowsStay DEF TwinInv
<1>4. CASE SaveStep(f) /\ ~SaveDuplicate(f)
  BY <1>1, <1>4
     DEF SaveStep, UploadBegin, UploadBody, ImportBegin, SaveLookup, SaveInsert, SaveAbort,
         SaveGoto, TypeOK, CallType, Save
<1>5. CASE Crash
  <2>1. save[f] \in Save
    BY DEF TypeOK, CallType
  <2>2. [save[f] EXCEPT !.pc = "aborted"].pc = "aborted"
    BY <2>1 DEF Save
  <2>3. save'[f] = IF save[f].pc \in {"writing", "lookup", "insert"}
                   THEN [save[f] EXCEPT !.pc = "aborted"] ELSE save[f]
    BY <1>5 DEF Crash
  <2> QED
    BY <1>1, <1>3, <2>2, <2>3
<1> QED
  BY <1>1, <1>2, <1>3, <1>4, <1>5, SaveSteps

(* An upload that is answered with another row loses its content only to    *)
(* the user, and only when that row was imported from a file he has taken   *)
(* away before Telegram has it: through crashes, failed statements,         *)
(* evictions and restores the bytes of the row are on disk or on Telegram   *)
(* while it exists.                                                         *)
THEOREM DuplicatesKeepBytes == Spec => []DuplicateKeepsBytes
<1>1. Init => TwinInv
  BY DEF Init, TwinInv, NewSave
<1>2. TypeOK /\ Durability /\ TwinInv => DuplicateKeepsBytes
  <2> SUFFICES ASSUME TypeOK, Durability, TwinInv, NEW f \in Files, save[f].pc = "duplicate",
                      Exists(save[f].dup)
               PROVE  HasBytes(save[f].dup) \/ TakenAway(save[f].dup)
    BY DEF DuplicateKeepsBytes
  <2>1. PICK g \in Files : g = save[f].dup /\ ~Empty(g) /\ Exists(g)
    BY DEF TwinInv
  <2>2. CASE save[g].how = "upload"
    BY <2>1, <2>2 DEF Durability, DiskInv, HasBytes
  <2>3. CASE save[g].how = "import"
    <3>1. versions[g] # {} => "whole" \in versions[g]
      BY <2>1 DEF Durability, RowInv, Backed, Exists
    <3>2. source[g] = "partial" => "whole" \in versions[g]
      BY <2>1 DEF Durability, DiskInv, Backed, Exists
    <3>3. source[g] \in {"absent", "partial", "whole"}
      BY DEF TypeOK, DiskType, OnDisk
    <3> QED
      BY <2>1, <2>3, <3>1, <3>2, <3>3 DEF HasBytes, TakenAway
  <2> QED
    BY <2>1, <2>2, <2>3 DEF TypeOK, CallType, Save
<1> QED
  BY <1>1, <1>2, TwinStep, TypeCorrect, DurabilityHolds, PTL DEF Spec
=============================================================================

------------------------ MODULE DriveFilesRefinement ------------------------
(***************************************************************************)
(* DriveFiles implements DurableBytes, for every value of its constants:   *)
(* every step of the agent is a step of the promise or leaves what the     *)
(* promise speaks of unchanged.                                            *)
(***************************************************************************)
EXTENDS DriveFilesProofs

View == <<KeptStatus, KeptCopies>>

(* A step that changes neither rows' existence, nor how a stored file was   *)
(* saved, nor whether an existing file's copies are whole, is invisible.    *)
LEMMA Invisible ==
    ASSUME TypeOK, TypeOK',
           \A f \in Files :
               /\ row'[f].status = "absent" <=> row[f].status = "absent"
               /\ Exists(f)' <=> Exists(f)
               /\ row[f].status # "absent" => save'[f].how = save[f].how
               /\ Exists(f) => /\ cache'[f] = "whole" <=> cache[f] = "whole"
                               /\ "whole" \in versions'[f] <=> "whole" \in versions[f]
    PROVE  UNCHANGED View
<1>1. \A f \in Files : row'[f].status = "deleted" <=> row[f].status = "deleted"
  BY DEF TypeOK, DbType, Row, Statuses, Exists
<1>2. KeptStatus' = KeptStatus
  BY <1>1 DEF KeptStatus, Uploaded, Exists, Empty
<1>3. KeptCopies' = KeptCopies
  BY <1>1 DEF KeptCopies, Uploaded, Exists, Empty
<1> QED
  BY <1>2, <1>3 DEF View

(* In particular one that leaves database, disk and saves alone.            *)
LEMMA Elsewhere ==
    ASSUME TypeOK, TypeOK', UNCHANGED <<dbVars, diskVars, save>>
    PROVE  UNCHANGED View
BY Invisible DEF dbVars, diskVars, Exists

(* Or one that updates rows that keep their status and leaves the rest.     *)
LEMMA Labels ==
    ASSUME TypeOK, TypeOK', Durability, Kept, UNCHANGED <<versions, diskVars, save>>
    PROVE  UNCHANGED View
BY Invisible DEF Kept, diskVars

(* What the promise sees of a file that was uploaded and is there.          *)
LEMMA Seen ==
    ASSUME NEW f \in Files
    PROVE  /\ Uploaded(f) /\ Exists(f) =>
                  /\ KeptStatus[f] = "kept"
                  /\ "local" \in KeptCopies[f] <=> cache[f] = "whole"
                  /\ "cloud" \in KeptCopies[f] <=> "whole" \in versions[f]
                  /\ KeptCopies[f] \subseteq {"local", "cloud"}
BY DEF KeptStatus, KeptCopies
(* Writing or removing a cached copy of a backed file is a copy from the    *)
(* cloud, the loss of a copy that is not the last one, or invisible.        *)
LEMMA CacheWrite ==
    ASSUME TypeOK, TypeOK', Durability, NEW f \in Files, NEW c \in OnDisk,
           cache' = [cache EXCEPT ![f] = c], UNCHANGED <<dbVars, save>>,
           row[f].status # "absent", Backed(f)
    PROVE  [Durable!Next]_View
<1>1. CASE Uploaded(f) /\ Exists(f)
  <2>1. "whole" \in versions[f]
    BY <1>1 DEF Backed, Exists
  <2>2. KeptStatus' = KeptStatus
    BY DEF KeptStatus, Uploaded, Exists, Empty, dbVars
  <2>3. \A g \in Files \ {f} : KeptCopies'[g] = KeptCopies[g]
    BY DEF KeptCopies, Uploaded, Exists, Empty, dbVars, TypeOK, DiskType
  <2>4. cache'[f] = c
    BY DEF TypeOK, DiskType
  <2>5. /\ KeptStatus[f] = "kept" /\ "cloud" \in KeptCopies[f]
        /\ KeptCopies'[f] = IF c = "whole" THEN KeptCopies[f] \cup {"local"}
                            ELSE KeptCopies[f] \ {"local"}
    BY <1>1, <2>1, <2>4 DEF KeptStatus, KeptCopies, Uploaded, Exists, Empty, dbVars
  <2>6. KeptCopies' = [KeptCopies EXCEPT ![f] = KeptCopies'[f]]
    BY <2>3 DEF KeptCopies
  <2>7. CASE c = "whole"
    <3>1. Durable!Copy(f, "local")
      BY <2>2, <2>5, <2>6, <2>7 DEF Durable!Copy
    <3> QED
      BY <3>1 DEF Durable!Next, Durable!Places
  <2>8. CASE c # "whole"
    <3>1. Durable!Drop(f, "local")
      BY <2>2, <2>5, <2>6, <2>8 DEF Durable!Drop
    <3> QED
      BY <3>1 DEF Durable!Next, Durable!Places
  <2> QED
    BY <2>7, <2>8
<1>2. CASE ~(Uploaded(f) /\ Exists(f))
  <2>1. KeptStatus' = KeptStatus
    BY DEF KeptStatus, Uploaded, Exists, Empty, dbVars
  <2>2. KeptCopies' = KeptCopies
    BY <1>2 DEF KeptCopies, Uploaded, Exists, Empty, dbVars, TypeOK, DiskType
  <2> QED
    BY <2>1, <2>2 DEF View
<1> QED
  BY <1>1, <1>2

(* The save's transaction accepts an upload; an import or an empty file is  *)
(* no concern of the promise.                                               *)
LEMMA InsertAccepts ==
    ASSUME TypeOK, TypeOK', Durability, NEW f \in Files, SaveInsert(f)
    PROVE  [Durable!Next]_View
<1>1. /\ row[f].status = "absent" /\ versions[f] = {}
      /\ row'[f].status = "live" /\ save'[f].how = save[f].how
      /\ \A g \in Files \ {f} : row'[g] = row[g] /\ save'[g] = save[g]
      /\ UNCHANGED <<versions, cache>>
  BY DEF SaveInsert, SaveGoto, NewRow, Durability, CallInv, RowInv, TypeOK, DbType, CallType, Save,
         diskVars
<1>2. \A g \in Files \ {f} : KeptStatus'[g] = KeptStatus[g] /\ KeptCopies'[g] = KeptCopies[g]
  BY <1>1 DEF KeptStatus, KeptCopies, Uploaded, Exists, Empty
<1>3. KeptStatus[f] = "new" /\ KeptCopies[f] = {}
  BY <1>1 DEF KeptStatus, KeptCopies, Exists
<1>4. CASE Uploaded(f)
  <2>1. cache[f] = "whole"
    BY <1>4 DEF SaveInsert, Durability, CallInv, Uploaded
  <2>2. KeptStatus'[f] = "kept" /\ KeptCopies'[f] = {"local"}
    BY <1>1, <1>4, <2>1 DEF KeptStatus, KeptCopies, Uploaded, Exists, Empty
  <2>3. Durable!Accept(f)
    BY <1>2, <1>3, <2>2 DEF Durable!Accept, KeptStatus, KeptCopies
  <2> QED
    BY <2>3 DEF Durable!Next
<1>5. CASE ~Uploaded(f)
  <2>1. KeptStatus'[f] = "new" /\ KeptCopies'[f] = {}
    BY <1>1, <1>5 DEF KeptStatus, KeptCopies, Uploaded, Exists, Empty
  <2> QED
    BY <1>2, <1>3, <2>1 DEF View, KeptStatus, KeptCopies
<1> QED
  BY <1>4, <1>5

(* The deletion's transaction discards the file.                            *)
LEMMA DeleteDiscards ==
    ASSUME TypeOK, TypeOK', Durability, NEW f \in Files, DeleteRows(f)
    PROVE  [Durable!Next]_View
<1>1. /\ Exists(f) /\ row'[f].status = "deleted"
      /\ \A g \in Files \ {f} : row'[g] = row[g] /\ versions'[g] = versions[g]
      /\ UNCHANGED <<cache, save>>
  BY DEF DeleteRows, NoRow, Durability, CallInv, TypeOK, DbType, diskVars
<1>2. \A g \in Files \ {f} : KeptStatus'[g] = KeptStatus[g] /\ KeptCopies'[g] = KeptCopies[g]
  BY <1>1 DEF KeptStatus, KeptCopies, Uploaded, Exists, Empty
<1>3. KeptCopies'[f] = {}
  BY <1>1 DEF KeptCopies, Exists
<1>4. CASE Uploaded(f)
  <2>1. KeptStatus[f] = "kept" /\ KeptStatus'[f] = "gone"
    BY <1>1, <1>4 DEF KeptStatus, Uploaded, Exists, Empty
  <2>2. Durable!Discard(f)
    BY <1>2, <1>3, <2>1 DEF Durable!Discard, KeptStatus, KeptCopies
  <2> QED
    BY <2>2 DEF Durable!Next
<1>5. CASE ~Uploaded(f)
  <2>1. KeptStatus'[f] = KeptStatus[f] /\ KeptCopies[f] = {}
    BY <1>1, <1>5 DEF KeptStatus, KeptCopies, Uploaded, Exists, Empty
  <2> QED
    BY <1>2, <1>3, <2>1 DEF View, KeptStatus, KeptCopies
<1> QED
  BY <1>4, <1>5

(* Recording a version adds the copy on Telegram, or a torn one beside a    *)
(* whole one.                                                               *)
LEMMA RecordCopies ==
    ASSUME TypeOK, TypeOK', Durability, Durability', NEW p \in Passes, PassRecord(p)
    PROVE  [Durable!Next]_View
<1>0. PICK f \in Files : f = item[p].id
  BY ItemId DEF PassRecord, TypeOK, PassType
<1>1. row[f].status # "absent" /\ payload[p] \in Payloads
  BY <1>0 DEF PassRecord, TypeOK, PassType, Durability, PassInv
<1>2. CASE UNCHANGED <<row, versions, latest>>
  BY <1>2, Invisible DEF PassRecord, diskVars, callVars, Exists
<1>3. CASE RecordTelegramVersion(p) /\ Goto(p, "done")
  <2>1. Kept
    BY <1>3, RecordUpdate DEF PassRecord
  <2>2. /\ \A g \in Files : row'[g].status = row[g].status
        /\ \A g \in Files \ {f} : versions'[g] = versions[g]
        /\ versions'[f] = versions[f] \cup {payload[p]}
        /\ UNCHANGED <<cache, save>>
    BY <1>0, <1>1, <1>3 DEF PassRecord, RecordTelegramVersion, MarkSyncState, UpdateRow, TypeOK, DbType, Row,
                      diskVars, callVars
  <2>3. CASE Uploaded(f) /\ Exists(f)
    <3>1. "whole" \in versions'[f]
      <4>1. Backed(f)'
        BY <1>0, <1>3, RecordUpdate DEF PassRecord
      <4> QED
        BY <1>1, <2>2, <2>3, <4>1 DEF Backed, Exists
    <3>2. KeptStatus' = KeptStatus /\ KeptStatus[f] = "kept"
      BY <1>1, <2>2, <2>3 DEF KeptStatus, Uploaded, Exists, Empty
    <3>3. \A g \in Files \ {f} : KeptCopies'[g] = KeptCopies[g]
      BY <2>2 DEF KeptCopies, Uploaded, Exists, Empty
    <3>4. /\ KeptCopies'[f] = KeptCopies[f] \cup {"cloud"}
      BY <1>1, <2>2, <2>3, <3>1 DEF KeptCopies, Uploaded, Exists, Empty
    <3>5. KeptCopies[f] # {}
      BY <1>1, <2>3 DEF KeptCopies, Durability, DiskInv, Uploaded
    <3>6. KeptCopies' = [KeptCopies EXCEPT ![f] = KeptCopies'[f]]
      BY <1>1, <3>3 DEF KeptCopies
    <3>7. Durable!Copy(f, "cloud")
      BY <3>2, <3>4, <3>5, <3>6 DEF Durable!Copy
    <3> QED
      BY <1>1, <3>7 DEF Durable!Next, Durable!Places
  <2>4. CASE ~(Uploaded(f) /\ Exists(f))
    <3>1. KeptStatus' = KeptStatus
      BY <2>2 DEF KeptStatus, Uploaded, Exists, Empty
    <3>2. KeptCopies' = KeptCopies
      BY <2>2, <2>4 DEF KeptCopies, Uploaded, Exists, Empty
    <3> QED
      BY <3>1, <3>2 DEF View
  <2> QED
    BY <2>3, <2>4
<1> QED
  BY <1>2, <1>3 DEF PassRecord
(* Every step of the agent is a step of the promise or invisible to it.     *)
LEMMA RefinementStep ==
    TypeOK /\ TypeOK' /\ Durability /\ Durability' /\ [Next]_vars => [Durable!Next]_View
<1> SUFFICES ASSUME TypeOK, TypeOK', Durability, Durability', [Next]_vars
             PROVE  [Durable!Next]_View
  OBVIOUS
<1>1. ASSUME NEW f \in Files, FileStep(f) PROVE [Durable!Next]_View
  <2>1. CASE UploadBegin(f) \/ UploadBody(f) \/ SaveDuplicate(f)
    <3>1. row[f].status = "absent"
      BY <2>1 DEF UploadBegin, UploadBody, SaveDuplicate, Durability, CallInv, TypeOK, DbType, Row
    <3>2. /\ UNCHANGED <<row, versions>>
          /\ \A g \in Files \ {f} : cache'[g] = cache[g] /\ save'[g] = save[g]
      BY <2>1 DEF UploadBegin, UploadBody, SaveDuplicate, SaveGoto, TypeOK, DiskType, CallType, dbVars
    <3> QED
      BY <3>1, <3>2, Invisible DEF Exists
  <2>2. CASE ImportBegin(f)
    <3>1. row[f].status = "absent"
      BY <2>2 DEF ImportBegin, Durability, CallInv, TypeOK, DbType, Row
    <3>2. /\ UNCHANGED <<row, versions, cache>>
          /\ \A g \in Files \ {f} : save'[g] = save[g]
      BY <2>2 DEF ImportBegin, TypeOK, CallType, dbVars, diskVars
    <3> QED
      BY <3>1, <3>2, Invisible DEF Exists
  <2>3. CASE SaveLookup(f) \/ SaveAbort(f)
    BY <2>3, Invisible DEF SaveLookup, SaveAbort, SaveGoto, TypeOK, CallType, Save, dbVars, diskVars,
                           Exists
  <2>4. CASE SaveInsert(f)
    BY <2>4, InsertAccepts
  <2>5. CASE DeleteRows(f)
    BY <2>5, DeleteDiscards
  <2>6. CASE DeleteUnlink(f)
    <3>1. ~Exists(f)
      BY <2>6 DEF DeleteUnlink, Durability, CallInv, Exists
    <3>2. /\ UNCHANGED <<row, versions, save>>
          /\ \A g \in Files \ {f} : cache'[g] = cache[g]
      BY <2>6 DEF DeleteUnlink, Write, TypeOK, DiskType, dbVars, diskVars
    <3> QED
      BY <3>1, <3>2, Invisible DEF Exists
  <2>7. CASE DeleteBegin(f) \/ DeleteFails(f) \/ RetryWindowElapses(f)
    BY <2>7, Elsewhere DEF DeleteBegin, DeleteFails, RetryWindowElapses, callVars
  <2>8. CASE TrashFile(f) \/ RestoreFile(f) \/ TransferExpires(f)
    <3>1. Kept
      BY <2>8 DEF TrashFile, RestoreFile, TransferExpires, Live, Kept, Exists, TypeOK, DbType, Row
    <3> QED
      BY <2>8, <3>1, Labels DEF TrashFile, RestoreFile, TransferExpires, callVars
  <2>9. CASE RemoveSource(f)
    BY <2>9, Invisible DEF RemoveSource, dbVars, callVars, Exists
  <2> QED
    BY <1>1, <2>1, <2>2, <2>3, <2>4, <2>5, <2>6, <2>7, <2>8, <2>9 DEF FileStep, SaveStep, DeleteStep
<1>2. ASSUME NEW p \in Passes, PassBegin(p) \/ PassStep(p) \/ Disconnect(p)
      PROVE  [Durable!Next]_View
  <2>1. CASE \/ PassBegin(p) \/ PassTake(p) \/ PassEnd(p) \/ PassStat(p) \/ PassUpload(p)
             \/ PassUploadFails(p) \/ PassEvict(p) \/ Disconnect(p)
    BY <2>1, Elsewhere DEF PassBegin, PassTake, PassEnd, PassStat, PassUpload, PassUploadFails,
                           PassEvict, Disconnect, callVars
  <2>2. CASE PassMissing(p) \/ PassMark(p) \/ PassFailed(p)
    <3>1. Kept
      BY <2>2, MarkUpdate, SameDb, ItemId
         DEF PassMissing, PassMark, PassFailed, TypeOK, PassType, SyncStates, dbVars
    <3> QED
      BY <2>2, <3>1, Labels DEF PassMissing, PassMark, PassFailed, callVars
  <2>3. CASE \/ PassMissingTransfer(p) \/ PassProgress(p) \/ PassFailedTransfer(p)
             \/ PassDone(p)
    BY <2>3, Invisible DEF PassMissingTransfer, PassProgress, PassFailedTransfer, PassDone, callVars,
                           diskVars, Exists
  <2>4. CASE PassRecord(p)
    BY <2>4, RecordCopies
  <2>5. CASE PassEvictRemove(p)
    <3>1. item[p].id \in Files /\ row[item[p].id].status # "absent" /\ Backed(item[p].id)
      BY <2>5, ItemId DEF PassEvictRemove, Durability, PassInv, TypeOK, PassType
    <3>2. CASE UNCHANGED cache
      BY <2>5, <3>2, Invisible DEF PassEvictRemove, dbVars, callVars, Exists
    <3> QED
      BY <2>5, <3>1, <3>2, CacheWrite DEF PassEvictRemove, OnDisk, callVars
  <2>6. CASE PassEvictClear(p)
    <3>1. Kept
      BY <2>6, PathUpdate, SameDb, ItemId DEF PassEvictClear, TypeOK, PassType, dbVars
    <3> QED
      BY <2>6, <3>1, Labels DEF PassEvictClear, callVars
  <2> QED
    BY <1>2, <2>1, <2>2, <2>3, <2>4, <2>5, <2>6 DEF PassStep
<1>3. ASSUME NEW r \in Readers, (\E f \in Files : ReaderOpen(r, f)) \/ ReaderStep(r)
      PROVE  [Durable!Next]_View
  <2>1. CASE \/ \E f \in Files : ReaderOpen(r, f)
             \/ ReaderVersion(r) \/ ReaderLeave(r) \/ ReaderBreaksOff(r)
    BY <2>1, Elsewhere DEF ReaderOpen, ReaderVersion, ReaderLeave, ReaderBreaksOff, callVars
  <2>2. CASE ReaderDownload(r) \/ ReaderFetched(r)
    <3>1. ritem[r] \in Items /\ row[ritem[r].id].status # "absent" /\ Backed(ritem[r].id)
      BY <2>2 DEF ReaderDownload, ReaderFetched, Durability, ReaderInv, TypeOK, ReaderType
    <3>2. UNCHANGED <<dbVars, save>>
      BY <2>2 DEF ReaderDownload, ReaderFetched, callVars
    <3>3. PICK c \in OnDisk : Write(ritem[r], c)
      BY <2>2 DEF ReaderDownload, ReaderFetched, OnDisk
    <3>4. CASE ritem[r].path = "cache"
      BY <3>1, <3>2, <3>3, <3>4, CacheWrite, ItemId DEF Write
    <3>5. CASE ritem[r].path # "cache"
      BY <3>2, <3>3, <3>5, Invisible DEF Write, dbVars, Exists
    <3> QED
      BY <3>4, <3>5
  <2>3. CASE ReaderRelabel(r)
    <3>1. Kept
      BY <2>3, PathUpdate, SameDb, ItemId DEF ReaderRelabel, TypeOK, ReaderType, dbVars
    <3> QED
      BY <2>3, <3>1, Labels DEF ReaderRelabel, callVars
  <2> QED
    BY <1>3, <2>1, <2>2, <2>3 DEF ReaderStep
<1>4. ASSUME NEW c \in Cleaners, CleanerBegin(c) \/ CleanerStep(c) PROVE [Durable!Next]_View
  <2>1. CASE CleanerBegin(c) \/ CleanerEnd(c)
    BY <2>1, Elsewhere DEF CleanerBegin, CleanerEnd, callVars
  <2>2. CASE CleanerRemove(c)
    <3>1. PICK f \in cqueue[c] : cache' = [cache EXCEPT ![f] = "absent"] \/ UNCHANGED cache
      BY <2>2 DEF CleanerRemove
    <3>2. f \in Files /\ row[f].status # "absent" /\ Backed(f)
      BY DEF Durability, CleanerInv, TypeOK, CleanerType
    <3>3. UNCHANGED <<dbVars, source, save>>
      BY <2>2 DEF CleanerRemove, callVars
    <3> QED
      BY <3>1, <3>2, <3>3, CacheWrite, Elsewhere DEF OnDisk, diskVars
  <2>3. CASE CleanerClear(c)
    <3>1. Kept
      BY <2>3, PathUpdate, SameDb DEF CleanerClear, TypeOK, CleanerType, dbVars
    <3> QED
      BY <2>3, <3>1, Labels DEF CleanerClear, callVars
  <2> QED
    BY <1>4, <2>1, <2>2, <2>3 DEF CleanerStep
<1>5. ASSUME Crash PROVE [Durable!Next]_View
  BY <1>5, Invisible DEF Crash, TypeOK, CallType, Save, dbVars, diskVars, Exists
<1>7. ASSUME NEW mode \in Policies, SetCachePolicy(mode) PROVE [Durable!Next]_View
  BY <1>7, Elsewhere DEF SetCachePolicy, callVars
<1>6. CASE TogglePause \/ UNCHANGED vars
  BY <1>6, Elsewhere DEF TogglePause, vars, callVars
<1> QED
  BY <1>1, <1>2, <1>3, <1>4, <1>5, <1>6, <1>7 DEF Next

(* The agent implements the promise DurableBytes: an uploaded file has a    *)
(* whole copy until its row is deleted, and every copy is made from one.    *)
THEOREM Implements == Spec => ImplementsDurableBytes
<1>1. Init => Durable!Init
  BY DEF Init, Durable!Init, KeptStatus, KeptCopies, Exists, NoRow
<1> QED
  BY <1>1, RefinementStep, TypeCorrect, DurabilityHolds, PTL
     DEF Spec, ImplementsDurableBytes, Durable!Spec, View
=============================================================================

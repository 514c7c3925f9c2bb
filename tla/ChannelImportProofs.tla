------------------------- MODULE ChannelImportProofs -------------------------
(***************************************************************************)
(* What ChannelImport guarantees for any channels, page size and bounds.   *)
(***************************************************************************)
EXTENDS ChannelImport, TLAPS

(* The scan in progress: what is left of the page lies behind its cursor,   *)
(* and the message in hand is the one its cursor stands on.                 *)
ScanInv ==
    /\ scanPC \in {"idle", "page"} => batch = {}
    /\ scanPC = "page" => last = cursor /\ loops < MaxLoops
    /\ scanPC # "idle" => cursor <= last
    /\ \A i \in batch : last < i
    /\ scanPC \in {"check", "insert"} => item = last /\ cursor < item
    /\ scanPC = "insert" => imported[<<peer, item>>] = 0

IInv == ImportTypeOK /\ ScanInv /\ ImportedOnce

(* The initial state.                                                       *)
LEMMA InitIInv == ASSUME ImportInit PROVE IInv
  BY ImportAssumption
     DEF ImportInit, Rest, IInv, ImportTypeOK, ScanInv, ImportedOnce, Messages, Ids, Kinds

(* Every step of the scanner keeps the types.                               *)
LEMMA TypeScan == ASSUME IInv, Scan PROVE ImportTypeOK'
<1> USE ImportAssumption DEF IInv, ImportTypeOK, telegramVars, driveVars, scanVars, ToRest, Messages, Ids
<1>1. CASE ScanBegin BY <1>1 DEF ScanBegin, ScanBeginWhen
<1>2. CASE ScanPage BY <1>2 DEF ScanPage, PageAfter, ScanInv
<1>3. CASE ScanEmpty \/ ScanFails BY <1>3 DEF ScanEmpty, ScanFails
<1>4. CASE NextMessage
  <2>1. PICK i \in batch : /\ item' = i /\ batch' = batch \ {i}
                           /\ last' = IF i > last THEN i ELSE last
    BY <1>4 DEF NextMessage
  <2>2. i \in Ids /\ i \in 0..MaxId BY <2>1
  <2> QED BY <1>4, <2>1, <2>2 DEF NextMessage
<1>5. CASE CheckKnown \/ CheckUnknown BY <1>5 DEF CheckKnown, CheckUnknown, CheckUnknownWhen
<1>6. CASE InsertImport BY <1>6 DEF InsertImport
<1>7. CASE ImportFails BY <1>7 DEF ImportFails
<1>8. CASE SaveCursor BY <1>8 DEF SaveCursor, Save
<1>9. CASE CursorFails BY <1>9 DEF CursorFails
<1> QED BY <1>1, <1>2, <1>3, <1>4, <1>5, <1>6, <1>7, <1>8, <1>9 DEF Scan

(* Every step of the scanner keeps its cursor in order and imports a        *)
(* message once.                                                            *)
LEMMA OnceScan == ASSUME IInv, Scan PROVE ScanInv' /\ ImportedOnce'
<1> USE ImportAssumption DEF IInv, ImportTypeOK, ScanInv, ImportedOnce, telegramVars, driveVars,
        scanVars, ToRest, Messages, Ids
<1>1. CASE ScanBegin BY <1>1 DEF ScanBegin, ScanBeginWhen
<1>2. CASE ScanPage BY <1>2 DEF ScanPage, PageAfter
<1>3. CASE ScanEmpty \/ ScanFails BY <1>3 DEF ScanEmpty, ScanFails
<1>4. CASE NextMessage
  <2>1. PICK i \in batch : /\ item' = i /\ batch' = batch \ {i}
                           /\ last' = IF i > last THEN i ELSE last
                           /\ \A j \in batch : i <= j
    BY <1>4 DEF NextMessage
  <2>2. i \in Int /\ last < i /\ last' = i /\ cursor < i BY <1>4, <2>1 DEF NextMessage
  <2>3. \A j \in batch' : last' < j BY <2>1, <2>2
  <2> QED BY <1>4, <2>1, <2>2, <2>3 DEF NextMessage
<1>5. CASE CheckKnown BY <1>5 DEF CheckKnown
<1>10. CASE CheckUnknown
  <2>1. scanPC = "check" /\ <<peer, item>> \in Messages /\ ~KnownMessage(<<peer, item>>)
    BY <1>10 DEF CheckUnknown, CheckUnknownWhen
  <2>2. imported[<<peer, item>>] = 0 BY <2>1 DEF KnownMessage
  <2> QED BY <1>10, <2>1, <2>2 DEF CheckUnknown, CheckUnknownWhen
<1>6. CASE InsertImport BY <1>6 DEF InsertImport
<1>7. CASE ImportFails BY <1>7 DEF ImportFails
<1>8. CASE SaveCursor BY <1>8 DEF SaveCursor, Save
<1>9. CASE CursorFails BY <1>9 DEF CursorFails
<1> QED BY <1>1, <1>2, <1>3, <1>4, <1>5, <1>6, <1>7, <1>8, <1>9, <1>10 DEF Scan

(* So does everybody else.                                                  *)
LEMMA NextIInv == ASSUME IInv, [ImportNext]_importVars PROVE IInv'
<1> USE ImportAssumption DEF IInv, ImportTypeOK, ScanInv, ImportedOnce, telegramVars, driveVars,
        scanVars, Messages, Ids
<1>1. CASE Scan BY <1>1, TypeScan, OnceScan
<1>2. ASSUME NEW h \in Channels, ForeignPost(h) \/ TextPost(h) \/ OwnPost(h) PROVE IInv'
  <2>1. PICK kind \in Kinds : Posts(h, kind)
    BY <1>2 DEF ForeignPost, TextPost, OwnPost, Kinds
  <2>2. /\ history' \in [Channels -> Seq(Kinds)]
        /\ \A g \in Channels : Len(history'[g]) <= MaxId
    BY <2>1 DEF Posts
  <2>3. outbox' \subseteq Messages
    BY <1>2 DEF ForeignPost, TextPost, OwnPost, Posts
  <2> QED BY <1>2, <2>2, <2>3 DEF ForeignPost, TextPost, OwnPost
<1>3. ASSUME NEW m \in Messages, Record(m) \/ RecordFails(m) PROVE IInv'
  BY <1>3 DEF Record, RecordFails
<1>4. ASSUME NEW m \in Messages, DeleteImported(m) PROVE IInv'
  <2>1. imported[m] \in Nat /\ imported[m] > 0 /\ imported[m] <= 1
    BY <1>4 DEF DeleteImported
  <2>2. imported' = [imported EXCEPT ![m] = imported[m] - 1]
    BY <1>4 DEF DeleteImported
  <2>3. imported[m] - 1 = 0 BY <2>1
  <2>4. imported' = [imported EXCEPT ![m] = 0] BY <2>2, <2>3
  <2> QED BY <1>4, <2>4 DEF DeleteImported
<1>8. ASSUME NEW m \in Messages, DeleteUploaded(m) PROVE IInv'
  BY <1>8 DEF DeleteUploaded
<1>5. ASSUME NEW h \in Channels \cup {Self}, Switch(h) PROVE IInv'
  BY <1>5 DEF Switch
<1>6. CASE AgentStops BY <1>6 DEF AgentStops, ToRest
<1>7. CASE UNCHANGED importVars BY <1>7 DEF importVars
<1> QED BY <1>1, <1>2, <1>3, <1>4, <1>5, <1>6, <1>7, <1>8 DEF ImportNext

LEMMA IInvHolds == ImportSpec => []IInv
  BY InitIInv, NextIInv, PTL DEF ImportSpec

(* Every variable of the import keeps its type.                             *)
THEOREM TypeCorrect == ImportSpec => []ImportTypeOK
  BY IInvHolds, PTL DEF IInv

(* A message is imported once at most, over any number of stops, failures   *)
(* and changes of the storage channel (channel_import.go).                  *)
THEOREM ImportsOnce == ImportSpec => []ImportedOnce
  BY IInvHolds, PTL DEF IInv

-----------------------------------------------------------------------------
(* The saved cursor never goes back, and nothing up to it is imported       *)
(* (channel_import.go, lastScannedMessageID).                               *)
THEOREM PassedStaysPassed == ImportSpec => NoReimport
<1> DEFINE Forward == /\ cursor' >= cursor
                      /\ \A m \in Messages : imported'[m] > imported[m] => m[2] > cursor
<1>1. ASSUME IInv, [ImportNext]_importVars PROVE [Forward]_importVars
  <2> SUFFICES ASSUME ImportNext PROVE Forward BY <1>1
  <2> USE <1>1 DEF IInv, ImportTypeOK, ScanInv, driveVars
  <2>1. CASE InsertImport
    <3>1. \A m \in Messages : imported'[m] > imported[m] => m = <<peer, item>>
      BY <2>1 DEF InsertImport
    <3> QED BY <2>1, <3>1 DEF InsertImport
  <2>2. CASE SaveCursor BY <2>2 DEF SaveCursor, Save
  <2>3. ASSUME UNCHANGED <<imported, cursor>> PROVE Forward
    BY <2>3
  <2>4. CASE Scan /\ ~InsertImport /\ ~SaveCursor
    BY <2>3, <2>4 DEF Scan, ScanBegin, ScanBeginWhen, ScanPage, ScanEmpty, ScanFails, NextMessage,
                      CheckKnown, CheckUnknown, CheckUnknownWhen, ImportFails, CursorFails
  <2>5. ASSUME NEW h \in Channels, ForeignPost(h) \/ TextPost(h) \/ OwnPost(h) PROVE Forward
    BY <2>3, <2>5 DEF ForeignPost, TextPost, OwnPost
  <2>6. ASSUME NEW m \in Messages, Record(m) \/ RecordFails(m) \/ DeleteUploaded(m) PROVE Forward
    BY <2>3, <2>6 DEF Record, RecordFails, DeleteUploaded
  <2>7. ASSUME NEW m \in Messages, DeleteImported(m) PROVE Forward
    <3>1. \A n \in Messages : imported'[n] <= imported[n]
      BY <2>7 DEF DeleteImported
    <3> QED BY <2>7, <3>1 DEF DeleteImported
  <2>8. ASSUME NEW h \in Channels \cup {Self}, Switch(h) PROVE Forward
    BY <2>3, <2>8 DEF Switch
  <2>9. CASE AgentStops BY <2>3, <2>9 DEF AgentStops
  <2> QED BY <2>1, <2>2, <2>4, <2>5, <2>6, <2>7, <2>8, <2>9 DEF ImportNext
<1> QED BY <1>1, IInvHolds, PTL DEF ImportSpec, NoReimport

-----------------------------------------------------------------------------
(* With one channel nothing is passed over.                                 *)
OneChannel == \A g, h \in Channels : g = h

Accounted(m) == KnownMessage(m) \/ m \in forgone

(* What the scan has behind it is accounted for, except the message in its  *)
(* hand, and the rest of the page holds every message with media up to its  *)
(* last one.                                                                *)
Behind ==
    \A i \in Ids : i <= last /\ IsMedia(peer, i) =>
        Accounted(<<peer, i>>) \/ (scanPC \in {"check", "insert"} /\ i = item)

Ahead ==
    \A i \in Ids, j \in batch : last < i /\ i <= j /\ IsMedia(peer, i) => i \in batch

PassInv ==
    /\ \A h \in Channels : cursor <= Len(history[h])
    /\ NothingPassedOver
    /\ scanPC # "idle" =>
        /\ last <= Len(history[peer])
        /\ \A i \in batch : IsMedia(peer, i)
        /\ Behind /\ Ahead

(* A scan that begins, asks for a page or takes a message keeps that.       *)
LEMMA PassPage ==
    ASSUME OneChannel, IInv, PassInv, ScanBegin \/ ScanPage \/ ScanEmpty \/ ScanFails
    PROVE  PassInv'
<1> USE DEF IInv, ImportTypeOK, ScanInv, PassInv, telegramVars, driveVars, ToRest
<1>1. CASE ScanBegin
  <2>1. \A i \in Ids : i <= cursor /\ IsMedia(settings, i) => Accounted(<<settings, i>>)
    BY <1>1 DEF ScanBegin, ScanBeginWhen, NothingPassedOver, Messages, Accounted
  <2>2. peer' = settings /\ last' = cursor /\ batch' = {} /\ settings \in Channels
    BY <1>1 DEF ScanBegin, ScanBeginWhen
  <2>3. Behind'
    BY <1>1, <2>1, <2>2 DEF ScanBegin, ScanBeginWhen, Behind, Accounted, KnownMessage, IsMedia
  <2>4. Ahead' BY <2>2 DEF Ahead
  <2>5. NothingPassedOver'
    BY <1>1 DEF ScanBegin, ScanBeginWhen, NothingPassedOver, KnownMessage, IsMedia
  <2> QED BY <1>1, <2>2, <2>3, <2>4, <2>5 DEF ScanBegin, ScanBeginWhen
<1>2. CASE ScanPage
  <2>1. Behind' BY <1>2 DEF ScanPage, Behind, Accounted, KnownMessage, IsMedia
  <2>2. Ahead'
    <3> SUFFICES ASSUME NEW i \in Ids, NEW j \in PageAfter(peer, last),
                        last < i, i <= j, IsMedia(peer, i)
                 PROVE  i \in PageAfter(peer, last)
      BY <1>2 DEF ScanPage, Ahead, IsMedia
    <3> QED BY ImportAssumption DEF PageAfter, Ids
  <2>3. \A i \in batch' : IsMedia(peer, i)' BY <1>2 DEF ScanPage, PageAfter, IsMedia
  <2>4. NothingPassedOver' BY <1>2 DEF ScanPage, NothingPassedOver, KnownMessage, IsMedia
  <2> QED BY <1>2, <2>1, <2>2, <2>3, <2>4 DEF ScanPage
<1>3. CASE ScanEmpty \/ ScanFails
  <2>1. NothingPassedOver'
    BY <1>3 DEF ScanEmpty, ScanFails, NothingPassedOver, KnownMessage, IsMedia
  <2> QED BY <1>3, <2>1 DEF ScanEmpty, ScanFails
<1> QED BY <1>1, <1>2, <1>3

(* The loop over the batch keeps it.                                        *)
LEMMA PassMessage ==
    ASSUME OneChannel, IInv, PassInv,
           NextMessage \/ CheckKnown \/ CheckUnknown \/ InsertImport \/ ImportFails
    PROVE  PassInv'
<1> USE DEF IInv, ImportTypeOK, ScanInv, PassInv, telegramVars, driveVars
<1>1. CASE NextMessage
  <2>1. PICK i \in batch : /\ item' = i /\ batch' = batch \ {i}
                           /\ last' = IF i > last THEN i ELSE last
                           /\ \A j \in batch : i <= j
    BY <1>1 DEF NextMessage
  <2>2. i \in Ids /\ last < i /\ last' = i BY <1>1, <2>1 DEF NextMessage, Ids
  <2>3. \A k \in Ids : last < k /\ k < i => ~IsMedia(peer, k)
    <3> SUFFICES ASSUME NEW k \in Ids, last < k, k < i, IsMedia(peer, k) PROVE FALSE
      OBVIOUS
    <3>1. k \in batch BY <1>1, <2>1, <2>2 DEF NextMessage, Ahead, Ids
    <3> QED BY <2>1, <2>2, <3>1 DEF Ids
  <2>4. Behind'
    <3> SUFFICES ASSUME NEW k \in Ids, k <= i, IsMedia(peer, k), k # i
                 PROVE  Accounted(<<peer, k>>)
      BY <1>1, <2>1, <2>2 DEF NextMessage, Behind, Accounted, KnownMessage, IsMedia
    <3>1. k <= last BY <2>2, <2>3 DEF Ids
    <3> QED BY <1>1, <3>1 DEF Behind, NextMessage
  <2>5. Ahead' BY <1>1, <2>1, <2>2 DEF NextMessage, Ahead, IsMedia, Ids
  <2>6. NothingPassedOver' BY <1>1 DEF NextMessage, NothingPassedOver, KnownMessage, IsMedia
  <2>7. last' <= Len(history'[peer']) BY <1>1, <2>1, <2>2 DEF NextMessage, IsMedia
  <2>8. \A j \in batch' : IsMedia(peer, j)' BY <1>1, <2>1 DEF NextMessage, IsMedia
  <2> QED BY <1>1, <2>4, <2>5, <2>6, <2>7, <2>8 DEF NextMessage
<1>2. ASSUME scanPC \in {"check", "insert"}, scanPC' \in {"next", "insert"},
             UNCHANGED <<history, cursor, peer, last, batch, item>>,
             \A m \in Messages : Accounted(m) => Accounted(m)',
             scanPC' = "next" => Accounted(<<peer, item>>)'
      PROVE  PassInv'
  <2>1. \A m \in Messages : IsMedia(m[1], m[2])' <=> IsMedia(m[1], m[2])
    BY <1>2 DEF IsMedia
  <2>2. NothingPassedOver' BY <1>2, <2>1 DEF NothingPassedOver, Accounted
  <2>3. Behind' BY <1>2 DEF Behind, IsMedia, Messages
  <2>4. Ahead' BY <1>2 DEF Ahead, IsMedia
  <2> QED BY <1>2, <2>2, <2>3, <2>4 DEF IsMedia
<1>3. CASE CheckKnown BY <1>2, <1>3 DEF CheckKnown, Accounted, KnownMessage
<1>4. CASE CheckUnknown
  BY <1>2, <1>4 DEF CheckUnknown, CheckUnknownWhen, Accounted, KnownMessage
<1>5. CASE InsertImport
  <2>1. <<peer, item>> \in Messages BY <1>5 DEF InsertImport, Messages
  <2>2. \A m \in Messages : imported'[m] >= imported[m]
    <3> SUFFICES ASSUME NEW m \in Messages PROVE imported'[m] >= imported[m] OBVIOUS
    <3>1. CASE m = <<peer, item>> BY <1>5, <2>1, <3>1 DEF InsertImport
    <3>2. CASE m # <<peer, item>> BY <1>5, <2>1, <3>2 DEF InsertImport
    <3> QED BY <3>1, <3>2
  <2>3. imported'[<<peer, item>>] > 0 BY <1>5, <2>1 DEF InsertImport
  <2>4. \A m \in Messages : imported[m] \in Nat /\ imported'[m] \in Int
    BY <1>5, <2>1 DEF InsertImport
  <2>5. \A m \in Messages : Accounted(m) => Accounted(m)'
    BY <1>5, <2>2, <2>4 DEF InsertImport, Accounted, KnownMessage
  <2>6. Accounted(<<peer, item>>)' BY <1>5, <2>3 DEF InsertImport, Accounted, KnownMessage
  <2> QED BY <1>2, <1>5, <2>5, <2>6 DEF InsertImport
<1>6. CASE ImportFails BY <1>2, <1>6 DEF ImportFails, Accounted, KnownMessage
<1> QED BY <1>1, <1>3, <1>4, <1>5, <1>6

(* So does the cursor that is saved, since the page is finished by then.    *)
LEMMA PassSave ==
    ASSUME OneChannel, IInv, PassInv, SaveCursor \/ CursorFails
    PROVE  PassInv'
<1> USE DEF IInv, ImportTypeOK, ScanInv, PassInv, telegramVars, driveVars, ToRest
<1>1. CASE SaveCursor
  <2>1. cursor' = last /\ scanPC = "next" /\ batch = {} BY <1>1 DEF SaveCursor, Save
  <2>2. NothingPassedOver'
    <3> SUFFICES ASSUME NEW m \in Messages, m[2] <= last, IsMedia(m[1], m[2])
                 PROVE  Accounted(m)
      BY <1>1, <2>1 DEF SaveCursor, Save, NothingPassedOver, Accounted, KnownMessage, IsMedia
    <3>1. m = <<m[1], m[2]>> /\ m[1] \in Channels /\ m[2] \in Ids BY DEF Messages
    <3>2. m[1] = peer BY <2>1, <3>1 DEF OneChannel
    <3>3. Accounted(<<peer, m[2]>>) BY <2>1, <3>1, <3>2 DEF Behind
    <3> QED BY <3>1, <3>2, <3>3
  <2>3. \A h \in Channels : cursor' <= Len(history'[h])
    BY <1>1, <2>1 DEF SaveCursor, Save, OneChannel
  <2>4. CASE scanPC' = "page"
    <3>1. UNCHANGED <<peer, last, batch>>
      BY <1>1, <2>4 DEF SaveCursor, Save
    <3>2. Behind' BY <1>1, <2>1, <2>4, <3>1 DEF SaveCursor, Save, Behind, Accounted, KnownMessage, IsMedia
    <3>3. Ahead' BY <2>1, <3>1 DEF Ahead
    <3> QED BY <1>1, <2>1, <2>2, <2>3, <2>4, <3>1, <3>2, <3>3 DEF SaveCursor, Save
  <2>5. CASE scanPC' = "idle" BY <2>2, <2>3, <2>5
  <2> QED BY <1>1, <2>4, <2>5 DEF SaveCursor, Save
<1>2. CASE CursorFails
  <2>1. NothingPassedOver' BY <1>2 DEF CursorFails, NothingPassedOver, KnownMessage, IsMedia
  <2> QED BY <1>2, <2>1 DEF CursorFails
<1> QED BY <1>1, <1>2

(* Nobody else takes away what accounts for a message, or writes a message  *)
(* where the scanner has been.                                              *)
LEMMA PassOthers ==
    ASSUME OneChannel, IInv, PassInv, [ImportNext]_importVars, ~Scan
    PROVE  PassInv'
<1> USE DEF IInv, ImportTypeOK, ScanInv, PassInv, telegramVars, driveVars, scanVars
<1> DEFINE SameScan == /\ scanPC' = scanPC /\ peer' = peer /\ last' = last
                       /\ batch' = batch /\ item' = item
<1>1. ASSUME cursor' = cursor, scanPC' = "idle" \/ SameScan,
             \A h \in Channels : Len(history'[h]) >= Len(history[h]) /\ Len(history'[h]) \in Nat,
             \A h \in Channels, i \in Ids :
                i <= Len(history[h]) => history'[h][i] = history[h][i],
             \A m \in Messages : Accounted(m) => Accounted(m)'
      PROVE  PassInv'
  <2>1. \A h \in Channels, i \in Ids :
            i <= Len(history[h]) => (IsMedia(h, i)' <=> IsMedia(h, i))
    BY <1>1 DEF IsMedia, Ids
  <2>2. NothingPassedOver'
    <3> SUFFICES ASSUME NEW m \in Messages, m[2] <= cursor, IsMedia(m[1], m[2])'
                 PROVE  Accounted(m)'
      BY <1>1 DEF NothingPassedOver, Accounted
    <3>1. m[1] \in Channels /\ m[2] \in Ids BY DEF Messages
    <3>2. m[2] <= Len(history[m[1]]) BY <3>1 DEF Ids
    <3>3. Accounted(m) BY <2>1, <3>1, <3>2 DEF NothingPassedOver, Accounted
    <3> QED BY <1>1, <3>3
  <2>3. \A h \in Channels : cursor' <= Len(history'[h]) BY <1>1
  <2>4. CASE scanPC' # "idle"
    <3>1. UNCHANGED <<cursor, scanPC, peer, last, batch, item>> /\ peer \in Channels BY <1>1, <2>4
    <3>2. Behind'
      <4> SUFFICES ASSUME NEW i \in Ids, i <= last, IsMedia(peer, i)',
                          ~(scanPC \in {"check", "insert"} /\ i = item)
                   PROVE  Accounted(<<peer, i>>)'
        BY <3>1 DEF Behind, IsMedia
      <4>1. IsMedia(peer, i) BY <2>1, <2>4, <3>1 DEF Ids
      <4>2. Accounted(<<peer, i>>) BY <2>4, <3>1, <4>1 DEF Behind
      <4> QED BY <1>1, <3>1, <4>2 DEF Messages
    <3>3. Ahead'
      <4> SUFFICES ASSUME NEW i \in Ids, NEW j \in batch, last < i, i <= j, IsMedia(peer, i)'
                   PROVE  i \in batch
        BY <3>1 DEF Ahead, IsMedia
      <4>1. i <= Len(history[peer]) BY <2>4, <3>1 DEF IsMedia, Ids
      <4> QED BY <2>1, <2>4, <3>1, <4>1 DEF Ahead
    <3>4. \A i \in batch' : IsMedia(peer, i)'
      BY <2>1, <2>4, <3>1 DEF IsMedia
    <3>5. last <= Len(history'[peer]) BY <1>1, <2>4, <3>1
    <3> QED BY <2>2, <2>3, <2>4, <3>1, <3>2, <3>3, <3>4, <3>5 DEF IsMedia
  <2> QED BY <2>2, <2>3, <2>4
<1>2. ASSUME NEW h \in Channels, ForeignPost(h) \/ TextPost(h) \/ OwnPost(h) PROVE PassInv'
  <2>1. PICK kind \in Kinds : Posts(h, kind)
    BY <1>2 DEF ForeignPost, TextPost, OwnPost, Kinds
  <2>2. \A g \in Channels : Len(history'[g]) >= Len(history[g]) /\ Len(history'[g]) \in Nat
    BY <2>1 DEF Posts
  <2>3. \A g \in Channels, i \in Ids :
            i <= Len(history[g]) => history'[g][i] = history[g][i]
    BY <2>1 DEF Posts, Ids
  <2>4. UNCHANGED <<cursor, scanPC, peer, last, batch, item, imported, recorded, forgone>>
    BY <1>2 DEF ForeignPost, TextPost, OwnPost
  <2>5. \A m \in Messages : Accounted(m) => Accounted(m)' BY <2>4 DEF Accounted, KnownMessage
  <2> QED BY <1>1, <2>2, <2>3, <2>4, <2>5
<1>3. ASSUME UNCHANGED history, \A m \in Messages : Accounted(m) => Accounted(m)',
             cursor' = cursor, scanPC' = "idle" \/ SameScan
      PROVE  PassInv'
  BY <1>1, <1>3
<1>4. ASSUME NEW m \in Messages, Record(m) \/ RecordFails(m) PROVE PassInv'
  <2>1. UNCHANGED <<history, cursor, scanPC, peer, last, batch, item>>
    BY <1>4 DEF Record, RecordFails
  <2>2. \A n \in Messages : Accounted(n) => Accounted(n)'
    BY <1>4 DEF Record, RecordFails, Accounted, KnownMessage
  <2> QED BY <1>3, <2>1, <2>2
<1>5. ASSUME NEW m \in Messages, DeleteImported(m) \/ DeleteUploaded(m) PROVE PassInv'
  <2>1. UNCHANGED <<history, cursor, scanPC, peer, last, batch, item>>
    BY <1>5 DEF DeleteImported, DeleteUploaded
  <2>2. \A n \in Messages : Accounted(n) => Accounted(n)'
    BY <1>5 DEF DeleteImported, DeleteUploaded, Accounted, KnownMessage
  <2> QED BY <1>3, <2>1, <2>2
<1>6. ASSUME NEW h \in Channels \cup {Self}, Switch(h) PROVE PassInv'
  <2>1. UNCHANGED <<history, cursor, scanPC, peer, last, batch, item>>
    BY <1>6 DEF Switch
  <2>2. \A n \in Messages : Accounted(n) => Accounted(n)'
    BY <1>6 DEF Switch, Accounted, KnownMessage
  <2> QED BY <1>3, <2>1, <2>2
<1>7. CASE AgentStops BY <1>3, <1>7 DEF AgentStops, ToRest, Accounted, KnownMessage
<1>8. CASE UNCHANGED importVars
  <2>1. UNCHANGED <<history, cursor, scanPC, peer, last, batch, item>>
    BY <1>8 DEF importVars
  <2>2. \A n \in Messages : Accounted(n) => Accounted(n)'
    BY <1>8 DEF importVars, Accounted, KnownMessage
  <2> QED BY <1>3, <2>1, <2>2
<1> QED BY <1>2, <1>4, <1>5, <1>6, <1>7, <1>8 DEF ImportNext

(* As long as one channel is used, the cursor never leaves a message with   *)
(* media behind that has neither a row nor an excuse (channel_import.go,    *)
(* ImportChannelFiles).                                                     *)
THEOREM NothingIsPassedOver == ASSUME OneChannel PROVE ImportSpec => []NothingPassedOver
<1>1. ImportInit => PassInv
  BY ImportAssumption
     DEF ImportInit, Rest, PassInv, NothingPassedOver, Behind, Ahead, IsMedia, Messages, Ids
<1>2. ASSUME IInv, PassInv, [ImportNext]_importVars PROVE PassInv'
  BY <1>2, PassPage, PassMessage, PassSave, PassOthers DEF Scan
<1>3. PassInv => NothingPassedOver BY DEF PassInv
<1> QED BY <1>1, <1>2, <1>3, IInvHolds, PTL DEF ImportSpec
=============================================================================

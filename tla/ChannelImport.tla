---------------------------- MODULE ChannelImport ----------------------------
(***************************************************************************)
(* Files that other Telegram clients put into the storage channel appear   *)
(* in the drive (internal/drive/channel_import.go, and the scan worker of  *)
(* service.go), while the sync pass posts the drive's own files to the     *)
(* same channel and files are deleted for ever.                            *)
(*                                                                         *)
(* A step of the scanner is one statement, one transaction or one request  *)
(* to Telegram.  There is one scanner, the goroutine of ChannelScanWorker. *)
(***************************************************************************)
EXTENDS Integers, Sequences, FiniteSets

CONSTANTS
    Channels,    \* channels that may become the storage channel
    Self,        \* the setting that stores in Saved Messages
    MaxId,       \* bound on the messages of a channel
    Page,        \* messages in one page of the history (100)
    MaxLoops,    \* pages in one scan (50)
    MaxTexts,    \* bound on the messages without media
    MaxStops,    \* bound on the stops of the agent
    ImportEvents       \* what may happen: "store_fails", "delete", "switch"

ASSUME ImportAssumption ==
    /\ MaxId \in Nat /\ Page \in Nat \ {0} /\ MaxLoops \in Nat \ {0}
    /\ MaxTexts \in Nat /\ MaxStops \in Nat
    /\ Self \notin Channels
    /\ ImportEvents \subseteq {"store_fails", "delete", "switch"}

VARIABLES
    settings,  \* storage_settings: the channel that is configured, or Self
    history,   \* of each channel at Telegram: the kinds of its messages
    outbox,    \* messages of the sync pass that it has yet to record
    imported,  \* how many rows of the import name a message
    recorded,  \* messages named by a version of an uploaded file
    cursor,    \* channel_scan_state.last_message_id
    forgone,   \* messages whose import failed once, or whose file was deleted
    stops,     \* how often the agent has stopped
    scanPC,        \* where the scan is
    peer,      \* the channel it scans
    last,      \* its own copy of the cursor
    batch,     \* the messages of the page it has not reached
    item,      \* the one it imports
    loops      \* the pages it has asked for

telegramVars == <<history, outbox>>
driveVars    == <<imported, recorded, forgone>>
scanVars     == <<scanPC, peer, last, batch, item, loops>>
importVars == <<settings, telegramVars, driveVars, cursor, stops, scanVars>>

Ids      == 1..MaxId
Messages == Channels \X Ids
Kinds    == {"foreign", "own", "text"}

ImportTypeOK ==
    /\ settings \in Channels \cup {Self}
    /\ history \in [Channels -> Seq(Kinds)] /\ \A h \in Channels : Len(history[h]) <= MaxId
    /\ outbox \subseteq Messages /\ recorded \subseteq Messages
    /\ forgone \subseteq Messages
    /\ imported \in [Messages -> Nat]
    /\ cursor \in 0..MaxId /\ last \in 0..MaxId /\ item \in 0..MaxId
    /\ batch \subseteq Ids /\ loops \in 0..MaxLoops /\ stops \in 0..MaxStops
    /\ scanPC \in {"idle", "page", "next", "check", "insert"}
    /\ peer \in Channels \cup {Self}
    /\ scanPC # "idle" => peer \in Channels
    /\ scanPC \in {"check", "insert"} => item \in Ids

IsMedia(h, i) == i <= Len(history[h]) /\ history[h][i] # "text"
KnownMessage(m)      == imported[m] > 0 \/ m \in recorded

Rest ==
    /\ scanPC = "idle" /\ peer = Self /\ last = 0 /\ batch = {} /\ item = 0 /\ loops = 0

ImportInit ==
    /\ settings = Self
    /\ history = [h \in Channels |-> <<>>] /\ outbox = {}
    /\ imported = [m \in Messages |-> 0] /\ recorded = {}
    /\ forgone = {} /\ cursor = 0 /\ stops = 0
    /\ Rest

ToRest ==
    /\ scanPC' = "idle" /\ peer' = Self /\ last' = 0 /\ batch' = {} /\ item' = 0 /\ loops' = 0

-----------------------------------------------------------------------------
ScanBeginWhen(configured) ==
    /\ scanPC = "idle" /\ configured
    /\ peer' = settings /\ last' = cursor /\ loops' = 0
    /\ scanPC' = "page"
    /\ UNCHANGED <<settings, telegramVars, driveVars, cursor, stops, batch, item>>

(* Seeded fault: Saved Messages are scanned like a channel.                 *)
ScansAnything == ScanBeginWhen(TRUE)

(* runChannelScan and the head of ImportChannelFiles: the settings and the  *)
(* cursor.  Nobody else writes the cursor.                                  *)
ScanBegin == ScanBeginWhen(settings # Self)

(* ScanChannelHistory: the oldest page behind the cursor, of which only the *)
(* messages with media come back.  An empty batch ends the scan.            *)
PageAfter(h, n) == {i \in Ids : n < i /\ i <= n + Page /\ IsMedia(h, i)}

ScanPage ==
    /\ scanPC = "page" /\ PageAfter(peer, last) # {}
    /\ batch' = PageAfter(peer, last) /\ loops' = loops + 1
    /\ scanPC' = "next"
    /\ UNCHANGED <<settings, telegramVars, driveVars, cursor, stops, peer, last, item>>

ScanEmpty ==
    /\ scanPC = "page" /\ PageAfter(peer, last) = {}
    /\ ToRest
    /\ UNCHANGED <<settings, telegramVars, driveVars, cursor, stops>>

ScanFails ==
    /\ scanPC = "page" /\ "store_fails" \in ImportEvents
    /\ ToRest
    /\ UNCHANGED <<settings, telegramVars, driveVars, cursor, stops>>

(* The loop over the batch, oldest first.                                   *)
NextMessage ==
    /\ scanPC = "next"
    /\ \E i \in batch :
        /\ \A j \in batch : i <= j
        /\ item' = i /\ batch' = batch \ {i}
        /\ last' = IF i > last THEN i ELSE last
    /\ scanPC' = "check"
    /\ UNCHANGED <<settings, telegramVars, driveVars, cursor, stops, peer, loops>>

(* importOneChannelFile: is the message known?                              *)
CheckKnown ==
    /\ scanPC = "check" /\ KnownMessage(<<peer, item>>)
    /\ scanPC' = "next"
    /\ UNCHANGED <<settings, telegramVars, driveVars, cursor, stops, peer, last, batch, item, loops>>

CheckUnknownWhen(unknown) ==
    /\ scanPC = "check" /\ unknown
    /\ scanPC' = "insert"
    /\ UNCHANGED <<settings, telegramVars, driveVars, cursor, stops, peer, last, batch, item, loops>>

(* Seeded fault: the cursor alone is trusted.                               *)
TrustsCursor == CheckUnknownWhen(TRUE)

CheckUnknown == CheckUnknownWhen(~KnownMessage(<<peer, item>>))

(* The transaction that inserts the file and its version.                   *)
InsertImport ==
    /\ scanPC = "insert"
    /\ imported' = [imported EXCEPT ![<<peer, item>>] = @ + 1]
    /\ scanPC' = "next"
    /\ UNCHANGED <<settings, telegramVars, recorded, forgone, cursor, stops,
                   peer, last, batch, item, loops>>

(* Either statement fails: the message is passed over.                      *)
ImportFails ==
    /\ scanPC \in {"check", "insert"} /\ "store_fails" \in ImportEvents
    /\ forgone' = forgone \cup {<<peer, item>>}
    /\ scanPC' = "next"
    /\ UNCHANGED <<settings, telegramVars, imported, recorded, cursor, stops,
                   peer, last, batch, item, loops>>

(* setLastScannedMessageID after the page, then the next page if the scan   *)
(* may ask for one.                                                         *)
Save(n) ==
    /\ cursor' = n
    /\ IF loops < MaxLoops
         THEN scanPC' = "page" /\ UNCHANGED <<peer, last, batch, item, loops>>
         ELSE ToRest
    /\ UNCHANGED <<settings, telegramVars, driveVars, stops>>

(* Seeded fault: the cursor is saved before the page is imported.           *)
SavesFirst ==
    \/ scanPC = "next" /\ batch = {} /\ Save(last)
    \/ /\ scanPC = "next" /\ batch # {}
       /\ cursor' = CHOOSE i \in batch : \A j \in batch : j <= i
       /\ UNCHANGED <<settings, telegramVars, driveVars, stops, scanVars>>

(* Seeded fault: what is saved is the number of the page.                   *)
SavesLoops == scanPC = "next" /\ batch = {} /\ Save(loops)

(* Seeded fault: the cursor is one too far.                                 *)
SavesAhead == scanPC = "next" /\ batch = {} /\ Save(IF last < MaxId THEN last + 1 ELSE last)

SaveCursor == scanPC = "next" /\ batch = {} /\ Save(last)

CursorFails ==
    /\ scanPC = "next" /\ batch = {} /\ "store_fails" \in ImportEvents
    /\ ToRest
    /\ UNCHANGED <<settings, telegramVars, driveVars, cursor, stops>>

-----------------------------------------------------------------------------
(* Another client posts to a channel.                                       *)
Posts(h, kind) ==
    /\ Len(history[h]) < MaxId
    /\ history' = [history EXCEPT ![h] = Append(@, kind)]

ForeignPost(h) ==
    /\ Posts(h, "foreign")
    /\ UNCHANGED <<settings, outbox, driveVars, cursor, stops, scanVars>>

TextPost(h) ==
    /\ Cardinality({m \in Messages : m[2] <= Len(history[m[1]]) /\ ~IsMedia(m[1], m[2])}) < MaxTexts
    /\ Posts(h, "text")
    /\ UNCHANGED <<settings, outbox, driveVars, cursor, stops, scanVars>>

(* A sync pass uploads a file to the channel it read at its start, and      *)
(* records the message afterwards, or does not (service.go,                 *)
(* SyncPendingToTelegram; DriveFiles models the pass).                      *)
OwnPost(h) ==
    /\ Posts(h, "own")
    /\ outbox' = outbox \cup {<<h, Len(history[h]) + 1>>}
    /\ UNCHANGED <<settings, driveVars, cursor, stops, scanVars>>

Record(m) ==
    /\ m \in outbox
    /\ outbox' = outbox \ {m} /\ recorded' = recorded \cup {m}
    /\ UNCHANGED <<settings, history, imported, forgone, cursor, stops, scanVars>>

RecordFails(m) ==
    /\ m \in outbox /\ "store_fails" \in ImportEvents
    /\ outbox' = outbox \ {m}
    /\ UNCHANGED <<settings, history, driveVars, cursor, stops, scanVars>>

(* PermanentDeleteFile of an imported or of an uploaded file: its versions  *)
(* go, the message at Telegram stays.                                       *)
DeleteImported(m) ==
    /\ imported[m] > 0 /\ "delete" \in ImportEvents
    /\ imported' = [imported EXCEPT ![m] = @ - 1] /\ forgone' = forgone \cup {m}
    /\ UNCHANGED <<settings, telegramVars, recorded, cursor, stops, scanVars>>

DeleteUploaded(m) ==
    /\ m \in recorded /\ "delete" \in ImportEvents
    /\ recorded' = recorded \ {m} /\ forgone' = forgone \cup {m}
    /\ UNCHANGED <<settings, telegramVars, imported, cursor, stops, scanVars>>

(* UpdateStorageSettings: the cursor stays what it is.                      *)
Switch(h) ==
    /\ settings # h /\ (settings # Self => "switch" \in ImportEvents)
    /\ settings' = h
    /\ UNCHANGED <<telegramVars, driveVars, cursor, stops, scanVars>>

(* The agent stops and starts again.                                        *)
AgentStops ==
    /\ stops < MaxStops /\ stops' = stops + 1
    /\ outbox' = {}
    /\ ToRest
    /\ UNCHANGED <<settings, history, driveVars, cursor>>

Scan ==
    \/ ScanBegin \/ ScanPage \/ ScanEmpty \/ ScanFails
    \/ NextMessage \/ CheckKnown \/ CheckUnknown \/ InsertImport \/ ImportFails
    \/ SaveCursor \/ CursorFails

ImportNext ==
    \/ Scan
    \/ \E h \in Channels : ForeignPost(h) \/ TextPost(h) \/ OwnPost(h)
    \/ \E m \in Messages : Record(m) \/ RecordFails(m) \/ DeleteImported(m) \/ DeleteUploaded(m)
    \/ \E h \in Channels \cup {Self} : Switch(h)
    \/ AgentStops

ImportSpec == ImportInit /\ [][ImportNext]_importVars

(* The ticker starts a scan every five minutes and its goroutine runs; a    *)
(* page that is asked for ever comes, a cursor that is saved for ever is.   *)
ImportFairness ==
    WF_importVars(Scan) /\ SF_importVars(ScanPage) /\ SF_importVars(SaveCursor)

ImportFairSpec == ImportSpec /\ ImportFairness

-----------------------------------------------------------------------------
(* A message is imported once at most, also when a stop or a failure makes  *)
(* the scanner read a page again (channel_import.go, "Idempotent").         *)
ImportedOnce == \A m \in Messages : imported[m] <= 1

(* Every message with media up to the saved cursor has a row, unless its    *)
(* import failed or its file was deleted: the cursor never runs ahead of    *)
(* the import, whatever stops in between (channel_import.go,                *)
(* ImportChannelFiles).  With one channel: the cursor does not know of      *)
(* which channel it is.                                                     *)
NothingPassedOver ==
    \A m \in Messages :
        m[2] <= cursor /\ IsMedia(m[1], m[2]) => KnownMessage(m) \/ m \in forgone

(* The saved cursor never goes back, and what lies up to it is never        *)
(* imported again: a file that is deleted for ever after the scanner has    *)
(* passed its message stays deleted (channel_import.go,                     *)
(* lastScannedMessageID).                                                   *)
NoReimport ==
    [][/\ cursor' >= cursor
       /\ \A m \in Messages : imported'[m] > imported[m] => m[2] > cursor]_importVars

(* The files of other clients in a channel that the drive does not show.    *)
Hidden(h) ==
    {i \in Ids : /\ i <= Len(history[h]) /\ history[h][i] = "foreign"
                 /\ ~KnownMessage(<<h, i>>) /\ <<h, i>> \notin forgone}

(* Files that other clients send to the storage channel appear in the drive *)
(* ("now appear automatically in a 'Telegram Folder'", CHANGELOG.md) unless *)
(* their import fails, they are deleted, or another setting is chosen.      *)
ForeignAppears ==
    \A h \in Channels : settings = h /\ Hidden(h) # {} ~> settings # h \/ Hidden(h) = {}

(* The page behind the saved cursor holds no media, and media lies beyond.  *)
Stalled(h) ==
    PageAfter(h, cursor) = {} /\ \E i \in Ids : cursor + Page < i /\ IsMedia(h, i)

(* What keeps such a file away for ever is a whole page of messages without *)
(* media, at which every scan ends (ImportChannelFiles breaks on an empty   *)
(* batch and leaves the cursor), and nothing else: no stop, no failed page, *)
(* no cursor that could not be saved, no limit of pages and no message of   *)
(* the drive's own.                                                         *)
OnlyTextHidesFiles ==
    \A h \in Channels :
        settings = h /\ Hidden(h) # {} ~> settings # h \/ Hidden(h) = {} \/ Stalled(h)
=============================================================================

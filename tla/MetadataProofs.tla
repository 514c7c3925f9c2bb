--------------------------- MODULE MetadataProofs ---------------------------
(***************************************************************************)
(* What the drive's tables guarantee for any links, limits, users, codes   *)
(* and clients, and that putting the tables side by side (MCMetadata)      *)
(* changes none of it.                                                     *)
(***************************************************************************)
EXTENDS MCMetadata, DriveTreeProofs, SyncFoldersProofs, TLAPS

(***************************************************************************)
(* Shares.  The count is raised only by the statement that checks the      *)
(* limit, and an edit in progress that does not set the limit still holds  *)
(* the row's own, because nobody else changes it without being recorded.   *)
(***************************************************************************)

\* An id that was not drawn yet has counted nothing.
UnusedIsEmpty == \A l \in Links : link[l].row = "unused" => link[l].count = 0

\* An edit works on a row that exists and, unless the limit has been edited,
\* carries the limit the row has.
EditsAreCurrent ==
    \A e \in Edits : edit[e].busy =>
        /\ link[edit[e].link].row # "unused"
        /\ edit[e].link \notin relimited => edit[e].read.max = link[edit[e].link].max

SharesInv == SharesTypeOK /\ UnusedIsEmpty /\ EditsAreCurrent /\ LimitHolds

(* No link, no visit and no edit at first.                                  *)
LEMMA InitShares == ASSUME SharesInit PROVE SharesInv
<1> USE SharesAssumption DEF SharesInit
<1>1. Unused \in Link BY DEF Unused, Link
<1> DEFINE some == CHOOSE l \in Links : TRUE
<1>2. some \in Links OBVIOUS
<1> HIDE DEF some
<1>3. NoVisit \in Visit BY <1>2 DEF NoVisit, Visit, Goals, some
<1>4. NoEdit \in Edit
  <2>1. NoChange \in Change BY DEF NoChange, Change
  <2>2. NoEdit = [busy |-> FALSE, link |-> some, read |-> Unused, change |-> NoChange]
    BY DEF NoEdit, some
  <2> HIDE DEF some
  <2> QED BY <1>1, <1>2, <2>1, <2>2 DEF Edit
<1>5. SharesTypeOK BY <1>1, <1>3, <1>4 DEF SharesTypeOK
<1>6. UnusedIsEmpty BY DEF UnusedIsEmpty, Unused
<1>7. EditsAreCurrent
  <2>1. NoEdit.busy = FALSE BY DEF NoEdit
  <2> QED BY <2>1 DEF EditsAreCurrent
<1>8. LimitHolds
  <2>1. \A l \in Links : link[l].count = 0 /\ link[l].max = 0 /\ granted[l] = 0 BY DEF Unused
  <2>2. ASSUME NEW l \in Links
        PROVE /\ link[l].count = granted[l]
              /\ link[l].max > 0 /\ l \notin relimited => granted[l] <= link[l].max
    <3>1. link[l].count = 0 /\ link[l].max = 0 /\ granted[l] = 0 BY <2>1
    <3>2. ~(link[l].max > 0) BY <3>1
    <3> QED BY <3>1, <3>2
  <2> QED BY <2>2 DEF LimitHolds
<1> QED BY <1>5, <1>6, <1>7, <1>8 DEF SharesInv

(* A step that leaves rows, edits and counts alone.                         *)
LEMMA SharesElsewhere ==
    ASSUME SharesInv, SharesTypeOK', UNCHANGED <<link, edit, granted, relimited>> PROVE SharesInv'
  BY DEF SharesInv, UnusedIsEmpty, EditsAreCurrent, LimitHolds

(* A visit that is answered, goes on or waits.                              *)
LEMMA AnswerKeeps ==
    ASSUME SharesInv, NEW v \in Visits, NEW pc \in {"idle", "hash", "target", "fetch", "count"},
           Answer(v, pc)
    PROVE SharesInv'
<1>1. visit[v] \in Visit BY DEF SharesInv, SharesTypeOK
<1>2. NoVisit \in Visit
  <2>1. (CHOOSE l \in Links : TRUE) \in Links BY SharesAssumption
  <2> QED BY <2>1 DEF NoVisit, Visit, Goals
<1>3. [visit[v] EXCEPT !.pc = pc] \in Visit BY <1>1 DEF Visit
<1>4. visit' \in [Visits -> Visit]
  BY <1>2, <1>3 DEF Answer, SharesInv, SharesTypeOK
<1>5. SharesTypeOK' BY <1>4 DEF Answer, SharesInv, SharesTypeOK
<1> QED BY <1>5, SharesElsewhere DEF Answer

LEMMA VisitKeeps ==
    ASSUME SharesInv, NEW v \in Visits, Visitor(v), ~CountDownload(v) PROVE SharesInv'
<1>1. ASSUME NEW l \in Links, NEW g \in Goals, NEW p \in Passwords \cup {NoPassword},
             OpenLink(v, l, g, p)
      PROVE SharesInv'
  <2> DEFINE opened == [pc |-> IF link[l].password = NoPassword THEN "target" ELSE "hash",
                       link |-> l, goal |-> g, password |-> p]
  <2>1. opened \in Visit BY DEF Visit
  <2>2. visit' = [visit EXCEPT ![v] = opened] /\ requests' = requests + 1 /\ requests < MaxRequests
    BY <1>1 DEF OpenLink
  <2> HIDE DEF opened
  <2>3. SharesTypeOK' BY <1>1, <2>1, <2>2, SharesAssumption DEF OpenLink, SharesInv, SharesTypeOK
  <2> QED BY <1>1, <2>3, SharesElsewhere DEF OpenLink
<1>2. CASE CheckPassword(v) BY <1>2, AnswerKeeps DEF CheckPassword
<1>3. CASE FindTarget(v) BY <1>3, AnswerKeeps DEF FindTarget
<1>4. CASE FetchShared(v) BY <1>4, AnswerKeeps DEF FetchShared
<1>5. CASE RefuseDownload(v) BY <1>5, AnswerKeeps DEF RefuseDownload
<1>6. CASE DropVisit(v) BY <1>6, AnswerKeeps DEF DropVisit
<1> QED BY <1>1, <1>2, <1>3, <1>4, <1>5, <1>6 DEF Visitor

(* The one statement that counts also checks.                               *)
LEMMA CountKeeps == ASSUME SharesInv, NEW v \in Visits, CountDownload(v) PROVE SharesInv'
<1> DEFINE l == visit[v].link
<1>1. l \in Links /\ link[l] \in Link /\ granted[l] \in Nat
  BY DEF SharesInv, SharesTypeOK, Visit
<1> HIDE DEF l
<1>2. /\ link' = [link EXCEPT ![l] = [link[l] EXCEPT !.count = link[l].count + 1]]
      /\ granted' = [granted EXCEPT ![l] = granted[l] + 1]
      /\ visit' = [visit EXCEPT ![v] = NoVisit]
      /\ UNCHANGED <<shared, today, edit, requests, relimited>>
      /\ link[l].row = "live" /\ (link[l].max = 0 \/ link[l].count < link[l].max)
  BY DEF CountDownload, Counts, l
<1>3. [link[l] EXCEPT !.count = link[l].count + 1] \in Link BY <1>1 DEF Link
<1>4. NoVisit \in Visit
  <2>1. (CHOOSE k \in Links : TRUE) \in Links BY SharesAssumption
  <2> QED BY <2>1 DEF NoVisit, Visit, Goals
<1>5. SharesTypeOK' BY <1>1, <1>2, <1>3, <1>4 DEF SharesInv, SharesTypeOK
<1>6. \A k \in Links : /\ link'[k].row = link[k].row /\ link'[k].max = link[k].max
                       /\ link'[k].count = IF k = l THEN link[k].count + 1 ELSE link[k].count
                       /\ granted'[k] = IF k = l THEN granted[k] + 1 ELSE granted[k]
  BY <1>1, <1>2 DEF SharesInv, SharesTypeOK, Link
<1>7. UnusedIsEmpty' BY <1>2, <1>6 DEF SharesInv, UnusedIsEmpty
<1>8. EditsAreCurrent'
  BY <1>2, <1>6 DEF SharesInv, EditsAreCurrent, SharesTypeOK, Edit
<1>9. LimitHolds'
  <2>1. \A k \in Links : /\ link[k].count \in Nat /\ link[k].max \in Nat /\ granted[k] \in Nat
                         /\ link[k].count = granted[k]
                         /\ link[k].max > 0 /\ k \notin relimited => granted[k] <= link[k].max
    BY DEF SharesInv, SharesTypeOK, Link, LimitHolds
  <2> QED BY <1>2, <1>6, <2>1 DEF LimitHolds
<1> QED BY <1>5, <1>7, <1>8, <1>9 DEF SharesInv

(* A link is made under an id of its own.                                   *)
LEMMA CreateKeeps ==
    ASSUME SharesInv, NEW l \in Links, NEW kind \in {"file", "folder"},
           NEW p \in Passwords \cup {NoPassword}, NEW t \in Lifetimes, NEW n \in Limits,
           CreateShare(l, kind, p, t, n)
    PROVE SharesInv'
<1> DEFINE row == [row |-> "live", kind |-> kind, password |-> p, expires |-> ExpiresAt(t),
                   revoked |-> FALSE, max |-> n, count |-> 0]
<1>1. ExpiresAt(t) \in Nat
  BY SharesAssumption DEF ExpiresAt, SharesInv, SharesTypeOK
<1>2. row \in Link /\ row.row = "live" /\ row.max = n /\ row.count = 0 /\ n \in Nat
  BY <1>1, SharesAssumption DEF Link
<1>3. link[l].row = "unused" /\ link' = [link EXCEPT ![l] = row]
      /\ UNCHANGED <<shared, today, visit, edit, requests, granted, relimited>>
  BY DEF CreateShare
<1> HIDE DEF row
<1>4. SharesTypeOK' BY <1>2, <1>3 DEF SharesInv, SharesTypeOK
<1>5. granted[l] = 0 BY <1>3 DEF SharesInv, UnusedIsEmpty, LimitHolds
<1>6. \A k \in Links : link'[k] = IF k = l THEN row ELSE link[k]
  BY <1>3 DEF SharesInv, SharesTypeOK
<1>7. UnusedIsEmpty' BY <1>2, <1>6 DEF SharesInv, UnusedIsEmpty
<1>8. EditsAreCurrent'
  <2>1. \A e \in Edits : edit[e].link \in Links /\ (edit[e].busy => edit[e].link # l)
    BY <1>3 DEF SharesInv, EditsAreCurrent, SharesTypeOK, Edit
  <2> QED BY <1>3, <1>6, <2>1 DEF SharesInv, EditsAreCurrent
<1>9. LimitHolds' BY <1>2, <1>3, <1>5, <1>6 DEF SharesInv, LimitHolds
<1> QED BY <1>4, <1>7, <1>8, <1>9 DEF SharesInv

(* An edit starts from the row it has read.                                 *)
LEMMA ReadKeeps ==
    ASSUME SharesInv, NEW e \in Edits, NEW l \in Links, NEW c \in Changes, ReadShare(e, l, c)
    PROVE SharesInv'
<1> DEFINE opened == [busy |-> TRUE, link |-> l, read |-> link[l], change |-> c]
<1>1. c \in Change
  <2>1. NoChange \in Change BY DEF NoChange, Change
  <2>2. ASSUME NEW p \in Passwords \cup {NoPassword}
        PROVE [NoChange EXCEPT !.password = p] \in Change
    BY <2>1 DEF Change
  <2>3. ASSUME NEW t \in Lifetimes PROVE [NoChange EXCEPT !.expires = t] \in Change
    BY <2>1 DEF Change
  <2>4. ASSUME NEW b \in BOOLEAN PROVE [NoChange EXCEPT !.revoked = b] \in Change
    BY <2>1 DEF Change
  <2>5. ASSUME NEW n \in Limits PROVE [NoChange EXCEPT !.max = n] \in Change
    BY <2>1 DEF Change
  <2> QED BY <2>2, <2>3, <2>4, <2>5 DEF Changes
<1>2. opened \in Edit /\ opened.link = l /\ opened.read = link[l]
  BY <1>1 DEF Edit, SharesInv, SharesTypeOK
<1>3. /\ link[l].row = "live" /\ requests < MaxRequests /\ requests' = requests + 1
      /\ edit' = [edit EXCEPT ![e] = opened]
      /\ UNCHANGED <<link, shared, today, visit, granted, relimited>>
  BY DEF ReadShare
<1> HIDE DEF opened
<1>4. SharesTypeOK' BY <1>2, <1>3, SharesAssumption DEF SharesInv, SharesTypeOK
<1>5. \A d \in Edits : edit'[d] = IF d = e THEN opened ELSE edit[d]
  BY <1>3 DEF SharesInv, SharesTypeOK
<1>6. EditsAreCurrent' BY <1>2, <1>3, <1>5 DEF SharesInv, EditsAreCurrent
<1>7. UnusedIsEmpty' /\ LimitHolds' BY <1>3 DEF SharesInv, UnusedIsEmpty, LimitHolds
<1> QED BY <1>4, <1>6, <1>7 DEF SharesInv

(* What the UPDATE makes of a row.                                          *)
LEMMA UpdatedRow ==
    ASSUME SharesInv, NEW row \in Link, NEW x \in Edit
    PROVE /\ Updated(row, x) \in Link
          /\ Updated(row, x).row = row.row /\ Updated(row, x).count = row.count
          /\ x.change.max = Keep => Updated(row, x).max = x.read.max
<1> DEFINE password == Chosen(x.change.password, row.password)
           expires == IF x.change.expires = Keep THEN x.read.expires
                      ELSE ExpiresAt(x.change.expires)
           revoked == Chosen(x.change.revoked, x.read.revoked)
           max == Chosen(x.change.max, x.read.max)
<1>1. x.change \in Change /\ x.read \in Link BY DEF Edit
<1>2. password \in Passwords \cup {NoPassword} BY <1>1 DEF Chosen, Change, Link
<1>3. expires \in Nat
  <2>1. x.change.expires \in Lifetimes \cup {Keep} /\ x.read.expires \in Nat
    BY <1>1 DEF Change, Link
  <2>2. \A t \in Nat : ExpiresAt(t) \in Nat
    BY SharesAssumption DEF ExpiresAt, SharesInv, SharesTypeOK
  <2>3. x.change.expires # Keep => x.change.expires \in Nat BY <2>1, SharesAssumption
  <2> QED BY <2>1, <2>2, <2>3
<1>4. revoked \in BOOLEAN
  <2>1. x.change.revoked \in BOOLEAN \cup {Keep} /\ x.read.revoked \in BOOLEAN
    BY <1>1 DEF Change, Link
  <2> QED BY <2>1 DEF Chosen
<1>5. max \in Nat BY <1>1, SharesAssumption DEF Chosen, Change, Link
<1>6. x.change.max = Keep => max = x.read.max BY DEF Chosen
<1>7. Updated(row, x) = [row EXCEPT !.revoked = revoked, !.expires = expires, !.max = max,
                                    !.password = password]
  BY DEF Updated
<1> HIDE DEF password, expires, revoked, max
<1>8. Updated(row, x) = [row |-> row.row, kind |-> row.kind, password |-> password,
                         expires |-> expires, revoked |-> revoked, max |-> max,
                         count |-> row.count]
  BY <1>7 DEF Link
<1>9. row.row \in {"unused", "live", "gone"} /\ row.kind \in {"file", "folder"} /\ row.count \in Nat
  BY DEF Link
<1> QED BY <1>2, <1>3, <1>4, <1>5, <1>6, <1>8, <1>9 DEF Link

LEMMA UpdateKeeps == ASSUME SharesInv, NEW e \in Edits, UpdateShare(e) PROVE SharesInv'
<1> DEFINE x == edit[e]
<1>1. x \in Edit /\ x.link \in Links BY DEF SharesInv, SharesTypeOK, Edit
<1>2. /\ x.busy
      /\ link' = [k \in Links |-> IF k = x.link /\ link[k].row = "live" THEN Updated(link[k], x)
                                  ELSE link[k]]
      /\ edit' = [edit EXCEPT ![e] = NoEdit]
      /\ relimited' = IF x.change.max = Keep THEN relimited ELSE relimited \cup {x.link}
      /\ UNCHANGED <<shared, today, visit, requests, granted>>
  BY DEF UpdateShare
<1>3. x.link \notin relimited => x.read.max = link[x.link].max
  BY <1>2 DEF SharesInv, EditsAreCurrent
<1> HIDE DEF x
<1>4. ASSUME NEW k \in Links
      PROVE /\ link'[k] \in Link /\ link'[k].row = link[k].row /\ link'[k].count = link[k].count
            /\ k \notin relimited' => link'[k].max = link[k].max
  <2>1. link[k] \in Link BY DEF SharesInv, SharesTypeOK
  <2>2. CASE k = x.link /\ link[k].row = "live"
    <3>1. link'[k] = Updated(link[k], x) BY <1>2, <2>2
    <3>2. k \notin relimited' => x.change.max = Keep /\ k \notin relimited BY <1>2, <2>2
    <3> QED BY <1>1, <1>3, <2>1, <2>2, <3>1, <3>2, UpdatedRow
  <2>3. CASE ~(k = x.link /\ link[k].row = "live") BY <1>2, <2>1, <2>3
  <2> QED BY <2>2, <2>3
<1>5. NoEdit \in Edit /\ NoEdit.busy = FALSE
  <2> DEFINE some == CHOOSE l \in Links : TRUE
  <2>1. some \in Links BY SharesAssumption
  <2>2. NoChange \in Change BY DEF NoChange, Change
  <2>3. Unused \in Link BY DEF Unused, Link
  <2>4. NoEdit = [busy |-> FALSE, link |-> some, read |-> Unused, change |-> NoChange]
    BY DEF NoEdit
  <2> HIDE DEF some
  <2> QED BY <2>1, <2>2, <2>3, <2>4 DEF Edit
<1>6. SharesTypeOK'
  <2>1. link' \in [Links -> Link] BY <1>2, <1>4
  <2> QED BY <1>1, <1>2, <1>5, <2>1 DEF SharesInv, SharesTypeOK
<1>7. relimited \subseteq relimited' BY <1>2
<1>8. UnusedIsEmpty' BY <1>4 DEF SharesInv, UnusedIsEmpty
<1>9. EditsAreCurrent'
  <2>1. \A d \in Edits : edit'[d] = IF d = e THEN NoEdit ELSE edit[d]
    BY <1>2 DEF SharesInv, SharesTypeOK
  <2>2. \A d \in Edits : edit[d].link \in Links BY DEF SharesInv, SharesTypeOK, Edit
  <2> QED BY <1>4, <1>5, <1>7, <2>1, <2>2 DEF SharesInv, EditsAreCurrent
<1>10. LimitHolds' BY <1>2, <1>4, <1>7 DEF SharesInv, LimitHolds
<1> QED BY <1>6, <1>8, <1>9, <1>10 DEF SharesInv

LEMMA DeleteKeeps == ASSUME SharesInv, NEW l \in Links, DeleteShare(l) PROVE SharesInv'
<1>1. link[l] \in Link BY DEF SharesInv, SharesTypeOK
<1>2. /\ link' = [link EXCEPT ![l] = [link[l] EXCEPT !.row = "gone"]]
      /\ UNCHANGED <<shared, today, visit, edit, requests, granted, relimited>>
  BY DEF DeleteShare
<1>3. [link[l] EXCEPT !.row = "gone"] \in Link BY <1>1 DEF Link
<1>4. SharesTypeOK' BY <1>2, <1>3 DEF SharesInv, SharesTypeOK
<1>5. \A k \in Links : /\ link'[k].row = IF k = l THEN "gone" ELSE link[k].row
                       /\ link'[k].max = link[k].max /\ link'[k].count = link[k].count
  BY <1>1, <1>2 DEF SharesInv, SharesTypeOK, Link
<1>6. UnusedIsEmpty' BY <1>5 DEF SharesInv, UnusedIsEmpty
<1>7. EditsAreCurrent'
  <2>1. \A d \in Edits : edit[d].link \in Links BY DEF SharesInv, SharesTypeOK, Edit
  <2> QED BY <1>2, <1>5, <2>1 DEF SharesInv, EditsAreCurrent
<1>8. LimitHolds' BY <1>2, <1>5 DEF SharesInv, LimitHolds
<1> QED BY <1>4, <1>6, <1>7, <1>8 DEF SharesInv

LEMMA NextShares == ASSUME SharesInv, [SharesNext]_shareVars PROVE SharesInv'
<1>1. CASE Owner
  <2>1. ASSUME NEW l \in Links, MoveTarget(l) PROVE SharesInv'
    <3>1. SharesTypeOK' BY <2>1 DEF MoveTarget, SharesInv, SharesTypeOK
    <3> QED BY <2>1, <3>1, SharesElsewhere DEF MoveTarget
  <2> QED BY <1>1, <2>1, CreateKeeps, ReadKeeps, UpdateKeeps, DeleteKeeps DEF Owner
<1>2. CASE Midnight
  <2>1. SharesTypeOK' BY <1>2, SharesAssumption DEF Midnight, SharesInv, SharesTypeOK
  <2> QED BY <1>2, <2>1, SharesElsewhere DEF Midnight
<1>3. ASSUME NEW v \in Visits, Visitor(v) PROVE SharesInv'
  BY <1>3, VisitKeeps, CountKeeps
<1>4. CASE UNCHANGED shareVars
  <2>1. SharesTypeOK' BY <1>4 DEF shareVars, SharesInv, SharesTypeOK
  <2> QED BY <1>4, <2>1, SharesElsewhere DEF shareVars
<1> QED BY <1>1, <1>2, <1>3, <1>4 DEF SharesNext

(* The inductive invariant of the links holds.                              *)
THEOREM SharesInvariantHolds == SharesSpec => []SharesInv
  BY InitShares, NextShares, PTL DEF SharesSpec

(* Every row, visit and edit keeps its type, for any constants.             *)
THEOREM SharesTypeCorrect == SharesSpec => []SharesTypeOK
<1>1. SharesInv => SharesTypeOK BY DEF SharesInv
<1> QED BY SharesInvariantHolds, <1>1, PTL

(* However many visits and edits overlap, every download let through is     *)
(* counted, and no more of them are than the limit allows.                  *)
THEOREM LimitIsKept == SharesSpec => []LimitHolds
<1>1. SharesInv => LimitHolds BY DEF SharesInv
<1> QED BY SharesInvariantHolds, <1>1, PTL

(***************************************************************************)
(* Accounts.  Only the holder of the write lock commits, it took the lock  *)
(* with a snapshot that was the latest, and nobody commits while the lock  *)
(* is held; so what it read still stands when it commits.                  *)
(***************************************************************************)

GuestRecord == [pc : {"idle", "read", "locked"}, job : {"none", "register", "exchange", "api"},
                code : Codes \cup {NoCode}, device : Devices \cup {Nobody},
                user : Users \cup {Nobody}, fresh : BOOLEAN]

\* The lock is held by the one guest that is past its first INSERT.
LockHeld == \A g \in Guests : guest[g].pc = "locked" => writer = g /\ guest[g].fresh

\* What a guest with the latest snapshot has read is still so.
SnapshotsHold ==
    \A g \in Guests : guest[g].pc # "idle" /\ guest[g].fresh =>
        /\ guest[g].job = "register" => accounts = {}
        /\ guest[g].job = "exchange" => guest[g].code \in Codes /\ ~code[guest[g].code].consumed

\* A code that has a device is used up.
CodesUsedUp == \A d \in Devices : device[d].code \in Codes => code[device[d].code].consumed

AccountsInv == AccountsTypeOK /\ LockHeld /\ SnapshotsHold /\ CodesUsedUp /\ FirstComeOnly

(* No account, no code and no device is there at first.                     *)
LEMMA InitAccounts == ASSUME AccountsInit PROVE AccountsInv
  BY AccountsAssumption
     DEF AccountsInit, AccountsInv, AccountsTypeOK, LockHeld, SnapshotsHold, CodesUsedUp, FirstComeOnly,
         Home, NoSession, NoPairing, NoDevice, NoBucket, Seconds

(* The clock and the limiter leave the rest alone.                          *)
LEMMA AccountsElsewhere ==
    ASSUME AccountsInv, UNCHANGED <<userVars, deviceVars, guest, writer>>, AccountsTypeOK'
    PROVE AccountsInv'
  BY DEF AccountsInv, LockHeld, SnapshotsHold, CodesUsedUp, FirstComeOnly, userVars, deviceVars

(* Letting a request through, or not, keeps the limiter's types.            *)
LEMMA AllowType ==
    ASSUME AccountsTypeOK, NEW k \in Clients, Allow(k)
    PROVE /\ bucket' \in [Clients -> [count : 0..Burst, reset : Int]]
          /\ lastCleanup' \in Seconds
          /\ passed' \in [Clients -> [Seconds -> Nat]]
<1> USE AccountsAssumption DEF AccountsTypeOK
<1>1. Swept \in [Clients -> [count : 0..Burst, reset : Int]]
  BY DEF Swept, NoBucket, Expired
<1>2. second \in Int /\ second + Window \in Int BY DEF Seconds
<1>3. lastCleanup' \in Seconds BY DEF Allow, Cleaned
<1>4. passed' \in [Clients -> [Seconds -> Nat]]
  <2>1. passed' = [passed EXCEPT ![k] = [t \in Seconds |-> IF t < second THEN passed[k][t]
                                                          ELSE passed[k][t] + 1]]
    BY DEF Allow
  <2>2. [t \in Seconds |-> IF t < second THEN passed[k][t] ELSE passed[k][t] + 1] \in [Seconds -> Nat]
    OBVIOUS
  <2> QED BY <2>1, <2>2
<1>5. bucket' \in [Clients -> [count : 0..Burst, reset : Int]]
  <2>1. CASE Expired(Swept[k])
    <3>1. bucket' = [Swept EXCEPT ![k] = [count |-> 1, reset |-> second + Window]]
      BY <2>1 DEF Allow
    <3> QED BY <1>1, <1>2, <3>1
  <2>2. CASE ~Expired(Swept[k])
    <3>1. bucket' = [Swept EXCEPT ![k] = [Swept[k] EXCEPT !.count = Swept[k].count + 1]]
      BY <2>2 DEF Allow
    <3>2. Swept[k].count < Burst BY <2>2 DEF Allow
    <3> QED BY <1>1, <3>1, <3>2
  <2> QED BY <2>1, <2>2
<1> QED BY <1>3, <1>4, <1>5

LEMMA RefuseType ==
    ASSUME AccountsTypeOK, NEW k \in Clients, Refuse(k)
    PROVE AccountsTypeOK'
<1>1. Swept \in [Clients -> [count : 0..Burst, reset : Int]]
  BY AccountsAssumption DEF AccountsTypeOK, Swept, NoBucket, Expired
<1> QED BY <1>1, AccountsAssumption DEF AccountsTypeOK, Refuse, Cleaned, userVars, deviceVars

(* After a commit every snapshot still open is of the past.                 *)
LEMMA Aged ==
    ASSUME AccountsTypeOK, NEW g \in Guests, guest' = AfterCommit(g)
    PROVE /\ guest' \in [Guests -> GuestRecord]
          /\ \A h \in Guests : guest'[h].pc # "idle" =>
                 h # g /\ guest'[h].pc = guest[h].pc /\ ~guest'[h].fresh
<1> USE DEF AccountsTypeOK, GuestRecord
<1>1. Home \in GuestRecord BY AccountsAssumption DEF Home
<1>2. ASSUME NEW h \in Guests
      PROVE /\ guest'[h] \in GuestRecord
            /\ guest'[h].pc # "idle" => h # g /\ guest'[h].pc = guest[h].pc /\ ~guest'[h].fresh
  <2>1. CASE h = g BY <2>1, <1>1 DEF AfterCommit, Home
  <2>2. CASE h # g /\ guest[h].pc = "idle"
    <3>1. guest'[h] = [guest[h] EXCEPT !.fresh = guest[h].fresh /\ TRUE] BY <2>2 DEF AfterCommit
    <3> QED BY <3>1, <2>2
  <2>3. CASE h # g /\ guest[h].pc # "idle"
    <3>1. guest'[h] = [guest[h] EXCEPT !.fresh = FALSE] BY <2>3 DEF AfterCommit
    <3> QED BY <3>1, <2>3
  <2> QED BY <2>1, <2>2, <2>3
<1>3. guest' = [h \in Guests |-> guest'[h]] BY DEF AfterCommit
<1> QED BY <1>2, <1>3

(* A transaction begins with what it has read.                              *)
LEMMA OpenKeeps ==
    ASSUME AccountsInv, NEW g \in Guests, NEW record \in GuestRecord, Open(g, record),
           record.pc = "read",
           record.job = "register" => accounts = {},
           record.job = "exchange" => record.code \in Codes /\ ~code[record.code].consumed,
           UNCHANGED <<second, userVars, deviceVars, writer>>,
           bucket' \in [Clients -> [count : 0..Burst, reset : Int]], lastCleanup' \in Seconds,
           passed' \in [Clients -> [Seconds -> Nat]]
    PROVE AccountsInv'
<1> USE DEF AccountsInv, userVars, deviceVars
<1>1. guest' = [guest EXCEPT ![g] = record] BY DEF Open
<1>2. AccountsTypeOK' BY <1>1 DEF AccountsTypeOK, GuestRecord
<1>3. LockHeld' BY <1>1 DEF LockHeld, AccountsTypeOK
<1>4. SnapshotsHold' BY <1>1 DEF SnapshotsHold, AccountsTypeOK
<1> QED BY <1>2, <1>3, <1>4 DEF CodesUsedUp, FirstComeOnly

LEMMA RequestKeeps ==
    ASSUME AccountsInv, NEW g \in Guests,
           \/ BeginRegister(g)
           \/ \E k \in Clients, c \in Codes : BeginExchange(g, k, c)
           \/ \E u \in Users : BeginApiToken(g, u)
    PROVE AccountsInv'
<1> USE AccountsAssumption DEF AccountsInv, AccountsTypeOK, userVars, deviceVars, limitVars
<1>1. CASE BeginRegister(g)
  <2> DEFINE record == [Home EXCEPT !.pc = "read", !.job = "register"]
  <2>1. record \in GuestRecord /\ record.pc = "read" /\ record.job = "register"
    BY DEF GuestRecord, Home
  <2>2. Open(g, record) /\ accounts = {} BY <1>1 DEF BeginRegister
  <2> HIDE DEF record
  <2> QED BY <1>1, <2>1, <2>2, OpenKeeps DEF BeginRegister
<1>2. ASSUME NEW k \in Clients, NEW c \in Codes, BeginExchange(g, k, c) PROVE AccountsInv'
  <2> DEFINE record == [Home EXCEPT !.pc = "read", !.job = "exchange", !.code = c,
                                    !.user = code[c].user]
  <2>1. record \in GuestRecord /\ record.pc = "read" /\ record.job = "exchange" /\ record.code = c
    BY DEF GuestRecord, Home
  <2>2. Open(g, record) /\ ~code[c].consumed /\ Allow(k) BY <1>2 DEF BeginExchange
  <2>3. UNCHANGED <<second, userVars, deviceVars, writer>> BY <1>2 DEF BeginExchange
  <2>4. /\ bucket' \in [Clients -> [count : 0..Burst, reset : Int]]
        /\ lastCleanup' \in Seconds
        /\ passed' \in [Clients -> [Seconds -> Nat]]
    BY <2>2, AllowType
  <2> HIDE DEF record
  <2> QED BY <2>1, <2>2, <2>3, <2>4, OpenKeeps
<1>3. ASSUME NEW u \in Users, BeginApiToken(g, u) PROVE AccountsInv'
  <2> DEFINE record == [Home EXCEPT !.pc = "read", !.job = "api", !.user = u]
  <2>1. record \in GuestRecord /\ record.pc = "read" /\ record.job = "api"
    BY <1>3 DEF GuestRecord, Home
  <2>2. Open(g, record) BY <1>3 DEF BeginApiToken
  <2> HIDE DEF record
  <2> QED BY <1>3, <2>1, <2>2, OpenKeeps DEF BeginApiToken
<1> QED BY <1>1, <1>2, <1>3

(* The lock goes to a snapshot that is the latest.                          *)
LEMMA LockKeeps == ASSUME AccountsInv, NEW g \in Guests, TakeLock(g) \/ Rollback(g) PROVE AccountsInv'
<1> USE AccountsAssumption DEF AccountsInv, userVars, deviceVars, limitVars
<1>1. CASE TakeLock(g)
  <2>1. /\ guest' = [guest EXCEPT ![g] = [guest[g] EXCEPT !.pc = "locked"]]
        /\ writer = Nobody /\ writer' = g /\ guest[g].pc = "read" /\ guest[g].fresh
        /\ UNCHANGED <<second, userVars, deviceVars, limitVars>>
    BY <1>1 DEF TakeLock
  <2>2. AccountsTypeOK'
    <3>1. guest[g] \in GuestRecord BY DEF AccountsTypeOK, GuestRecord
    <3>2. [guest[g] EXCEPT !.pc = "locked"] \in GuestRecord BY <3>1 DEF GuestRecord
    <3>3. guest' \in [Guests -> GuestRecord] BY <2>1, <3>2 DEF AccountsTypeOK, GuestRecord
    <3> QED BY <2>1, <3>3 DEF AccountsTypeOK, GuestRecord
  <2>3. LockHeld' BY <2>1 DEF LockHeld, AccountsTypeOK
  <2>4. SnapshotsHold' BY <2>1 DEF SnapshotsHold, AccountsTypeOK
  <2> QED BY <2>1, <2>2, <2>3, <2>4 DEF CodesUsedUp, FirstComeOnly
<1>2. CASE Rollback(g)
  <2>1. /\ guest' = [guest EXCEPT ![g] = Home]
        /\ writer' = IF writer = g THEN Nobody ELSE writer
        /\ UNCHANGED <<second, userVars, deviceVars, limitVars>>
    BY <1>2 DEF Rollback
  <2>2. AccountsTypeOK' BY <2>1 DEF AccountsTypeOK, Home
  <2>3. LockHeld' BY <2>1 DEF LockHeld, AccountsTypeOK, Home
  <2>4. SnapshotsHold' BY <2>1 DEF SnapshotsHold, AccountsTypeOK, Home
  <2> QED BY <2>1, <2>2, <2>3, <2>4 DEF CodesUsedUp, FirstComeOnly
<1> QED BY <1>1, <1>2

(* A statement outside a transaction commits while nobody holds the lock,   *)
(* so afterwards nobody has it and no open snapshot is the latest.          *)
LEMMA StatementAges ==
    ASSUME AccountsInv, NEW g \in Guests, Statement(g), writer' = writer
    PROVE guest' \in [Guests -> GuestRecord] /\ LockHeld' /\ SnapshotsHold'
<1>1. /\ guest' \in [Guests -> GuestRecord]
      /\ \A h \in Guests : guest'[h].pc # "idle" =>
             h # g /\ guest'[h].pc = guest[h].pc /\ ~guest'[h].fresh
  BY Aged DEF AccountsInv, Statement
<1>2. LockHeld'
  BY <1>1, AccountsAssumption DEF AccountsInv, LockHeld, Statement, AccountsTypeOK
<1> QED BY <1>1, <1>2 DEF SnapshotsHold

LEMMA StatementKeeps ==
    ASSUME AccountsInv, NEW g \in Guests,
           \/ \E u \in Users, s \in Sessions : Login(g, u, s)
           \/ \E s \in Sessions : Logout(g, s)
           \/ \E u \in Users, c \in Codes : StartPairing(g, u, c)
           \/ \E u \in Users, d \in Devices : RevokeDevice(g, u, d)
           \/ \E d \in Devices : DeleteTokens(g, d)
           \/ OtherStatement(g)
    PROVE AccountsInv'
<1> USE AccountsAssumption DEF AccountsInv, GuestRecord, userVars, deviceVars, limitVars, Seconds
<1>1. ASSUME NEW u \in Users, NEW s \in Sessions, Login(g, u, s) PROVE AccountsInv'
  <2>1. guest' \in [Guests -> GuestRecord] /\ LockHeld' /\ SnapshotsHold'
    BY <1>1, StatementAges DEF Login
  <2> QED BY <1>1, <2>1 DEF Login, AccountsTypeOK, CodesUsedUp, FirstComeOnly
<1>2. ASSUME NEW s \in Sessions, Logout(g, s) PROVE AccountsInv'
  <2>1. guest' \in [Guests -> GuestRecord] /\ LockHeld' /\ SnapshotsHold'
    BY <1>2, StatementAges DEF Logout
  <2> QED BY <1>2, <2>1 DEF Logout, AccountsTypeOK, CodesUsedUp, FirstComeOnly, NoSession
<1>3. ASSUME NEW u \in Users, NEW c \in Codes, StartPairing(g, u, c) PROVE AccountsInv'
  <2>1. guest' \in [Guests -> GuestRecord] /\ LockHeld' /\ SnapshotsHold'
    BY <1>3, StatementAges DEF StartPairing
  <2>2. ~code[c].consumed BY <1>3 DEF StartPairing, NoPairing
  <2>3. code' = [code EXCEPT ![c] = [user |-> u, until |-> second + CodeTTL, consumed |-> FALSE]]
    BY <1>3 DEF StartPairing
  <2>4. AccountsTypeOK' BY <1>3, <2>1, <2>3 DEF StartPairing, AccountsTypeOK
  <2>5. CodesUsedUp' BY <1>3, <2>2, <2>3 DEF StartPairing, AccountsTypeOK, CodesUsedUp
  <2> QED BY <1>3, <2>1, <2>4, <2>5 DEF StartPairing, FirstComeOnly
<1>4. ASSUME NEW u \in Users, NEW d \in Devices, RevokeDevice(g, u, d) PROVE AccountsInv'
  <2>1. guest' \in [Guests -> GuestRecord] /\ LockHeld' /\ SnapshotsHold'
    BY <1>4, StatementAges DEF RevokeDevice
  <2>2. device' = [device EXCEPT ![d] = [device[d] EXCEPT !.revoked = TRUE]]
    BY <1>4 DEF RevokeDevice
  <2>3. AccountsTypeOK'
    <3>1. [device[d] EXCEPT !.revoked = TRUE]
              \in [user : Users \cup {Nobody}, code : Codes \cup {NoCode}, revoked : BOOLEAN]
      <4>1. \A v \in BOOLEAN : [device[d] EXCEPT !.revoked = v]
                \in [user : Users \cup {Nobody}, code : Codes \cup {NoCode}, revoked : BOOLEAN]
        BY DEF AccountsTypeOK
      <4> QED BY <4>1, Zenon
    <3>2. device' \in [Devices -> [user : Users \cup {Nobody}, code : Codes \cup {NoCode},
                                   revoked : BOOLEAN]]
      BY <2>2, <3>1 DEF AccountsTypeOK
    <3> QED BY <1>4, <2>1, <3>2 DEF RevokeDevice, AccountsTypeOK
  <2>4. \A e \in Devices : device'[e].code = device[e].code BY <2>2 DEF AccountsTypeOK
  <2> QED BY <1>4, <2>1, <2>3, <2>4 DEF RevokeDevice, CodesUsedUp, FirstComeOnly
<1>5. ASSUME NEW d \in Devices, DeleteTokens(g, d) PROVE AccountsInv'
  <2>1. guest' \in [Guests -> GuestRecord] /\ LockHeld' /\ SnapshotsHold'
    BY <1>5, StatementAges DEF DeleteTokens
  <2> QED BY <1>5, <2>1 DEF DeleteTokens, AccountsTypeOK, CodesUsedUp, FirstComeOnly
<1>6. ASSUME OtherStatement(g) PROVE AccountsInv'
  <2>1. guest' \in [Guests -> GuestRecord] /\ LockHeld' /\ SnapshotsHold'
    BY <1>6, StatementAges DEF OtherStatement
  <2> QED BY <1>6, <2>1 DEF OtherStatement, AccountsTypeOK, CodesUsedUp, FirstComeOnly
<1> QED BY <1>1, <1>2, <1>3, <1>4, <1>5, <1>6

(* The holder of the lock commits: what it read still stands.               *)
LEMMA CommitAges ==
    ASSUME AccountsInv, NEW g \in Guests, NEW job, Commit(g, job)
    PROVE /\ guest' \in [Guests -> GuestRecord] /\ LockHeld' /\ SnapshotsHold'
          /\ writer' = Nobody /\ guest[g].fresh /\ guest[g].pc = "locked" /\ guest[g].job = job
<1>1. /\ guest' \in [Guests -> GuestRecord]
      /\ \A h \in Guests : guest'[h].pc # "idle" =>
             h # g /\ guest'[h].pc = guest[h].pc /\ ~guest'[h].fresh
  BY Aged DEF AccountsInv, Commit
<1>2. guest[g].pc = "locked" /\ guest[g].job = job /\ writer = g /\ writer' = Nobody
      /\ guest[g].fresh
  BY DEF Commit, AccountsInv, LockHeld
<1>3. LockHeld' BY <1>1, <1>2 DEF AccountsInv, LockHeld
<1> QED BY <1>1, <1>2, <1>3 DEF SnapshotsHold

LEMMA CommitKeeps ==
    ASSUME AccountsInv, NEW g \in Guests,
           \/ \E u \in Users, s \in Sessions : RegisterFirstAdmin(g, u, s)
           \/ \E d \in Devices : ExchangeCode(g, d) \/ CreateApiToken(g, d)
    PROVE AccountsInv'
<1> USE AccountsAssumption DEF AccountsInv, userVars, deviceVars, limitVars, Seconds
<1>1. ASSUME NEW u \in Users, NEW s \in Sessions, RegisterFirstAdmin(g, u, s) PROVE AccountsInv'
  <2>1. /\ guest' \in [Guests -> GuestRecord] /\ LockHeld' /\ SnapshotsHold'
        /\ writer' = Nobody /\ guest[g].fresh /\ guest[g].pc = "locked"
        /\ guest[g].job = "register"
    BY <1>1, CommitAges DEF RegisterFirstAdmin
  <2>2. accounts = {} BY <2>1 DEF SnapshotsHold
  <2>3. accounts' = {u} BY <1>1, <2>2 DEF RegisterFirstAdmin
  <2>4. AccountsTypeOK'
    BY <1>1, <2>1, <2>3 DEF RegisterFirstAdmin, Commit, AccountsTypeOK, GuestRecord
  <2> QED BY <1>1, <2>1, <2>3, <2>4 DEF RegisterFirstAdmin, Commit, CodesUsedUp, FirstComeOnly
<1>2. ASSUME NEW d \in Devices, ExchangeCode(g, d) PROVE AccountsInv'
  <2> DEFINE c == guest[g].code
  <2>1. /\ guest' \in [Guests -> GuestRecord] /\ LockHeld' /\ SnapshotsHold'
        /\ writer' = Nobody /\ guest[g].fresh /\ guest[g].pc = "locked"
        /\ guest[g].job = "exchange"
    BY <1>2, CommitAges DEF ExchangeCode
  <2>2. c \in Codes /\ ~code[c].consumed BY <2>1 DEF SnapshotsHold
  <2>3. \A e \in Devices : device[e].code # c BY <2>2 DEF CodesUsedUp
  <2>4. /\ device' = [device EXCEPT ![d] = [user |-> guest[g].user, code |-> c, revoked |-> FALSE]]
        /\ code' = [code EXCEPT ![c] = [code[c] EXCEPT !.consumed = TRUE]]
        /\ token' = token \cup {d}
        /\ UNCHANGED <<second, userVars, limitVars>>
    BY <1>2 DEF ExchangeCode, Commit
  <2>5. guest[g].user \in Users \cup {Nobody} BY DEF AccountsTypeOK
  <2> HIDE DEF c
  <2>6. AccountsTypeOK'
    <3>1. device' \in [Devices -> [user : Users \cup {Nobody}, code : Codes \cup {NoCode},
                                   revoked : BOOLEAN]]
      BY <2>2, <2>4, <2>5 DEF AccountsTypeOK
    <3>2. [code[c] EXCEPT !.consumed = TRUE]
              \in [user : Users \cup {Nobody}, until : Nat, consumed : BOOLEAN]
      <4>1. \A v \in BOOLEAN : [code[c] EXCEPT !.consumed = v]
                \in [user : Users \cup {Nobody}, until : Nat, consumed : BOOLEAN]
        BY <2>2 DEF AccountsTypeOK
      <4> QED BY <4>1, Zenon
    <3>3. code' \in [Codes -> [user : Users \cup {Nobody}, until : Nat, consumed : BOOLEAN]]
      BY <2>2, <2>4, <3>2 DEF AccountsTypeOK
    <3> QED BY <2>1, <2>4, <3>1, <3>3 DEF AccountsTypeOK, GuestRecord
  <2>7. \A e \in Devices : device'[e].code = IF e = d THEN c ELSE device[e].code
    BY <2>4 DEF AccountsTypeOK
  <2>8. \A b \in Codes : code'[b].consumed <=> (b = c \/ code[b].consumed)
    BY <2>2, <2>4 DEF AccountsTypeOK
  <2>9. CodesUsedUp' BY <2>7, <2>8 DEF CodesUsedUp
  <2>10. FirstComeOnly' BY <2>2, <2>3, <2>4, <2>7 DEF FirstComeOnly
  <2> QED BY <2>1, <2>6, <2>9, <2>10
<1>3. ASSUME NEW d \in Devices, CreateApiToken(g, d) PROVE AccountsInv'
  <2>1. /\ guest' \in [Guests -> GuestRecord] /\ LockHeld' /\ SnapshotsHold' /\ writer' = Nobody
    BY <1>3, CommitAges DEF CreateApiToken
  <2>2. /\ device' = [device EXCEPT ![d] = [user |-> guest[g].user, code |-> NoCode, revoked |-> FALSE]]
        /\ token' = token \cup {d}
        /\ UNCHANGED <<second, userVars, code, limitVars>>
    BY <1>3 DEF CreateApiToken, Commit
  <2>3. guest[g].user \in Users \cup {Nobody} BY DEF AccountsTypeOK
  <2>4. AccountsTypeOK' BY <2>1, <2>2, <2>3 DEF AccountsTypeOK, GuestRecord
  <2>5. \A e \in Devices : device'[e].code = IF e = d THEN NoCode ELSE device[e].code
    BY <2>2 DEF AccountsTypeOK
  <2> QED BY <2>1, <2>2, <2>4, <2>5 DEF CodesUsedUp, FirstComeOnly
<1> QED BY <1>1, <1>2, <1>3

LEMMA NextAccounts == ASSUME AccountsInv, [AccountsNext]_accountVars PROVE AccountsInv'
<1>1. ASSUME NEW g \in Guests, GuestStep(g) PROVE AccountsInv'
  BY <1>1, RequestKeeps, LockKeeps, StatementKeeps, CommitKeeps DEF GuestStep
<1>2. ASSUME NEW k \in Clients, AllowVisit(k) PROVE AccountsInv'
  <2>1. UNCHANGED <<second, userVars, deviceVars, guest, writer>> BY <1>2 DEF AllowVisit
  <2>2. AccountsTypeOK'
    BY <1>2, <2>1, AllowType DEF AllowVisit, AccountsInv, AccountsTypeOK, userVars, deviceVars
  <2> QED BY <2>1, <2>2, AccountsElsewhere
<1>3. ASSUME NEW k \in Clients, Refuse(k) PROVE AccountsInv'
  <2>1. AccountsTypeOK' BY <1>3, RefuseType DEF AccountsInv
  <2> QED BY <1>3, <2>1, AccountsElsewhere DEF Refuse
<1>4. CASE Clock
  <2>1. AccountsTypeOK'
    BY <1>4, AccountsAssumption
       DEF Clock, AccountsInv, AccountsTypeOK, userVars, deviceVars, limitVars, Seconds
  <2> QED BY <1>4, <2>1, AccountsElsewhere DEF Clock
<1>5. CASE UNCHANGED accountVars
  <2>1. AccountsTypeOK' BY <1>5 DEF accountVars, AccountsInv, AccountsTypeOK
  <2> QED BY <1>5, <2>1, AccountsElsewhere DEF accountVars, userVars, deviceVars
<1> QED BY <1>1, <1>2, <1>3, <1>4, <1>5 DEF AccountsNext

(* The inductive invariant of the accounts holds.                           *)
THEOREM AccountsInvariantHolds == AccountsSpec => []AccountsInv
  BY InitAccounts, NextAccounts, PTL DEF AccountsSpec

(* Every request, row and bucket keeps its type, for any constants.         *)
THEOREM AccountsTypeCorrect == AccountsSpec => []AccountsTypeOK
<1>1. AccountsInv => AccountsTypeOK BY DEF AccountsInv
<1> QED BY AccountsInvariantHolds, <1>1, PTL

(* However many requests overlap, set-up makes one account and a pairing    *)
(* code pairs one device.                                                   *)
THEOREM OneAccountOneDevice == AccountsSpec => []FirstComeOnly
<1>1. AccountsInv => FirstComeOnly BY DEF AccountsInv
<1> QED BY AccountsInvariantHolds, <1>1, PTL

(***************************************************************************)
(* The limiter.  A bucket that is open counts what was let through since   *)
(* it was opened, its first request among it; what was let through in the  *)
(* last Window seconds before that, or by now if no bucket is open, is     *)
(* less than a burst, for the first request of the bucket before is too    *)
(* long ago.                                                               *)
(***************************************************************************)
Before(h, s) == IF s = 0 THEN 0 ELSE h[s - 1]

Rises(h, now) ==
    /\ \A s, t \in Seconds : s <= t => h[s] <= h[t]
    /\ \A t \in Seconds : now <= t => h[t] = h[now]

\* The bucket was opened in second q.
OpenSince(h, now, count, q) ==
    /\ q \in 0..now
    /\ count = h[now] - Before(h, q) /\ Before(h, q) < h[q]
    /\ \A s \in 0..(q - 1) : q < s + Window => Before(h, q) - Before(h, s) < Burst

\* No bucket is open, so nothing was let through in this second.
Closed(h, now) ==
    /\ h[now] = Before(h, now)
    /\ \A s \in 0..now : now < s + Window => h[now] - Before(h, s) < Burst

Bounded(h) ==
    \A s, t \in Seconds : s <= t /\ t < s + Window => h[t] - Before(h, s) < 2 * Burst

Limited(h, now, b) ==
    /\ Rises(h, now) /\ Bounded(h)
    /\ IF now > b.reset THEN Closed(h, now) ELSE OpenSince(h, now, b.count, b.reset - Window)

LimiterInv == AccountsTypeOK /\ \A k \in Clients : Limited(passed[k], second, bucket[k])

LEMMA ClosedAfter ==
    ASSUME NEW h \in [Seconds -> Nat], NEW now \in Seconds, now + 1 \in Seconds, NEW count \in Nat,
           count <= Burst, NEW q \in Int, now = q + Window, Rises(h, now), OpenSince(h, now, count, q)
    PROVE Closed(h, now + 1)
<1> USE AccountsAssumption DEF Seconds
<1>1. q \in Seconds /\ q \in Nat BY DEF OpenSince
<1>2. h[now + 1] = h[now] BY DEF Rises
<1>3. h[now + 1] = Before(h, now + 1) BY <1>2 DEF Before
<1>4. ASSUME NEW s \in 0..(now + 1), now + 1 < s + Window PROVE h[now + 1] - Before(h, s) < Burst
  <2>1. s - 1 \in Seconds /\ q <= s - 1 /\ s # 0 BY <1>1, <1>4
  <2>2. h[q] <= h[s - 1] BY <1>1, <2>1 DEF Rises
  <2>3. Before(h, s) = h[s - 1] /\ h[s - 1] \in Nat BY <2>1 DEF Before
  <2>4. h[now] - Before(h, q) <= Burst /\ Before(h, q) < h[q] BY DEF OpenSince
  <2>5. Before(h, q) \in Nat /\ h[q] \in Nat /\ h[now] \in Nat BY <1>1 DEF Before
  <2> QED BY <1>2, <2>2, <2>3, <2>4, <2>5
<1> QED BY <1>3, <1>4 DEF Closed

(* A second passes.                                                         *)
LEMMA LimitedClock ==
    ASSUME NEW h \in [Seconds -> Nat], NEW now \in Seconds, now + 1 \in Seconds,
           NEW b \in [count : 0..Burst, reset : Int], Limited(h, now, b)
    PROVE Limited(h, now + 1, b)
<1> USE AccountsAssumption DEF Seconds, Limited
<1>1. h[now + 1] = h[now] /\ Rises(h, now + 1) BY DEF Rises
<1>2. CASE now > b.reset
  <2>1. Closed(h, now + 1)
    <3>1. h[now + 1] = Before(h, now + 1) BY <1>1 DEF Before
    <3>2. ASSUME NEW s \in 0..(now + 1), now + 1 < s + Window PROVE h[now + 1] - Before(h, s) < Burst
      <4>1. CASE s = now + 1 BY <3>1, <4>1
      <4>2. CASE s # now + 1
        <5>1. s \in 0..now /\ now < s + Window BY <3>2, <4>2
        <5> QED BY <1>1, <1>2, <5>1 DEF Closed
      <4> QED BY <4>1, <4>2
    <3> QED BY <3>1, <3>2 DEF Closed
  <2>2. now + 1 > b.reset BY <1>2
  <2> QED BY <1>1, <2>1, <2>2
<1>3. CASE ~(now > b.reset)
  <2>1. OpenSince(h, now, b.count, b.reset - Window) /\ b.count \in Nat /\ b.count <= Burst
        /\ b.reset - Window \in Int
    BY <1>3
  <2>2. CASE now + 1 > b.reset
    <3>1. now = (b.reset - Window) + Window BY <1>3, <2>2
    <3>2. Closed(h, now + 1) BY <2>1, <3>1, ClosedAfter
    <3> QED BY <1>1, <2>2, <3>2
  <2>3. CASE ~(now + 1 > b.reset)
    <3>1. OpenSince(h, now + 1, b.count, b.reset - Window) BY <1>1, <2>1 DEF OpenSince
    <3> QED BY <1>1, <2>3, <3>1
  <2> QED BY <2>2, <2>3
<1> QED BY <1>2, <1>3

(* Of a bucket that is not open nothing matters.                            *)
LEMMA LimitedForgets ==
    ASSUME NEW h, NEW now, NEW b, NEW c, now > b.reset, now > c.reset, Limited(h, now, b)
    PROVE Limited(h, now, c)
  BY DEF Limited

(* The second before one that is later than another.                        *)
LEMMA SecondBefore ==
    ASSUME NEW n \in Nat, NEW s \in 0..n, NEW t \in 0..n, NEW now \in 0..n, now < s, s <= t
    PROVE  s - 1 \in 0..n /\ now <= s - 1 /\ s # 0 /\ now <= t
  OBVIOUS

(* One more request in second now leaves every window bounded if those that *)
(* reach now have room for it.                                              *)
LEMMA BoundedAfter ==
    ASSUME NEW h \in [Seconds -> Nat], NEW now \in Seconds, NEW g, Bounded(h), Rises(h, now),
           Rises(g, now), \A t \in Seconds : g[t] \in Nat,
           \A t \in Seconds : g[t] = IF t < now THEN h[t] ELSE h[t] + 1,
           \A s \in 0..now : now < s + Window => h[now] + 1 - Before(h, s) < 2 * Burst
    PROVE  Bounded(g)
<1> USE AccountsAssumption DEF Seconds
<1> SUFFICES ASSUME NEW s \in Seconds, NEW t \in Seconds, s <= t, t < s + Window
             PROVE g[t] - Before(g, s) < 2 * Burst
  BY DEF Bounded
<1>1. s \in 0..LastSecond /\ t \in 0..LastSecond /\ now \in 0..LastSecond /\ LastSecond \in Nat
  OBVIOUS
<1>2. ASSUME s <= now PROVE Before(g, s) = Before(h, s) /\ Before(h, s) \in Nat
  <2>1. CASE s = 0 BY <2>1 DEF Before
  <2>2. CASE s # 0
    <3>1. s - 1 \in 0..LastSecond /\ s - 1 < now BY <1>1, <1>2, <2>2
    <3>2. g[s - 1] = h[s - 1] /\ h[s - 1] \in Nat BY <3>1
    <3> QED BY <2>2, <3>2 DEF Before
  <2> QED BY <2>1, <2>2
<1>3. CASE t < now
  <2>1. g[t] = h[t] /\ s <= now BY <1>1, <1>3
  <2>2. h[t] - Before(h, s) < 2 * Burst BY DEF Bounded
  <2> QED BY <1>2, <2>1, <2>2
<1>4. CASE now <= t /\ s <= now
  <2>1. h[t] = h[now] /\ h[now] \in Nat BY <1>4 DEF Rises
  <2>2. g[t] = h[now] + 1 BY <1>1, <1>4, <2>1
  <2>3. s \in 0..now /\ now < s + Window BY <1>1, <1>4
  <2>4. h[now] + 1 - Before(h, s) < 2 * Burst BY <2>3
  <2> QED BY <1>2, <1>4, <2>2, <2>4
<1>5. CASE now < s
  <2>1. s - 1 \in Seconds /\ now <= s - 1 /\ s # 0 /\ now <= t BY <1>1, <1>5, SecondBefore
  <2>2. g[t] = g[now] /\ g[s - 1] = g[now] BY <2>1 DEF Rises
  <2>3. Before(g, s) = g[now] /\ g[now] \in Nat BY <2>1, <2>2 DEF Before
  <2>4. g[t] - Before(g, s) = 0 BY <2>2, <2>3
  <2> QED BY <2>4
<1> QED BY <1>1, <1>3, <1>4, <1>5

(* A request is let through.                                                *)
LEMMA LimitedAllow ==
    ASSUME NEW h \in [Seconds -> Nat], NEW now \in Seconds,
           NEW b \in [count : 0..Burst, reset : Int], Limited(h, now, b),
           now > b.reset \/ b.count < Burst,
           NEW g, g = [t \in Seconds |-> IF t < now THEN h[t] ELSE h[t] + 1],
           NEW c, c = IF now > b.reset THEN [count |-> 1, reset |-> now + Window]
                      ELSE [b EXCEPT !.count = b.count + 1]
    PROVE Limited(g, now, c)
<1> USE AccountsAssumption DEF Seconds, Limited
<1>1. \A t \in Seconds : g[t] = IF t < now THEN h[t] ELSE h[t] + 1 OBVIOUS
<1>2. \A t \in Seconds : h[t] \in Nat /\ g[t] \in Nat BY <1>1
<1>3. \A s \in 0..now : Before(g, s) = Before(h, s) /\ Before(h, s) \in Nat
  BY <1>1, <1>2 DEF Before
<1>4. \A s, t \in Seconds : s <= t => h[s] <= h[t] BY DEF Rises
<1>5. \A t \in Seconds : now <= t => h[t] = h[now] BY DEF Rises
<1>6. Rises(g, now)
  <2>1. \A s, t \in Seconds : s <= t => g[s] <= g[t] BY <1>1, <1>2, <1>4
  <2>2. \A t \in Seconds : now <= t => g[t] = g[now] BY <1>1, <1>5
  <2> QED BY <2>1, <2>2 DEF Rises
<1>7. g[now] = h[now] + 1 BY <1>1
<1>8. \A s \in 0..now : now < s + Window => h[now] + 1 - Before(h, s) < 2 * Burst
  <2> SUFFICES ASSUME NEW s \in 0..now, now < s + Window
               PROVE h[now] + 1 - Before(h, s) < 2 * Burst
    OBVIOUS
  <2>1. h[now] \in Nat /\ Before(h, s) \in Nat BY <1>2, <1>3
  <2>2. CASE now > b.reset
    <3>1. h[now] - Before(h, s) < Burst BY <2>2 DEF Closed
    <3> QED BY <2>1, <3>1
  <2>3. CASE ~(now > b.reset)
    <3>1. PICK q \in 0..now : q = b.reset - Window BY <2>3 DEF OpenSince
    <3>2. /\ b.count = h[now] - Before(h, q)
          /\ \A r \in 0..(q - 1) : q < r + Window => Before(h, q) - Before(h, r) < Burst
      BY <2>3, <3>1 DEF OpenSince
    <3>3. h[now] - Before(h, q) < Burst BY <2>3, <3>2
    <3>4. Before(h, q) \in Nat BY <1>3
    <3>5. CASE s < q
      <4>1. s \in 0..(q - 1) /\ q < s + Window BY <3>5
      <4>2. Before(h, q) - Before(h, s) < Burst BY <3>2, <4>1
      <4> QED BY <2>1, <3>3, <3>4, <4>2
    <3>6. CASE q <= s
      <4>1. Before(h, q) <= Before(h, s)
        <5>1. CASE q = 0 BY <2>1, <5>1 DEF Before
        <5>2. CASE q # 0 BY <1>4, <3>6, <5>2 DEF Before
        <5> QED BY <5>1, <5>2
      <4> QED BY <2>1, <3>3, <3>4, <4>1
    <3> QED BY <3>5, <3>6
  <2> QED BY <2>2, <2>3
<1>9. Bounded(g) BY <1>1, <1>2, <1>6, <1>8, BoundedAfter
<1>10. CASE now > b.reset
  <2>1. c.count = 1 /\ c.reset = now + Window BY <1>10
  <2>2. ~(now > c.reset) /\ c.reset - Window = now BY <2>1
  <2>3. OpenSince(g, now, 1, now)
    <3>1. h[now] = Before(h, now) /\ Before(g, now) = Before(h, now) BY <1>3, <1>10 DEF Closed
    <3>2. 1 = g[now] - Before(g, now) /\ Before(g, now) < g[now]
      <4>1. g[now] = Before(g, now) + 1 /\ h[now] \in Nat BY <1>2, <1>7, <3>1
      <4> QED BY <3>1, <4>1
    <3>3. ASSUME NEW s \in 0..(now - 1), now < s + Window PROVE Before(g, now) - Before(g, s) < Burst
      <4>1. s \in 0..now BY <3>3
      <4>2. h[now] - Before(h, s) < Burst BY <1>10, <3>3, <4>1 DEF Closed
      <4> QED BY <1>3, <3>1, <4>1, <4>2
    <3> QED BY <3>2, <3>3 DEF OpenSince
  <2> QED BY <1>6, <1>9, <2>1, <2>2, <2>3
<1>11. CASE ~(now > b.reset)
  <2>1. c.count = b.count + 1 /\ c.reset = b.reset BY <1>11
  <2>2. PICK q \in 0..now : q = b.reset - Window /\ OpenSince(h, now, b.count, q)
    BY <1>11 DEF OpenSince
  <2>3. OpenSince(g, now, b.count + 1, q)
    <3>4. Before(g, q) = Before(h, q) /\ Before(h, q) \in Nat BY <1>3, <2>2
    <3>5. b.count = h[now] - Before(h, q) /\ Before(h, q) < h[q] BY <2>2 DEF OpenSince
    <3>6. h[now] \in Nat /\ h[q] \in Nat /\ g[q] \in Nat /\ h[q] <= g[q] BY <1>1, <1>2, <2>2
    <3>1. b.count + 1 = g[now] - Before(g, q) BY <1>7, <3>4, <3>5, <3>6
    <3>2. Before(g, q) < g[q] BY <3>4, <3>5, <3>6
    <3>3. ASSUME NEW s \in 0..(q - 1), q < s + Window PROVE Before(g, q) - Before(g, s) < Burst
      <4>1. Before(h, q) - Before(h, s) < Burst BY <2>2, <3>3 DEF OpenSince
      <4>2. s \in 0..now BY <2>2
      <4> QED BY <1>3, <3>4, <4>1, <4>2
    <3> QED BY <2>2, <3>1, <3>2, <3>3 DEF OpenSince
  <2> QED BY <1>6, <1>9, <1>11, <2>1, <2>2, <2>3
<1> QED BY <1>10, <1>11

(* The sweep drops buckets that are not open.                               *)
LEMMA SweepForgets ==
    ASSUME LimiterInv
    PROVE /\ Swept \in [Clients -> [count : 0..Burst, reset : Int]]
          /\ \A k \in Clients : Limited(passed[k], second, Swept[k])
<1> USE AccountsAssumption DEF LimiterInv
<1>1. Swept \in [Clients -> [count : 0..Burst, reset : Int]]
  BY DEF AccountsTypeOK, Swept, NoBucket, Expired
<1>2. ASSUME NEW k \in Clients PROVE Limited(passed[k], second, Swept[k])
  <2>1. Swept[k] = bucket[k] \/ (second > bucket[k].reset /\ Swept[k] = NoBucket)
    BY DEF Swept, Expired, AccountsTypeOK
  <2>2. second > NoBucket.reset BY DEF AccountsTypeOK, NoBucket, Seconds
  <2> QED BY <2>1, <2>2, LimitedForgets
<1> QED BY <1>1, <1>2

LEMMA AllowLimits ==
    ASSUME LimiterInv, NEW k \in Clients, Allow(k), UNCHANGED second
    PROVE \A j \in Clients : Limited(passed[j], second, bucket[j])'
<1> USE AccountsAssumption DEF LimiterInv
<1>1. PICK b : b = Swept[k] OBVIOUS
<1>2. b \in [count : 0..Burst, reset : Int] /\ Limited(passed[k], second, b) BY <1>1, SweepForgets
<1>3. PICK g : g = [t \in Seconds |-> IF t < second THEN passed[k][t] ELSE passed[k][t] + 1] OBVIOUS
<1>4. PICK c : c = IF second > b.reset THEN [count |-> 1, reset |-> second + Window]
                   ELSE [b EXCEPT !.count = b.count + 1]
  OBVIOUS
<1>5. /\ second > b.reset \/ b.count < Burst
      /\ bucket' = [Swept EXCEPT ![k] = c]
      /\ passed' = [passed EXCEPT ![k] = g]
  BY <1>1, <1>3, <1>4 DEF Allow, Expired
<1>6. passed[k] \in [Seconds -> Nat] /\ second \in Seconds BY DEF AccountsTypeOK
<1>7. Limited(g, second, c) BY <1>2, <1>3, <1>4, <1>5, <1>6, LimitedAllow
<1>8. ASSUME NEW j \in Clients PROVE Limited(passed'[j], second, bucket'[j])
  <2>1. CASE j = k
    <3>1. passed'[j] = g /\ bucket'[j] = c BY <1>5, <2>1, SweepForgets DEF AccountsTypeOK
    <3> QED BY <1>7, <3>1
  <2>2. CASE j # k
    <3>1. passed'[j] = passed[j] /\ bucket'[j] = Swept[j] BY <1>5, <2>2, SweepForgets DEF AccountsTypeOK
    <3> QED BY <3>1, SweepForgets
  <2> QED BY <2>1, <2>2
<1> QED BY <1>8 DEF Limited, Rises, Bounded, Closed, OpenSince, Before

LEMMA NextLimiter == ASSUME AccountsInv, LimiterInv, [AccountsNext]_accountVars PROVE LimiterInv'
<1> USE AccountsAssumption DEF LimiterInv
<1>1. AccountsTypeOK' BY NextAccounts DEF AccountsInv
<1>2. ASSUME UNCHANGED <<second, limitVars>> PROVE LimiterInv'
  BY <1>1, <1>2 DEF limitVars, Limited, Rises, Bounded, Closed, OpenSince, Before
<1>3. ASSUME NEW k \in Clients, Allow(k), UNCHANGED second PROVE LimiterInv'
  BY <1>1, <1>3, AllowLimits
<1>4. ASSUME NEW k \in Clients, Refuse(k) PROVE LimiterInv'
  <2>1. bucket' = Swept /\ passed' = passed /\ second' = second BY <1>4 DEF Refuse
  <2>2. \A j \in Clients : Limited(passed'[j], second', bucket'[j]) BY <2>1, SweepForgets
  <2> QED BY <1>1, <2>2 DEF Limited, Rises, Bounded, Closed, OpenSince, Before
<1>5. CASE Clock
  <2>1. second' = second + 1 /\ UNCHANGED limitVars /\ second \in Seconds /\ second + 1 \in Seconds
    BY <1>5 DEF Clock, AccountsTypeOK, Seconds
  <2>2. ASSUME NEW k \in Clients PROVE Limited(passed'[k], second', bucket'[k])
    <3>1. passed[k] \in [Seconds -> Nat] /\ bucket[k] \in [count : 0..Burst, reset : Int]
      BY DEF AccountsTypeOK
    <3>2. Limited(passed[k], second + 1, bucket[k]) BY <2>1, <3>1, LimitedClock
    <3> QED BY <2>1, <3>2 DEF limitVars
  <2> QED BY <1>1, <2>2 DEF Limited, Rises, Bounded, Closed, OpenSince, Before
<1>6. ASSUME NEW g \in Guests, GuestStep(g) PROVE LimiterInv'
  <2>1. ASSUME NEW k \in Clients, NEW c \in Codes, BeginExchange(g, k, c) PROVE LimiterInv'
    BY <1>3, <2>1 DEF BeginExchange
  <2>2. \/ \E k \in Clients, c \in Codes : BeginExchange(g, k, c)
        \/ UNCHANGED <<second, limitVars>>
    BY <1>6 DEF GuestStep, BeginRegister, BeginApiToken, TakeLock, Rollback, Login, Logout,
         RegisterFirstAdmin, ExchangeCode, CreateApiToken, StartPairing, RevokeDevice, DeleteTokens,
         OtherStatement, Commit
  <2> QED BY <1>2, <2>1, <2>2
<1>7. ASSUME NEW k \in Clients, AllowVisit(k) PROVE LimiterInv'
  BY <1>3, <1>7 DEF AllowVisit
<1>8. CASE UNCHANGED accountVars BY <1>2, <1>8 DEF accountVars, limitVars
<1> QED BY <1>4, <1>5, <1>6, <1>7, <1>8 DEF AccountsNext

LEMMA InitLimiter == ASSUME AccountsInit PROVE LimiterInv
<1> USE AccountsAssumption DEF AccountsInit
<1>1. AccountsTypeOK BY InitAccounts DEF AccountsInv
<1>2. ASSUME NEW k \in Clients PROVE Limited(passed[k], second, bucket[k])
  <2>1. \A t \in Seconds : passed[k][t] = 0 OBVIOUS
  <2>2. \A s \in Seconds : Before(passed[k], s) = 0 BY <2>1 DEF Before, Seconds
  <2>3. 0 \in Seconds /\ 0 < Burst BY DEF Seconds
  <2>4. Rises(passed[k], 0) BY <2>1, <2>3 DEF Rises
  <2>5. Bounded(passed[k]) BY <2>1, <2>2 DEF Bounded
  <2>6. Closed(passed[k], 0) BY <2>1, <2>2, <2>3 DEF Closed
  <2>7. second > bucket[k].reset BY DEF NoBucket
  <2> QED BY <2>4, <2>5, <2>6, <2>7 DEF Limited
<1> QED BY <1>1, <1>2 DEF LimiterInv

(* No key gets twice its burst through in any window, for any burst, window *)
(* and length of time, whatever the sweeps drop.                            *)
THEOREM BurstsAreBounded == AccountsSpec => []BurstBounded
<1>1. LimiterInv => BurstBounded
  BY DEF LimiterInv, Limited, Bounded, BurstBounded, PassedBetween, Before
<1> QED BY InitAccounts, NextAccounts, InitLimiter, NextLimiter, <1>1, PTL DEF AccountsSpec


(***************************************************************************)
(* The tables side by side.  Every behaviour of the composition is one of  *)
(* each module, so each keeps what was proved of it alone.                 *)
(***************************************************************************)
LEMMA TreeOfMetadata == MetadataSpec => TreeSpec
<1>1. MetadataInit => TreeInit BY DEF MetadataInit
<1>2. [MetadataNext]_metadataVars => [TreeNext]_treeVars
  BY DEF MetadataNext, metadataVars
<1> QED BY <1>1, <1>2, PTL DEF MetadataSpec, TreeSpec

LEMMA SyncOfMetadata == MetadataSpec => SyncSpec
<1>1. MetadataInit => SyncInit BY DEF MetadataInit
<1>2. [MetadataNext]_metadataVars => [SyncNext]_syncVars
  BY DEF MetadataNext, metadataVars
<1> QED BY <1>1, <1>2, PTL DEF MetadataSpec, SyncSpec

LEMMA SharesOfMetadata == MetadataSpec => SharesSpec
<1>1. MetadataInit => SharesInit BY DEF MetadataInit
<1>2. [MetadataNext]_metadataVars => [SharesNext]_shareVars
  BY DEF MetadataNext, metadataVars
<1> QED BY <1>1, <1>2, PTL DEF MetadataSpec, SharesSpec

LEMMA AccountsOfMetadata == MetadataSpec => AccountsSpec
<1>1. MetadataInit => AccountsInit BY DEF MetadataInit
<1>2. [MetadataNext]_metadataVars => [AccountsNext]_accountVars
  BY DEF MetadataNext, metadataVars
<1> QED BY <1>1, <1>2, PTL DEF MetadataSpec, AccountsSpec

(* The tables keep their types, whichever of them moves.                    *)
THEOREM MetadataTypeCorrect == MetadataSpec => []MetadataTypeOK
<1>1. TreeTypeOK /\ SyncTypeOK /\ SharesTypeOK /\ AccountsTypeOK => MetadataTypeOK
  BY DEF MetadataTypeOK
<1> QED
  BY <1>1, TreeOfMetadata, SyncOfMetadata, SharesOfMetadata, AccountsOfMetadata,
     TreeTypeCorrect, SyncTypeCorrect, SharesTypeCorrect, AccountsTypeCorrect, PTL

(* What a run of the composition checks of its parts holds of it for every  *)
(* value of the constants: no folder is lost, no notice, no entry lies, no  *)
(* limit is passed, no code is used twice, no burst is doubled.             *)
THEOREM MetadataIsSound ==
    MetadataSpec => [](/\ CyclesNeedARace /\ NothingDangles /\ UploadsShareFolders
                       /\ EntriesTellTheContent /\ NoticedChangesArrive
                       /\ LimitHolds /\ FirstComeOnly /\ BurstBounded)
  BY TreeOfMetadata, SyncOfMetadata, SharesOfMetadata, AccountsOfMetadata,
     TreesStayTrees, TreesStayReachable, PathsAreShared, EntriesAreTrue, NoticedIsNotLost,
     LimitIsKept, OneAccountOneDevice, BurstsAreBounded, PTL

=============================================================================

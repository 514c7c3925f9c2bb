------------------------------- MODULE Shares -------------------------------
(***************************************************************************)
(* Public links to a file or a folder (internal/drive/share.go and the     *)
(* /share and /v1/shares handlers of internal/api/server.go).              *)
(*                                                                         *)
(* A visit resolves the link (its row, then its password hash in a query   *)
(* of its own, then its target), fetches the file, which may take long,    *)
(* and only then counts the download.  The owner edits the link meanwhile  *)
(* with a read of the row followed by an UPDATE of most of its columns.    *)
(***************************************************************************)
EXTENDS Integers

CONSTANTS
    Links,       \* ids of link rows
    Visits,      \* slots for requests of visitors
    Edits,       \* slots for PUT /v1/shares requests
    Passwords,
    NoPassword,  \* password_hash NULL, or no password given
    Limits,      \* values of max_downloads; 0 is no limit
    Lifetimes,   \* values of expires_in; 0 is no expiry
    Keep,        \* a field the edit leaves out
    LastTime,    \* bound of the model: the clock
    MaxRequests  \* bound of the model: visits and edits in a behaviour

ASSUME SharesAssumption ==
    /\ Links # {} /\ NoPassword \notin Passwords
    /\ Limits \subseteq Nat /\ Lifetimes \subseteq Nat
    /\ Keep \notin Nat \cup BOOLEAN \cup Passwords \cup {NoPassword}
    /\ LastTime \in Nat /\ MaxRequests \in Nat

VARIABLES
    link,      \* the rows of the table shares
    shared,    \* the file or folder a link leads to is in the drive
    today,     \* time.Now()
    visit,     \* the request each visitor slot is running
    edit,      \* the update each owner slot is running
    requests,  \* visits and edits begun
    granted,   \* history: downloads let through, per link
    relimited  \* history: links whose limit an edit has set

shareVars == <<link, shared, today, visit, edit, requests, granted, relimited>>

Link == [row : {"unused", "live", "gone"}, kind : {"file", "folder"},
         password : Passwords \cup {NoPassword}, expires : Nat,
         revoked : BOOLEAN, max : Nat, count : Nat]
Unused == [row |-> "unused", kind |-> "file", password |-> NoPassword, expires |-> 0,
           revoked |-> FALSE, max |-> 0, count |-> 0]

\* The page and the password form only resolve the link ("look"); "inline" and
\* "download" ask for its bytes.
Goals == {"look", "inline", "download"}
Visit == [pc : {"idle", "hash", "target", "fetch", "count"}, link : Links, goal : Goals,
          password : Passwords \cup {NoPassword}]
NoVisit == [pc |-> "idle", link |-> CHOOSE l \in Links : TRUE, goal |-> "look",
            password |-> NoPassword]

Change == [password : Passwords \cup {NoPassword, Keep}, expires : Lifetimes \cup {Keep},
           revoked : BOOLEAN \cup {Keep}, max : Limits \cup {Keep}]
NoChange == [password |-> Keep, expires |-> Keep, revoked |-> Keep, max |-> Keep]
Edit == [busy : BOOLEAN, link : Links, read : Link, change : Change]
NoEdit == [busy |-> FALSE, link |-> CHOOSE l \in Links : TRUE, read |-> Unused, change |-> NoChange]

SharesTypeOK ==
    /\ link \in [Links -> Link]
    /\ shared \in [Links -> BOOLEAN]
    /\ today \in 1..(LastTime + 1)
    /\ visit \in [Visits -> Visit]
    /\ edit \in [Edits -> Edit]
    /\ requests \in 0..MaxRequests
    /\ granted \in [Links -> Nat]
    /\ relimited \in SUBSET Links

SharesInit ==
    /\ link = [l \in Links |-> Unused]
    /\ shared = [l \in Links |-> TRUE]
    /\ today = 1
    /\ visit = [v \in Visits |-> NoVisit]
    /\ edit = [e \in Edits |-> NoEdit]
    /\ requests = 0
    /\ granted = [l \in Links |-> 0]
    /\ relimited = {}

ExpiresAt(ttl) == IF ttl > 0 THEN today + ttl ELSE 0

(***************************************************************************)
(* The owner.                                                              *)
(***************************************************************************)
CreateShare(l, kind, password, ttl, max) ==
    /\ link[l].row = "unused" /\ shared[l]
    /\ link' = [link EXCEPT ![l] = [row |-> "live", kind |-> kind, password |-> password,
                                    expires |-> ExpiresAt(ttl), revoked |-> FALSE,
                                    max |-> max, count |-> 0]]
    /\ UNCHANGED <<shared, today, visit, edit, requests, granted, relimited>>

\* getShareByID, with the change the request asks for.
ReadShare(e, l, change) ==
    /\ ~edit[e].busy /\ requests < MaxRequests
    /\ link[l].row = "live"
    /\ edit' = [edit EXCEPT ![e] = [busy |-> TRUE, link |-> l, read |-> link[l], change |-> change]]
    /\ requests' = requests + 1
    /\ UNCHANGED <<link, shared, today, visit, granted, relimited>>

Chosen(new, old) == IF new = Keep THEN old ELSE new

\* Seeded fault: the UPDATE writes the whole row as it was read.
UpdatedWithCount(row, x) ==
    [x.read EXCEPT !.revoked = Chosen(x.change.revoked, @),
                   !.expires = IF x.change.expires = Keep THEN @ ELSE ExpiresAt(x.change.expires),
                   !.max = Chosen(x.change.max, @),
                   !.password = Chosen(x.change.password, @)]

\* The columns the UPDATE leaves alone are the count and, unless it is part
\* of the change, the password; the others go back as they were read.
Updated(row, x) ==
    [row EXCEPT !.revoked = Chosen(x.change.revoked, x.read.revoked),
                !.expires = IF x.change.expires = Keep THEN x.read.expires
                            ELSE ExpiresAt(x.change.expires),
                !.max = Chosen(x.change.max, x.read.max),
                !.password = Chosen(x.change.password, @)]

UpdateShare(e) ==
    LET x == edit[e] IN
    /\ x.busy
    /\ link' = [l \in Links |-> IF l = x.link /\ link[l].row = "live" THEN Updated(link[l], x)
                                ELSE link[l]]
    /\ edit' = [edit EXCEPT ![e] = NoEdit]
    /\ relimited' = IF x.change.max = Keep THEN relimited ELSE relimited \cup {x.link}
    /\ UNCHANGED <<shared, today, visit, requests, granted>>

DeleteShare(l) ==
    /\ link[l].row = "live"
    /\ link' = [link EXCEPT ![l].row = "gone"]
    /\ UNCHANGED <<shared, today, visit, edit, requests, granted, relimited>>

\* The target is trashed, or restored, in the drive.
MoveTarget(l) ==
    /\ shared' = [shared EXCEPT ![l] = ~@]
    /\ UNCHANGED <<link, today, visit, edit, requests, granted, relimited>>

(***************************************************************************)
(* ResolveShare: the row, the password hash, the target.                   *)
(***************************************************************************)
Answer(v, pc) ==
    /\ visit' = [visit EXCEPT ![v] = IF pc = "idle" THEN NoVisit ELSE [@ EXCEPT !.pc = pc]]
    /\ UNCHANGED <<link, shared, today, edit, requests, granted, relimited>>

\* A link may still be opened at the second it expires.
Opens(row) ==
    /\ row.row = "live" /\ ~row.revoked
    /\ row.expires = 0 \/ row.expires >= today
    /\ row.max = 0 \/ row.count < row.max

OpenLink(v, l, goal, password) ==
    /\ visit[v].pc = "idle" /\ requests < MaxRequests
    /\ Opens(link[l])
    /\ link[l].password # NoPassword => password # NoPassword
    /\ visit' = [visit EXCEPT ![v] = [pc |-> IF link[l].password = NoPassword THEN "target" ELSE "hash",
                                      link |-> l, goal |-> goal, password |-> password]]
    /\ requests' = requests + 1
    /\ UNCHANGED <<link, shared, today, edit, granted, relimited>>

\* An empty hash, when the password was taken off meanwhile, matches nothing.
CheckPassword(v) ==
    LET row == link[visit[v].link] IN
    /\ visit[v].pc = "hash"
    /\ Answer(v, IF row.row = "live" /\ row.password = visit[v].password THEN "target" ELSE "idle")

\* A folder is looked up only when it is zipped.
FindTarget(v) ==
    LET l == visit[v].link
        onward == IF visit[v].goal = "look" THEN "idle"
                  ELSE IF link[l].kind = "folder" THEN "count" ELSE "fetch"
    IN /\ visit[v].pc = "target"
       /\ Answer(v, IF link[l].kind = "file" /\ ~shared[l] THEN "idle" ELSE onward)

\* DownloadableForShare may have to restore the file from Telegram first.  A
\* preview is served without being counted.
FetchShared(v) ==
    LET l == visit[v].link IN
    /\ visit[v].pc = "fetch"
    /\ \/ Answer(v, "idle")
       \/ shared[l] /\ visit[v].goal = "download" /\ Answer(v, "count")

(***************************************************************************)
(* RecordShareAccess: one UPDATE that checks the terms again and counts.   *)
(***************************************************************************)
Counts(row) ==
    /\ row.row = "live" /\ ~row.revoked
    /\ row.expires = 0 \/ row.expires > today
    /\ row.max = 0 \/ row.count < row.max

CountDownload(v) ==
    LET l == visit[v].link IN
    /\ visit[v].pc = "count"
    /\ Counts(link[l])
    /\ link' = [link EXCEPT ![l].count = @ + 1]
    /\ granted' = [granted EXCEPT ![l] = @ + 1]
    /\ visit' = [visit EXCEPT ![v] = NoVisit]
    /\ UNCHANGED <<shared, today, edit, requests, relimited>>

RefuseDownload(v) ==
    /\ visit[v].pc = "count"
    /\ ~Counts(link[visit[v].link])
    /\ Answer(v, "idle")

\* An SQL error, or the visitor goes away.
DropVisit(v) == visit[v].pc # "idle" /\ Answer(v, "idle")

Midnight ==
    /\ today <= LastTime
    /\ today' = today + 1
    /\ UNCHANGED <<link, shared, visit, edit, requests, granted, relimited>>

Changes ==
    {[NoChange EXCEPT !.password = p] : p \in Passwords \cup {NoPassword}}
        \cup {[NoChange EXCEPT !.expires = t] : t \in Lifetimes}
        \cup {[NoChange EXCEPT !.revoked = b] : b \in BOOLEAN}
        \cup {[NoChange EXCEPT !.max = n] : n \in Limits}

Owner ==
    \/ \E l \in Links, kind \in {"file", "folder"}, p \in Passwords \cup {NoPassword},
          t \in Lifetimes, n \in Limits : CreateShare(l, kind, p, t, n)
    \/ \E e \in Edits, l \in Links, c \in Changes : ReadShare(e, l, c)
    \/ \E e \in Edits : UpdateShare(e)
    \/ \E l \in Links : DeleteShare(l) \/ MoveTarget(l)

Visitor(v) ==
    \/ \E l \in Links, g \in Goals, p \in Passwords \cup {NoPassword} : OpenLink(v, l, g, p)
    \/ CheckPassword(v) \/ FindTarget(v) \/ FetchShared(v)
    \/ CountDownload(v) \/ RefuseDownload(v) \/ DropVisit(v)

SharesNext == Owner \/ Midnight \/ \E v \in Visits : Visitor(v)

SharesSpec == SharesInit /\ [][SharesNext]_shareVars

(***************************************************************************)
(* Properties.                                                             *)
(***************************************************************************)

\* The row counts every download that was let through, whatever edits and
\* other downloads ran at the same time, and unless the owner has set
\* another limit since, no more of them were let through than the link
\* allows, although each visit checked the limit long before it was counted.
LimitHolds ==
    \A l \in Links :
        /\ link[l].count = granted[l]
        /\ link[l].max > 0 /\ l \notin relimited => granted[l] <= link[l].max

=============================================================================

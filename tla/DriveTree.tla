----------------------------- MODULE DriveTree -----------------------------
(***************************************************************************)
(* The folder tree: rows of the tables folders and files, and the requests *)
(* that create, fill, move, rename, trash, restore and permanently delete  *)
(* them (internal/drive/operations.go, operations_v2.go and the folder     *)
(* half of service.go).                                                    *)
(*                                                                         *)
(* Every SQL statement is a step of its own where another request can come *)
(* in between and matter: a move checks with one SELECT per ancestor and   *)
(* then writes, a trash or a deletion collects the subtree level by level  *)
(* and then writes, an upload looks up and creates its path one folder at  *)
(* a time under folderCreateMu.  Requests can fail between any two steps   *)
(* (an SQL error, a client that goes away, a stop of the agent).  A row of *)
(* another owner is to every statement here as a row that is not there.    *)
(***************************************************************************)
EXTENDS Integers, Sequences, SequencesExt

CONSTANTS
    Folders,    \* ids of folder rows
    Documents,  \* ids of file rows
    Names,      \* folder names
    Requests,   \* request slots
    Root,       \* the empty parent_id / folder_id
    NoRequest,  \* folderCreateMu is free
    HopLimit,   \* ancestors assertNotDescendant looks at (200 in the code)
    MaxTree,    \* folders collectFolderTreeIDs accepts (50000 in the code)
    MaxOps      \* bound of the model: operations begun in a behaviour

ASSUME TreeAssumption ==
    /\ Root \notin Folders
    /\ IsFiniteSet(Folders) /\ IsFiniteSet(Documents)
    /\ NoRequest \notin Requests
    /\ HopLimit \in Nat /\ MaxTree \in Nat /\ MaxOps \in Nat

VARIABLES
    parent,     \* folders.parent_id
    title,      \* folders.name
    folderRow,  \* "unused" (id not drawn yet), "live", "trashed", "gone"
    home,       \* files.folder_id
    fileRow,    \* the same for files
    creating,   \* holder of folderCreateMu
    req,        \* the operation each slot is running
    begun,      \* operations begun so far
    raced,      \* history: a request has written after another one had
                \* written since it began
    byUpload    \* history: folders made by an upload and untouched since

treeVars == <<parent, title, folderRow, home, fileRow, creating, req, begun, raced, byUpload>>
rows == <<parent, title, folderRow, home, fileRow, byUpload>>

Rows == {"unused", "live", "trashed", "gone"}
Places == Folders \cup {Root}
ReqPCs == {"idle", "walk", "move", "move_file", "create", "path", "insert",
           "collect", "trash", "list", "files", "folders"}

Request == [pc : ReqPCs, id : Folders \cup Documents \cup {Root}, to : Places, at : Places,
            names : Seq(Names), hops : Nat, then : {"trash", "list"},
            todo : Seq(Folders), out : Seq(Folders), files : Seq(Documents), stale : BOOLEAN]

Idle == [pc |-> "idle", id |-> Root, to |-> Root, at |-> Root, names |-> <<>>, hops |-> 0,
         then |-> "trash", todo |-> <<>>, out |-> <<>>, files |-> <<>>, stale |-> FALSE]

TreeTypeOK ==
    /\ parent \in [Folders -> Places]
    /\ title \in [Folders -> Names]
    /\ folderRow \in [Folders -> Rows]
    /\ home \in [Documents -> Places]
    /\ fileRow \in [Documents -> Rows]
    /\ creating \in Requests \cup {NoRequest}
    /\ req \in [Requests -> Request]
    /\ begun \in 0..MaxOps
    /\ raced \in BOOLEAN
    /\ byUpload \in SUBSET Folders

FolderExists(f) == folderRow[f] \in {"live", "trashed"}
FileExists(x) == fileRow[x] \in {"live", "trashed"}
\* ensureFolderExists, skipped for the root.
FolderLive(p) == p \in {Root} \cup {f \in Folders : folderRow[f] = "live"}
ChildFolders(f) == {c \in Folders : FolderExists(c) /\ parent[c] = f}
FilesIn(f) == {x \in Documents : FileExists(x) /\ home[x] = f}

\* No set of folders contains the parent of each of its members.
Acyclic ==
    \A S \in SUBSET Folders :
        (\A f \in S : FolderExists(f) /\ parent[f] \in S) => S = {}

\* x lies in the subtree of f, f included.
InSubtree(x, f) ==
    \A S \in SUBSET Folders :
        (f \in S /\ \A g \in S : ChildFolders(g) \subseteq S) => x \in S

\* The database starts as any tree the operations can build.
TreeInit ==
    /\ folderRow \in [Folders -> {"unused", "live"}]
    /\ fileRow \in [Documents -> {"unused", "live"}]
    /\ parent \in [Folders -> Places] /\ home \in [Documents -> Places]
    /\ title \in [Folders -> Names]
    /\ Acyclic
    /\ \A f \in Folders : IF folderRow[f] = "live" THEN FolderLive(parent[f]) ELSE parent[f] = Root
    /\ \A x \in Documents : IF fileRow[x] = "live" THEN FolderLive(home[x]) ELSE home[x] = Root
    /\ creating = NoRequest
    /\ req = [r \in Requests |-> Idle]
    /\ begun = 0 /\ raced = FALSE /\ byUpload = {}

(***************************************************************************)
(* A request begins with its checks; what it writes later relies on them.  *)
(***************************************************************************)
Begin(r, fields) ==
    /\ req[r].pc = "idle" /\ begun < MaxOps
    /\ req' = [req EXCEPT ![r] = fields]
    /\ begun' = begun + 1
    /\ UNCHANGED <<rows, creating, raced>>

Goto(r, fields) ==
    /\ req' = [req EXCEPT ![r] = fields]
    /\ UNCHANGED <<rows, creating, begun, raced>>

\* A statement that writes rows: every other running request is now acting
\* on what it read before.
AfterWrite(r, fields) ==
    [q \in Requests |-> IF q = r THEN fields ELSE [req[q] EXCEPT !.stale = req[q].pc # "idle"]]
Stains(r) == raced \/ req[r].stale

(***************************************************************************)
(* MoveFolder and MoveFile.                                                *)
(***************************************************************************)
BeginMoveFolder(r, f, p) ==
    /\ p # f
    /\ folderRow[f] = "live" /\ FolderLive(p)
    /\ Begin(r, [Idle EXCEPT !.pc = IF p = Root THEN "move" ELSE "walk",
                             !.id = f, !.to = p, !.at = p])

\* Seeded fault: only the destination itself is compared.
WalkOnce(r) ==
    LET q == req[r]
    IN /\ q.pc = "walk"
       /\ Goto(r, IF q.at = q.id THEN Idle ELSE [q EXCEPT !.pc = "move"])

\* One turn of assertNotDescendant: it reads through trashed folders, and
\* stops without complaint at a row that is not there.
Walk(r) ==
    LET q == req[r]
        onward == IF FolderExists(q.at) THEN parent[q.at] ELSE Root
    IN /\ q.pc = "walk"
       /\ \/ (q.at = q.id \/ q.hops >= HopLimit) /\ Goto(r, Idle)
          \/ /\ q.at # q.id /\ q.hops < HopLimit
             /\ Goto(r, IF onward = Root THEN [q EXCEPT !.pc = "move"]
                        ELSE [q EXCEPT !.at = onward, !.hops = @ + 1])

\* The UPDATE names the id only: it also moves a folder trashed meanwhile.
MoveFolder(r) ==
    LET q == req[r] IN
    /\ q.pc = "move"
    /\ parent' = [f \in Folders |-> IF f = q.id /\ FolderExists(f) THEN q.to ELSE parent[f]]
    /\ byUpload' = byUpload \ {q.id}
    /\ req' = AfterWrite(r, Idle) /\ raced' = Stains(r)
    /\ UNCHANGED <<title, folderRow, home, fileRow, creating, begun>>

BeginMoveFile(r, x, p) ==
    /\ fileRow[x] = "live" /\ FolderLive(p)
    /\ Begin(r, [Idle EXCEPT !.pc = "move_file", !.id = x, !.to = p])

MoveFile(r) ==
    LET q == req[r] IN
    /\ q.pc = "move_file"
    /\ home' = [x \in Documents |-> IF x = q.id /\ FileExists(x) THEN q.to ELSE home[x]]
    /\ req' = AfterWrite(r, Idle) /\ raced' = Stains(r)
    /\ UNCHANGED <<parent, title, folderRow, fileRow, creating, begun, byUpload>>

(***************************************************************************)
(* CreateFolder, and the path of an upload (ensureRelativeFolderPath and   *)
(* getOrCreateFolder).                                                     *)
(***************************************************************************)
BeginCreateFolder(r, p, n) ==
    FolderLive(p) /\ Begin(r, [Idle EXCEPT !.pc = "create", !.at = p, !.names = <<n>>])

\* The INSERT of a new folder row under q.at.
Insert(r, g, fields) ==
    /\ folderRow[g] = "unused"
    /\ folderRow' = [folderRow EXCEPT ![g] = "live"]
    /\ parent' = [parent EXCEPT ![g] = req[r].at]
    /\ title' = [title EXCEPT ![g] = Head(req[r].names)]
    /\ req' = AfterWrite(r, fields) /\ raced' = Stains(r)
    /\ UNCHANGED <<home, fileRow, begun>>

CreateFolder(r, g) ==
    /\ req[r].pc = "create"
    /\ Insert(r, g, Idle)
    /\ UNCHANGED <<creating, byUpload>>

BeginUpload(r, p, path) ==
    FolderLive(p) /\ Begin(r, [Idle EXCEPT !.pc = "path", !.at = p, !.names = path])

Namesakes(p, n) == {g \in Folders : folderRow[g] = "live" /\ parent[g] = p /\ title[g] = n}

\* getOrCreateFolder finds the folder, with folderCreateMu held throughout.
FindFolder(r) ==
    LET q == req[r] IN
    /\ q.pc = "path" /\ q.names # <<>>
    /\ creating = NoRequest
    /\ \E g \in Namesakes(q.at, Head(q.names)) :
           Goto(r, [q EXCEPT !.at = g, !.names = Tail(@)])

\* Seeded fault: the lookup does not take folderCreateMu.
MissFolderUnlocked(r) ==
    LET q == req[r] IN
    /\ q.pc = "path" /\ q.names # <<>>
    /\ Namesakes(q.at, Head(q.names)) = {}
    /\ req' = [req EXCEPT ![r].pc = "insert"]
    /\ UNCHANGED <<rows, creating, begun, raced>>

\* It finds none and keeps the mutex until its INSERT.
MissFolder(r) ==
    LET q == req[r] IN
    /\ q.pc = "path" /\ q.names # <<>>
    /\ creating = NoRequest
    /\ Namesakes(q.at, Head(q.names)) = {}
    /\ creating' = r
    /\ req' = [req EXCEPT ![r].pc = "insert"]
    /\ UNCHANGED <<rows, begun, raced>>

InsertFolder(r, g) ==
    LET q == req[r] IN
    /\ q.pc = "insert"
    /\ Insert(r, g, [q EXCEPT !.pc = "path", !.at = g, !.names = Tail(@)])
    /\ creating' = NoRequest
    /\ byUpload' = byUpload \cup {g}

\* The file row follows, without another look at its folder.
SaveFile(r, x) ==
    LET q == req[r] IN
    /\ q.pc = "path" /\ q.names = <<>>
    /\ fileRow[x] = "unused"
    /\ fileRow' = [fileRow EXCEPT ![x] = "live"]
    /\ home' = [home EXCEPT ![x] = q.at]
    /\ req' = AfterWrite(r, Idle) /\ raced' = Stains(r)
    /\ UNCHANGED <<parent, title, folderRow, creating, begun, byUpload>>

(***************************************************************************)
(* TrashFolder and PermanentDeleteFolder collect the subtree first.        *)
(***************************************************************************)
\* TrashFolder asks for a live folder, PermanentDeleteFolder for any row.
BeginTree(r, f, then) ==
    /\ IF then = "trash" THEN folderRow[f] = "live" ELSE FolderExists(f)
    /\ Begin(r, [Idle EXCEPT !.pc = "collect", !.id = f, !.then = then,
                             !.todo = <<f>>, !.out = <<f>>])

\* Seeded fault: only the folder and its direct children are collected.
CollectChildrenOnly(r) ==
    LET q == req[r]
        out == q.out \o SetToSeq(ChildFolders(q.id))
    IN /\ q.pc = "collect"
       /\ Goto(r, [q EXCEPT !.pc = q.then, !.out = out,
                            !.todo = IF q.then = "list" THEN out ELSE <<>>])

\* One turn of collectFolderTreeIDs: the children of one folder, whatever
\* their state.  A tree that is too large, or goes in circles, is refused.  A
\* query that fails ends the request (Fail).  One that breaks off between two
\* rows gives a short list, which rows.Err() is not asked about: a cancelled
\* request then fails at its next statement, and a database that cannot be
\* read on and lets the deletions through is not in the model.
Collect(r) ==
    LET q == req[r]
        kids == SetToSeq(ChildFolders(Head(q.todo)))
        out == q.out \o kids
        todo == Tail(q.todo) \o kids
        next == IF todo # <<>> THEN [q EXCEPT !.todo = todo, !.out = out]
                ELSE [q EXCEPT !.pc = q.then, !.out = out,
                               !.todo = IF q.then = "list" THEN out ELSE <<>>]
    IN /\ q.pc = "collect"
       /\ Goto(r, IF Len(out) > MaxTree THEN Idle ELSE next)

\* The one transaction of TrashFolder.
TrashFolder(r) ==
    LET q == req[r]
        all == ToSet(q.out)
    IN /\ q.pc = "trash"
       /\ folderRow' = [f \in Folders |->
              IF f \in all /\ FolderExists(f) THEN "trashed" ELSE folderRow[f]]
       /\ fileRow' = [x \in Documents |->
              IF fileRow[x] = "live" /\ home[x] \in all THEN "trashed" ELSE fileRow[x]]
       /\ byUpload' = byUpload \ all
       /\ req' = AfterWrite(r, Idle) /\ raced' = Stains(r)
       /\ UNCHANGED <<parent, title, home, creating, begun>>

\* fileIDsInFolder for each collected folder in turn.
ListFiles(r) ==
    LET q == req[r] IN
    /\ q.pc = "list"
    /\ Goto(r, IF q.todo = <<>> THEN [q EXCEPT !.pc = "files"]
               ELSE [q EXCEPT !.todo = Tail(@), !.files = @ \o SetToSeq(FilesIn(Head(q.todo)))])

\* PermanentDeleteFile of the next file; a row that is gone fails the whole.
DeleteNextFile(r) ==
    LET q == req[r] IN
    /\ q.pc = "files"
    /\ \/ q.files = <<>> /\ Goto(r, [q EXCEPT !.pc = "folders"])
       \/ q.files # <<>> /\ ~FileExists(Head(q.files)) /\ Goto(r, Idle)
       \/ /\ q.files # <<>> /\ FileExists(Head(q.files))
          /\ fileRow' = [fileRow EXCEPT ![Head(q.files)] = "gone"]
          /\ req' = AfterWrite(r, [q EXCEPT !.files = Tail(@)]) /\ raced' = Stains(r)
          /\ UNCHANGED <<parent, title, folderRow, home, creating, begun, byUpload>>

\* Seeded fault: the folders go in the order they were collected.
DeleteFirstFolder(r) ==
    LET q == req[r] IN
    /\ q.pc = "folders"
    /\ folderRow' = [folderRow EXCEPT ![Head(q.out)] = "gone"]
    /\ byUpload' = byUpload \ {Head(q.out)}
    /\ req' = AfterWrite(r, IF Len(q.out) = 1 THEN Idle ELSE [q EXCEPT !.out = Tail(@)])
    /\ raced' = Stains(r)
    /\ UNCHANGED <<parent, title, home, fileRow, creating, begun>>

\* The folders go one by one from the deepest up; a DELETE of a row that is
\* gone is no error.
DeleteLastFolder(r) ==
    LET q == req[r] IN
    /\ q.pc = "folders"
    /\ folderRow' = [folderRow EXCEPT ![Last(q.out)] = "gone"]
    /\ byUpload' = byUpload \ {Last(q.out)}
    /\ req' = AfterWrite(r, IF Len(q.out) = 1 THEN Idle ELSE [q EXCEPT !.out = Front(@)])
    /\ raced' = Stains(r)
    /\ UNCHANGED <<parent, title, home, fileRow, creating, begun>>

(***************************************************************************)
(* Operations of one statement or one transaction: their check and their   *)
(* write concern the same row only.                                        *)
(***************************************************************************)
AtOnce(r) ==
    /\ req[r].pc = "idle" /\ begun < MaxOps
    /\ begun' = begun + 1
    /\ req' = AfterWrite(r, Idle)
    /\ UNCHANGED <<parent, home, creating, raced>>

RenameFolder(r, f, n) ==
    /\ folderRow[f] = "live"
    /\ title' = [title EXCEPT ![f] = n]
    /\ byUpload' = byUpload \ {f}
    /\ AtOnce(r) /\ UNCHANGED <<folderRow, fileRow>>

\* RestoreFolder brings back this one row, whatever became of its parent and
\* without what lies in it.
RestoreFolder(r, f) ==
    /\ folderRow[f] = "trashed"
    /\ folderRow' = [folderRow EXCEPT ![f] = "live"]
    /\ AtOnce(r) /\ UNCHANGED <<title, fileRow, byUpload>>

TrashFile(r, x) ==
    /\ fileRow[x] = "live"
    /\ fileRow' = [fileRow EXCEPT ![x] = "trashed"]
    /\ AtOnce(r) /\ UNCHANGED <<title, folderRow, byUpload>>

RestoreFile(r, x) ==
    /\ fileRow[x] = "trashed"
    /\ fileRow' = [fileRow EXCEPT ![x] = "live"]
    /\ AtOnce(r) /\ UNCHANGED <<title, folderRow, byUpload>>

PermanentDeleteFile(r, x) ==
    /\ FileExists(x)
    /\ fileRow' = [fileRow EXCEPT ![x] = "gone"]
    /\ AtOnce(r) /\ UNCHANGED <<title, folderRow, byUpload>>

\* A statement fails, the client goes away or the agent stops: the mutex is
\* released, and what was written stays written.
Fail(r) ==
    /\ req[r].pc # "idle"
    /\ req' = [req EXCEPT ![r] = Idle]
    /\ creating' = IF creating = r THEN NoRequest ELSE creating
    /\ UNCHANGED <<rows, begun, raced>>

UploadPaths == {<<n>> : n \in Names} \cup {<<n, m>> : n \in Names, m \in Names}

BeginOp(r) ==
    \/ \E f \in Folders, p \in Places : BeginMoveFolder(r, f, p)
    \/ \E x \in Documents, p \in Places : BeginMoveFile(r, x, p)
    \/ \E p \in Places, n \in Names : BeginCreateFolder(r, p, n)
    \/ \E p \in Places, path \in UploadPaths : BeginUpload(r, p, path)
    \/ \E f \in Folders, then \in {"trash", "list"} : BeginTree(r, f, then)

TreeStep(r) ==
    \/ BeginOp(r)
    \/ Walk(r) \/ MoveFolder(r) \/ MoveFile(r)
    \/ \E g \in Folders : CreateFolder(r, g) \/ InsertFolder(r, g)
    \/ FindFolder(r) \/ MissFolder(r)
    \/ \E x \in Documents : SaveFile(r, x)
    \/ Collect(r) \/ TrashFolder(r)
    \/ ListFiles(r) \/ DeleteNextFile(r) \/ DeleteLastFolder(r)
    \/ \E f \in Folders, n \in Names : RenameFolder(r, f, n)
    \/ \E f \in Folders : RestoreFolder(r, f)
    \/ \E x \in Documents : TrashFile(r, x) \/ RestoreFile(r, x) \/ PermanentDeleteFile(r, x)
    \/ Fail(r)

TreeNext == \E r \in Requests : TreeStep(r)

TreeSpec == TreeInit /\ [][TreeNext]_treeVars

(***************************************************************************)
(* Properties.                                                             *)
(***************************************************************************)

\* Folders never form a cycle, as long as no request wrote on the strength of
\* what it had read before another one's write: assertNotDescendant does its
\* work, whatever was trashed, restored or half deleted before, and only two
\* overlapping moves can defeat it.
CyclesNeedARace == raced \/ Acyclic

\* Under the same condition no folder and no file is left in a folder whose
\* row is gone, where no listing would ever show it, also when a permanent
\* deletion stopped half way.
NothingDangles ==
    raced \/ /\ \A f \in Folders : FolderExists(f) =>
                    (parent[f] = Root \/ FolderExists(parent[f]))
             /\ \A x \in Documents : FileExists(x) => (home[x] = Root \/ FolderExists(home[x]))

\* Concurrent uploads into the same new path never make two folders of one
\* name in one place (folderCreateMu), races or not.
UploadsShareFolders ==
    \A f, g \in byUpload : parent[f] = parent[g] /\ title[f] = title[g] => f = g

\* What TrashFolder writes takes the whole subtree: nothing below the folder
\* is left live, unless another request wrote since it began.
TrashTakesTheTree ==
    [][\A r \in Requests :
           /\ req[r].pc = "trash" /\ ~req[r].stale
           /\ req'[r].pc = "idle" /\ folderRow' # folderRow
           =>
           /\ \A f \in Folders : InSubtree(f, req[r].id) => folderRow'[f] # "live"
           /\ \A x \in Documents : home[x] \in Folders /\ InSubtree(home[x], req[r].id)
                                       => fileRow'[x] # "live"]_treeVars

=============================================================================

---------------------------- MODULE MountedDrive ----------------------------
(***************************************************************************)
(* Files that reach the drive through a temporary file: written over FUSE  *)
(* (internal/vfs/platform_fuse.go) or WebDAV (internal/webdavfs/fs.go), or *)
(* sent in chunks with tus (internal/api/tus.go).  The bytes are collected *)
(* and handed to SaveStreamFile when the file is closed or complete, which *)
(* answers content the drive already has with the row that has it.  When it*)
(* fails a FUSE file is kept beside and a tus one where it is, until the   *)
(* janitor finds it old; a WebDAV one is given up, its client told.  It is *)
(* the drive of one user.                                                  *)
(*                                                                         *)
(* FUSE names the temporary file after the leaf of the path only, so two   *)
(* files of one name in different folders write into one temporary file.   *)
(***************************************************************************)
EXTENDS Integers, SequencesExt

CONSTANTS
    Dirs, Leaves,  \* folders of the drive, names of files in them
    Data, Hole,    \* what a block may hold, and what it holds unwritten
    NumHandles,    \* bound of the model: files opened for writing
    NumBlocks,     \* bound of the model: size of a file
    MaxRenames     \* bound of the model: renames and removals

ASSUME MountedAssumption ==
    /\ Dirs # {} /\ Leaves # {} /\ Hole \notin Data
    /\ NumHandles \in Nat /\ NumBlocks \in Nat /\ MaxRenames \in Nat

Handles == 1..NumHandles   \* in the order they are opened
Blocks == 1..NumBlocks
Bytes == [Blocks -> Data \cup {Hole}]
NoBytes == [b \in Blocks |-> Hole]   \* the empty file

VARIABLES
    handle,   \* writeHandle / writeFile / tus upload
    inode,    \* the temporary files, by the handle that created them
    tempName, \* fuse-tmp/<leaf>.tdtmp: the inode it names, or 0
    unsaved,  \* fuse-tmp/<leaf>.tdtmp.unsaved, likewise
    pending,  \* driveFS.pending
    listing,  \* file rows of the drive, the one touched last at the end
    renaming, \* a rename or removal, between its statements
    renames,
    given,    \* history: the bytes each handle was given to write
    clash     \* history: handles that shared a temporary or a kept file

mountedVars == <<handle, inode, tempName, unsaved, pending, listing, renaming, renames,
                 given, clash>>
tempVars == <<inode, tempName, unsaved, pending>>
treeSide == <<listing, renaming, renames>>

Spots == [dir : Dirs, leaf : Leaves]
NoHandle == [pc |-> "none", kind |-> "fuse", at |-> CHOOSE p \in Spots : TRUE, file |-> 0,
             offset |-> 0, copied |-> NoBytes]
NoRename == [pc |-> "none", row |-> 0, to |-> CHOOSE p \in Spots : TRUE]

MountedTypeOK ==
    /\ handle \in [Handles -> [pc : {"none", "open", "saving", "storing", "saved", "failed",
                                     "stranded", "lost"},
                               kind : {"fuse", "dav", "tus"}, at : Spots, file : 0..NumHandles,
                               offset : 0..NumBlocks, copied : Bytes]]
    /\ inode \in [Handles -> Bytes]
    /\ tempName \in [Leaves -> 0..NumHandles] /\ unsaved \in [Leaves -> 0..NumHandles]
    /\ pending \in [Spots -> 0..NumHandles]
    /\ listing \in Seq([by : Handles, at : Spots, bytes : Bytes, live : BOOLEAN])
    /\ renaming \in [pc : {"none", "trash", "rename", "move"}, row : 0..NumHandles, to : Spots]
    /\ renames \in 0..MaxRenames
    /\ given \in [Handles -> Bytes] /\ clash \in SUBSET Handles

MountedInit ==
    /\ handle = [h \in Handles |-> NoHandle] /\ inode = [h \in Handles |-> NoBytes]
    /\ tempName = [n \in Leaves |-> 0] /\ unsaved = [n \in Leaves |-> 0]
    /\ pending = [p \in Spots |-> 0]
    /\ listing = <<>> /\ renaming = NoRename /\ renames = 0
    /\ given = [h \in Handles |-> NoBytes] /\ clash = {}

IsNext(h) == handle[h].pc = "none" /\ \A k \in 1..(h - 1) : handle[k].pc # "none"
\* Other handles that have the inode of this name open.
Sharing(leaf) ==
    {k \in Handles : handle[k].pc \in {"open", "saving", "storing"} /\ handle[k].kind = "fuse"
                     /\ handle[k].at.leaf = leaf}
\* Handles whose bytes were left under this name.
Stranded(leaf) ==
    {k \in Handles : handle[k].pc = "stranded" /\ handle[k].kind = "fuse"
                     /\ handle[k].at.leaf = leaf}

(***************************************************************************)
(* Writing.                                                                *)
(***************************************************************************)
\* Create: O_CREATE|O_TRUNC of <leaf>.tdtmp, so an inode of that name, open
\* or left behind by a crash, is emptied and used again.
Create(h, p) ==
    LET old == tempName[p.leaf]
        mine == IF old = 0 THEN h ELSE old
    IN /\ IsNext(h)
       /\ handle' = [handle EXCEPT ![h] = [NoHandle EXCEPT !.pc = "open", !.at = p, !.file = mine]]
       /\ inode' = [inode EXCEPT ![mine] = NoBytes]
       /\ tempName' = [tempName EXCEPT ![p.leaf] = mine]
       /\ pending' = [pending EXCEPT ![p] = h]
       /\ clash' = clash \cup Stranded(p.leaf)
                    \cup (IF Sharing(p.leaf) = {} THEN {} ELSE Sharing(p.leaf) \cup {h})
       /\ UNCHANGED <<unsaved, treeSide, given>>

OpenOwn(h, p, kind) ==
    /\ IsNext(h)
    /\ handle' = [handle EXCEPT ![h] =
                     [NoHandle EXCEPT !.pc = "open", !.kind = kind, !.at = p, !.file = h]]
    /\ UNCHANGED <<tempVars, treeSide, given, clash>>

\* OpenFile for writing over WebDAV: os.CreateTemp names a file of its own.
OpenFile(h, p) == OpenOwn(h, p, "dav")

\* A tus upload is a file of the store, named by an id drawn for it.
CreateUpload(h, p) == OpenOwn(h, p, "tus")

PutBytes(h, b, x) ==
    /\ inode' = [inode EXCEPT ![handle[h].file][b] = x]
    /\ given' = [given EXCEPT ![h][b] = x]
    /\ UNCHANGED <<tempName, unsaved, pending, treeSide, clash>>

\* FUSE writes anywhere (WriteAt), WebDAV and tus where they stand.
WriteAt(h, b, x) ==
    /\ handle[h].pc = "open" /\ handle[h].kind = "fuse"
    /\ PutBytes(h, b, x) /\ UNCHANGED handle

Write(h, x) ==
    /\ handle[h].pc = "open" /\ handle[h].kind # "fuse" /\ handle[h].offset < NumBlocks
    /\ PutBytes(h, handle[h].offset + 1, x)
    /\ handle' = [handle EXCEPT ![h].offset = @ + 1]

Truncate(h, n) ==
    /\ handle[h].pc = "open" /\ handle[h].kind = "fuse"
    /\ inode' = [inode EXCEPT ![handle[h].file] = [b \in Blocks |-> IF b > n THEN Hole ELSE @[b]]]
    /\ given' = [given EXCEPT ![h] = [b \in Blocks |-> IF b > n THEN Hole ELSE @[b]]]
    /\ UNCHANGED <<handle, tempName, unsaved, pending, treeSide, clash>>

(***************************************************************************)
(* Release (FUSE), Close (WebDAV) and importTusUpload after the last chunk *)
(* (tus): SaveStreamFile reads the temporary file to its end and adds a    *)
(* row, unless a row has this content; no row of that name is replaced.    *)
(***************************************************************************)
\* Seeded fault: the file is read on from where the writes ended.
CloseWithoutSeek(h) ==
    /\ handle[h].pc = "open"
    /\ handle' = [handle EXCEPT ![h].pc = "saving"]
    /\ pending' = IF handle[h].kind = "fuse" THEN [pending EXCEPT ![handle[h].at] = 0] ELSE pending
    /\ UNCHANGED <<inode, tempName, unsaved, treeSide, given, clash>>

\* Release forgets what is pending under the path, also another handle's.  A
\* PUT that breaks off is closed, and so saved, as well.
Close(h) ==
    /\ handle[h].pc = "open"
    /\ handle' = [handle EXCEPT ![h].pc = "saving", ![h].offset = 0]
    /\ pending' = IF handle[h].kind = "fuse" THEN [pending EXCEPT ![handle[h].at] = 0] ELSE pending
    /\ UNCHANGED <<inode, tempName, unsaved, treeSide, given, clash>>

\* The file cannot be rewound or opened: FUSE leaves it under its temporary
\* name, WebDAV removes it, tus leaves it to the janitor.
CloseFails(h) ==
    /\ handle[h].pc = "open"
    /\ handle' = [handle EXCEPT ![h].pc = IF handle[h].kind = "fuse" THEN "stranded" ELSE "failed"]
    /\ pending' = IF handle[h].kind = "fuse" THEN [pending EXCEPT ![handle[h].at] = 0] ELSE pending
    /\ UNCHANGED <<inode, tempName, unsaved, treeSide, given, clash>>

\* Seeded fault: the position moves on by a block too many.
CopyBlockSkips(h) ==
    LET b == handle[h].offset + 1 IN
    /\ handle[h].pc = "saving" /\ b \in Blocks
    /\ handle' = [handle EXCEPT ![h].offset = b + 1,
                                ![h].copied = [@ EXCEPT ![b] = inode[handle[h].file][b]]]
    /\ UNCHANGED <<tempVars, treeSide, given, clash>>

CopyBlock(h) ==
    LET b == handle[h].offset + 1 IN
    /\ handle[h].pc = "saving" /\ b \in Blocks
    /\ handle' = [handle EXCEPT ![h].offset = b,
                                ![h].copied = [@ EXCEPT ![b] = inode[handle[h].file][b]]]
    /\ UNCHANGED <<tempVars, treeSide, given, clash>>

Kept(leaf) ==
    {k \in Handles : handle[k].pc = "failed" /\ handle[k].kind = "fuse" /\ handle[k].at.leaf = leaf}
Removed(h) == IF handle[h].kind = "fuse" THEN [tempName EXCEPT ![handle[h].at.leaf] = 0] ELSE tempName
NewRow(h) == [by |-> h, at |-> handle[h].at, bytes |-> handle[h].copied, live |-> TRUE]

\* findFileByHash: a row that is not in the trash and not empty.
Known(bytes) ==
    bytes # NoBytes /\ \E i \in DOMAIN listing : listing[i].live /\ listing[i].bytes = bytes

\* Content that is known is answered with the row that has it, wherever that
\* is; the bytes just read are removed.
SaveKnown(h) ==
    /\ handle[h].pc = "saving" /\ handle[h].offset = NumBlocks /\ Known(handle[h].copied)
    /\ handle' = [handle EXCEPT ![h].pc = "saved", ![h].copied = NoBytes]
    /\ tempName' = Removed(h)
    /\ UNCHANGED <<inode, unsaved, pending, treeSide, given, clash>>

SaveUnknown(h) ==
    /\ handle[h].pc = "saving" /\ handle[h].offset = NumBlocks /\ ~Known(handle[h].copied)
    /\ handle' = [handle EXCEPT ![h].pc = "storing"]
    /\ UNCHANGED <<tempVars, treeSide, given, clash>>

\* The transaction that adds the row.
SaveStreamFile(h) ==
    /\ handle[h].pc = "storing"
    /\ listing' = Append(listing, NewRow(h))
    /\ handle' = [handle EXCEPT ![h].pc = "saved", ![h].copied = NoBytes]
    /\ tempName' = Removed(h)
    /\ UNCHANGED <<inode, unsaved, pending, renaming, renames, given, clash>>

\* The save fails (over a remote backend, which only FUSE has, the row may
\* have been made all the same): FUSE renames the temporary file to
\* <leaf>.tdtmp.unsaved over the one kept before, if its name still exists;
\* WebDAV removes its own; tus leaves it to the janitor.
SaveFails(h) ==
    LET leaf == handle[h].at.leaf
        keeps == handle[h].kind = "fuse" /\ tempName[leaf] # 0
    IN /\ handle[h].pc \in {"saving", "storing"}
       /\ handle' = [handle EXCEPT ![h].pc = "failed", ![h].copied = NoBytes]
       /\ unsaved' = IF keeps THEN [unsaved EXCEPT ![leaf] = tempName[leaf]] ELSE unsaved
       /\ tempName' = Removed(h)
       /\ clash' = IF keeps THEN clash \cup Kept(leaf) ELSE clash
       /\ listing' \in {listing} \cup
              (IF handle[h].kind = "fuse" /\ handle[h].pc = "storing"
               THEN {Append(listing, NewRow(h))} ELSE {})
       /\ UNCHANGED <<inode, pending, renaming, renames, given>>

(***************************************************************************)
(* Removing and renaming: the path is resolved first, to the row touched   *)
(* last; RenameFile and MoveFile are two statements.                       *)
(***************************************************************************)
Resolved(p) ==
    LET hits == {i \in DOMAIN listing : listing[i].live /\ listing[i].at = p}
    IN IF hits = {} THEN 0 ELSE listing[CHOOSE i \in hits : \A j \in hits : j <= i].by

Touch(row, fields) ==
    LET i == CHOOSE j \in DOMAIN listing : listing[j].by = row
    IN Append(RemoveAt(listing, i), fields[i])

Resolve(pc, p, q) ==
    /\ renaming.pc = "none" /\ renames < MaxRenames /\ Resolved(p) # 0
    /\ renaming' = [pc |-> pc, row |-> Resolved(p), to |-> q]
    /\ renames' = renames + 1
    /\ UNCHANGED <<handle, tempVars, listing, given, clash>>

BeginUnlink(p) == Resolve("trash", p, p)
BeginRename(p, q) ==
    p # q /\ Resolve(IF p.leaf # q.leaf THEN "rename" ELSE "move", p, q)

RowStep(fields, pc) ==
    /\ listing' = Touch(renaming.row, [i \in DOMAIN listing |-> fields[i]])
    /\ renaming' = IF pc = "none" THEN NoRename ELSE [renaming EXCEPT !.pc = pc]
    /\ UNCHANGED <<handle, tempVars, renames, given, clash>>

Unlink ==
    /\ renaming.pc = "trash"
    /\ RowStep([i \in DOMAIN listing |-> [listing[i] EXCEPT !.live = FALSE]], "none")

RenameLeaf ==
    LET onward == \E i \in DOMAIN listing :
                      listing[i].by = renaming.row /\ listing[i].at.dir # renaming.to.dir
    IN /\ renaming.pc = "rename"
       /\ RowStep([i \in DOMAIN listing |-> [listing[i] EXCEPT !.at.leaf = renaming.to.leaf]],
                  IF onward THEN "move" ELSE "none")

MoveToDir ==
    /\ renaming.pc = "move"
    /\ RowStep([i \in DOMAIN listing |-> [listing[i] EXCEPT !.at.dir = renaming.to.dir]], "none")

\* A statement fails: what was done before it stays.
RenameFails ==
    /\ renaming.pc # "none"
    /\ renaming' = NoRename
    /\ UNCHANGED <<handle, tempVars, listing, renames, given, clash>>

\* runTusJanitor: the file was not touched for longer than tusTempTTL.
Sweep(h) ==
    /\ handle[h].kind = "tus" /\ handle[h].pc \in {"open", "failed"}
    /\ handle' = [handle EXCEPT ![h].pc = "lost"]
    /\ inode' = [inode EXCEPT ![handle[h].file] = NoBytes]
    /\ UNCHANGED <<tempName, unsaved, pending, treeSide, given, clash>>

\* The agent stops: a FUSE file that was open or being saved stays under its
\* temporary name, a WebDAV one is gone.  A tus upload goes on where it was;
\* one that was being imported is complete and never imported again.
AfterCrash(x) ==
    IF x.pc \notin {"open", "saving", "storing"} \/ (x.pc = "open" /\ x.kind = "tus")
    THEN x
    ELSE [x EXCEPT !.copied = NoBytes,
                   !.pc = CASE x.kind = "fuse" -> "stranded"
                            [] x.kind = "tus" -> "failed"
                            [] x.kind = "dav" -> "lost"]

Crash ==
    /\ \E h \in Handles : handle[h].pc \in {"open", "saving", "storing"}
    /\ handle' = [h \in Handles |-> AfterCrash(handle[h])]
    /\ pending' = [p \in Spots |-> 0]
    /\ renaming' = NoRename
    /\ UNCHANGED <<inode, tempName, unsaved, listing, renames, given, clash>>

HandleStep(h) ==
    \/ \E p \in Spots : Create(h, p) \/ OpenFile(h, p) \/ CreateUpload(h, p)
    \/ \E x \in Data : Write(h, x) \/ \E b \in Blocks : WriteAt(h, b, x)
    \/ \E n \in 0..(NumBlocks - 1) : Truncate(h, n)
    \/ Close(h) \/ CloseFails(h) \/ CopyBlock(h)
    \/ SaveKnown(h) \/ SaveUnknown(h) \/ SaveStreamFile(h) \/ SaveFails(h) \/ Sweep(h)

MountedNext ==
    \/ \E h \in Handles : HandleStep(h)
    \/ \E p \in Spots : BeginUnlink(p)
    \/ \E p, q \in Spots : BeginRename(p, q)
    \/ Unlink \/ RenameLeaf \/ MoveToDir \/ RenameFails \/ Crash

MountedSpec == MountedInit /\ [][MountedNext]_mountedVars

(***************************************************************************)
(* Properties.                                                             *)
(***************************************************************************)

\* What a program wrote and closed, or a browser sent to the last chunk, is
\* held by a row of the drive exactly as it was written (the row may be that
\* of another file of the same content, and goes to the trash with it).  When
\* the save fails the bytes are the kept file (FUSE) or the upload (tus, until
\* the janitor comes); when the agent stops over them, or cannot rewind them,
\* they are the temporary file (FUSE, until the next file of its name).  All
\* this unless the file met another one of its name in the temporary folder
\* of FUSE.  Removals and renames meanwhile take nothing of it.
SavedOrKept ==
    \A h \in Handles \ clash :
        /\ handle[h].pc = "saved" => \E i \in DOMAIN listing : listing[i].bytes = given[h]
        /\ handle[h].pc = "failed" /\ handle[h].kind = "fuse" =>
               /\ unsaved[handle[h].at.leaf] = handle[h].file
               /\ inode[handle[h].file] = given[h]
        /\ handle[h].pc = "failed" /\ handle[h].kind = "tus" => inode[handle[h].file] = given[h]
        /\ handle[h].pc = "stranded" =>
               /\ tempName[handle[h].at.leaf] = handle[h].file
               /\ inode[handle[h].file] = given[h]

=============================================================================

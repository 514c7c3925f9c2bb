-------------------------- MODULE DriveTreeProofs --------------------------
(***************************************************************************)
(* What DriveTree guarantees for any folders, files and requests.  The     *)
(* argument: a request that has seen no other one's write may rely on what *)
(* it has read.  While it walks up from the destination of a move, the     *)
(* ancestors it has passed are a set that the parents of its members stay  *)
(* in, and that the moved folder is not in; no cycle through the new       *)
(* parent can leave that set.  What it has collected for a trash or a      *)
(* deletion is in an order in which no folder goes before what lies in it, *)
(* so a deletion that stops half way leaves nothing behind out of reach.   *)
(***************************************************************************)
EXTENDS DriveTree, FiniteSetTheorems, SequenceTheorems, TLAPS

\* A place whose id has been drawn; it never becomes unused again.
Drawn(p) == p = Root \/ folderRow[p] # "unused"

\* Where the walk up from the destination may leave the set it has passed.
Ends(q) == IF q.pc = "walk" THEN {q.at, Root} ELSE {Root}

\* The ancestors of the destination that are known do not hold the folder.
Clear(q) ==
    \E A \in SUBSET Folders :
        /\ q.id \notin A
        /\ q.to \in A \cup Ends(q)
        /\ \A a \in A : FolderExists(a) => parent[a] \in A \cup Ends(q)

\* What holds of the request q of slot r while c holds folderCreateMu.
Slot(r, q, c) ==
    /\ q.pc = "collect" => q.todo # <<>>
    /\ q.pc \in {"create", "insert"} => q.names # <<>>
    /\ q.pc \in {"create", "path", "insert"} => Drawn(q.at)
    /\ q.pc \in {"walk", "move"} => Drawn(q.to) /\ (q.stale \/ Clear(q))
    /\ q.pc = "walk" => q.at \in Folders
    /\ q.pc = "insert" =>
           c = r /\ \A g \in byUpload : ~(parent[g] = q.at /\ title[g] = Head(q.names))

Slots == \A r \in Requests : Slot(r, req[r], creating)
ParentsDrawn == \A f \in Folders : FolderExists(f) => Drawn(parent[f])
UploadsLive == \A g \in byUpload : folderRow[g] = "live"

TreeInv ==
    /\ TreeTypeOK /\ Slots /\ ParentsDrawn /\ UploadsLive
    /\ CyclesNeedARace /\ UploadsShareFolders

(* A finite set in some order is a sequence of all its elements.            *)
LEMMA SetToSeqAll ==
    ASSUME NEW T, IsFiniteSet(T), NEW S \in SUBSET T
    PROVE  /\ SetToSeq(S) \in Seq(T)
           /\ \A x \in S : \E k \in 1..Len(SetToSeq(S)) : SetToSeq(S)[k] = x
<1>1. IsFiniteSet(S) BY FS_Subset
<1>2. Cardinality(S) \in Nat /\ ExistsBijection(1..Cardinality(S), S)
  BY <1>1, FS_CardinalityType
<1>3. \E f \in [1..Cardinality(S) -> S] : IsInjective(f)
  BY <1>2 DEF ExistsBijection, Bijection, Injection
<1>4. SetToSeq(S) \in [1..Cardinality(S) -> S] /\ IsInjective(SetToSeq(S))
  BY <1>3 DEF SetToSeq
<1> HIDE DEF SetToSeq
<1>5. SetToSeq(S) \in Injection(1..Cardinality(S), S)
  BY <1>4 DEF Injection, IsInjective
<1>6. Cardinality(1..Cardinality(S)) = Cardinality(S)
  BY <1>2, FS_Interval
<1>7. SetToSeq(S) \in Surjection(1..Cardinality(S), S)
  BY <1>1, <1>5, <1>6, FS_Injection
<1>8. SetToSeq(S) \in Seq(T)
  <2>1. SetToSeq(S) \in [1..Cardinality(S) -> T] BY <1>4
  <2> QED BY <1>2, <2>1, IsASeq
<1>9. Len(SetToSeq(S)) = Cardinality(S)
  BY <1>2, <1>4, <1>8
<1> QED BY <1>7, <1>8, <1>9 DEF Surjection

LEMMA ShortSeqs ==
    ASSUME NEW S
    PROVE /\ \A x \in S : <<x>> \in Seq(S) /\ <<x>> # <<>>
          /\ \A x, y \in S : <<x, y>> \in Seq(S)
<1>1. ASSUME NEW x \in S PROVE <<x>> \in Seq(S) /\ <<x>> # <<>> OBVIOUS
<1>2. ASSUME NEW x \in S, NEW y \in S PROVE <<x, y>> \in Seq(S) OBVIOUS
<1> QED BY <1>1, <1>2

LEMMA IdleType == Idle \in Request /\ Idle.pc = "idle"
  BY EmptySeq DEF Idle, Request, ReqPCs, Places

(* The rows are those of a tree at first.                                   *)
LEMMA InitTree == ASSUME TreeInit PROVE TreeInv
<1> USE TreeAssumption DEF TreeInit
<1>1. TreeTypeOK
  <2>1. folderRow \in [Folders -> Rows] BY DEF Rows
  <2>2. fileRow \in [Documents -> Rows] BY DEF Rows
  <2>3. req \in [Requests -> Request] BY IdleType
  <2>4. /\ creating \in Requests \cup {NoRequest} /\ begun \in 0..MaxOps
        /\ byUpload \in SUBSET Folders
    OBVIOUS
  <2>6. raced \in BOOLEAN BY Zenon
  <2>5. parent \in [Folders -> Places] /\ home \in [Documents -> Places] /\ title \in [Folders -> Names]
    OBVIOUS
  <2> HIDE DEF TreeInit
  <2> QED BY <2>1, <2>2, <2>3, <2>4, <2>5, <2>6 DEF TreeTypeOK
<1>2. Slots BY IdleType DEF Slots, Slot
<1>3. ParentsDrawn BY DEF ParentsDrawn, Drawn, FolderExists, FolderLive
<1>4. UploadsLive /\ CyclesNeedARace /\ UploadsShareFolders
  BY DEF UploadsLive, CyclesNeedARace, UploadsShareFolders
<1> QED BY <1>1, <1>2, <1>3, <1>4 DEF TreeInv

(***************************************************************************)
(* Steps that read.                                                        *)
(***************************************************************************)

(* The rows stand; one slot goes on.                                        *)
LEMMA RowsStand ==
    ASSUME TreeInv, NEW r \in Requests, NEW q \in Request, NEW c \in Requests \cup {NoRequest},
           req' = [req EXCEPT ![r] = q], creating' = c, begun' \in 0..MaxOps,
           UNCHANGED <<rows, raced>>,
           Slot(r, q, c), \A s \in Requests \ {r} : creating = s => c = s
    PROVE TreeInv'
<1>1. TreeTypeOK' BY DEF TreeInv, TreeTypeOK, rows
<1>2. Slots'
  <2>1. ASSUME NEW s \in Requests PROVE Slot(s, req'[s], creating')
    BY DEF TreeInv, Slots, Slot, TreeTypeOK
  <2>2. \A f \in Folders : FolderExists(f)' <=> FolderExists(f) BY DEF FolderExists, rows
  <2>3. ASSUME NEW s \in Requests PROVE Slot(s, req[s], creating)'
    BY <2>1, <2>2 DEF Slot, Drawn, Clear, Ends, rows
  <2> QED BY <2>3 DEF Slots
<1>3. ParentsDrawn' /\ UploadsLive' /\ CyclesNeedARace' /\ UploadsShareFolders'
  BY DEF TreeInv, ParentsDrawn, UploadsLive, CyclesNeedARace, UploadsShareFolders, Acyclic,
         Drawn, FolderExists, rows
<1> QED BY <1>1, <1>2, <1>3 DEF TreeInv

(* An operation begins with what it has just checked.                       *)
LEMMA BeginKeeps ==
    ASSUME TreeInv, NEW r \in Requests, NEW q \in Request, Begin(r, q), Slot(r, q, creating),
           q.pc # "insert"
    PROVE TreeInv'
<1>1. begun' \in 0..MaxOps BY TreeAssumption DEF Begin, TreeInv, TreeTypeOK
<1>2. creating \in Requests \cup {NoRequest} BY DEF TreeInv, TreeTypeOK
<1> QED BY <1>1, <1>2, RowsStand DEF Begin

LEMMA OpsKeep == ASSUME TreeInv, NEW r \in Requests, BeginOp(r) PROVE TreeInv'
<1> USE TreeAssumption
<1>1. ASSUME NEW f \in Folders, NEW p \in Places, BeginMoveFolder(r, f, p) PROVE TreeInv'
  <2> DEFINE q == [Idle EXCEPT !.pc = IF p = Root THEN "move" ELSE "walk",
                               !.id = f, !.to = p, !.at = p]
  <2>1. q \in Request BY IdleType DEF Request, ReqPCs, Places
  <2>2. /\ q.pc = IF p = Root THEN "move" ELSE "walk"
        /\ q.id = f /\ q.to = p /\ q.at = p
    BY DEF Idle
  <2>3. Begin(r, q) /\ p # f /\ FolderLive(p) BY <1>1 DEF BeginMoveFolder
  <2> HIDE DEF q
  <2>4. p # Root => p \in Folders BY DEF Places
  <2>5. Clear(q)
    <3>1. {} \in SUBSET Folders OBVIOUS
    <3>2. q.to \in {} \cup Ends(q) BY <2>2 DEF Ends
    <3> QED BY <3>1, <3>2 DEF Clear
  <2>6. Drawn(q.to) BY <2>2, <2>3 DEF Drawn, FolderLive
  <2>7. Slot(r, q, creating) BY <2>2, <2>4, <2>5, <2>6 DEF Slot
  <2> QED BY <2>1, <2>2, <2>3, <2>7, BeginKeeps
<1>2. ASSUME NEW x \in Documents, NEW p \in Places, BeginMoveFile(r, x, p) PROVE TreeInv'
  <2> DEFINE q == [Idle EXCEPT !.pc = "move_file", !.id = x, !.to = p]
  <2>1. q \in Request /\ q.pc = "move_file" BY IdleType DEF Request, ReqPCs, Places
  <2>2. Begin(r, q) BY <1>2 DEF BeginMoveFile
  <2> HIDE DEF q
  <2> QED BY <2>1, <2>2, BeginKeeps DEF Slot
<1>3. ASSUME NEW p \in Places, NEW n \in Names, BeginCreateFolder(r, p, n) PROVE TreeInv'
  <2> DEFINE q == [Idle EXCEPT !.pc = "create", !.at = p, !.names = <<n>>]
  <2>0. <<n>> \in Seq(Names) /\ <<n>> # <<>> BY ShortSeqs
  <2>1. q \in Request /\ q.pc = "create" /\ q.at = p /\ q.names # <<>>
    BY <2>0, IdleType DEF Request, ReqPCs, Places
  <2>2. Begin(r, q) /\ FolderLive(p) BY <1>3 DEF BeginCreateFolder
  <2> HIDE DEF q
  <2> QED BY <2>1, <2>2, BeginKeeps DEF Slot, Drawn, FolderLive
<1>4. ASSUME NEW p \in Places, NEW path \in UploadPaths, BeginUpload(r, p, path) PROVE TreeInv'
  <2> DEFINE q == [Idle EXCEPT !.pc = "path", !.at = p, !.names = path]
  <2>1. path \in Seq(Names)
    <3>1. CASE \E n \in Names : path = <<n>> BY <3>1, ShortSeqs
    <3>2. CASE \E n, m \in Names : path = <<n, m>> BY <3>2, ShortSeqs
    <3> QED BY <3>1, <3>2 DEF UploadPaths
  <2>2. q \in Request /\ q.pc = "path" /\ q.at = p
    BY <2>1, IdleType DEF Request, ReqPCs, Places
  <2>3. Begin(r, q) /\ FolderLive(p) BY <1>4 DEF BeginUpload
  <2> HIDE DEF q
  <2> QED BY <2>2, <2>3, BeginKeeps DEF Slot, Drawn, FolderLive
<1>5. ASSUME NEW f \in Folders, NEW then \in {"trash", "list"}, BeginTree(r, f, then) PROVE TreeInv'
  <2> DEFINE q == [Idle EXCEPT !.pc = "collect", !.id = f, !.then = then,
                               !.todo = <<f>>, !.out = <<f>>]
  <2>0. <<f>> \in Seq(Folders) /\ <<f>> # <<>> BY ShortSeqs
  <2>1. q \in Request /\ q.pc = "collect" /\ q.todo # <<>>
    BY <2>0, IdleType DEF Request, ReqPCs, Places
  <2>2. Begin(r, q) BY <1>5 DEF BeginTree
  <2> HIDE DEF q
  <2> QED BY <2>1, <2>2, BeginKeeps DEF Slot
<1> QED BY <1>1, <1>2, <1>3, <1>4, <1>5 DEF BeginOp

(* A request goes on from what it has read, or gives up.                    *)
LEMMA GotoKeeps ==
    ASSUME TreeInv, NEW r \in Requests, NEW q \in Request, Goto(r, q), Slot(r, q, creating)
    PROVE TreeInv'
<1>1. creating \in Requests \cup {NoRequest} /\ begun \in 0..MaxOps BY DEF TreeInv, TreeTypeOK
<1> QED BY <1>1, RowsStand DEF Goto

LEMMA WalkKeeps == ASSUME TreeInv, NEW r \in Requests, Walk(r) PROVE TreeInv'
<1> DEFINE q == req[r]
           onward == IF FolderExists(q.at) THEN parent[q.at] ELSE Root
           stop == [q EXCEPT !.pc = "move"]
           on == [q EXCEPT !.at = onward, !.hops = q.hops + 1]
<1>1. q \in Request /\ q.pc = "walk" /\ Slot(r, q, creating) BY DEF Walk, TreeInv, Slots, TreeTypeOK
<1>2. \/ Goto(r, Idle)
      \/ q.at # q.id /\ onward = Root /\ Goto(r, stop)
      \/ q.at # q.id /\ onward # Root /\ Goto(r, on)
  BY DEF Walk
<1>3. q.at \in Folders /\ Drawn(q.to) BY <1>1 DEF Slot
<1>4. onward \in Places BY <1>3 DEF TreeInv, TreeTypeOK, Places
<1>5. stop \in Request /\ stop.pc = "move" /\ stop.id = q.id /\ stop.to = q.to /\ stop.stale = q.stale
  BY <1>1 DEF Request, ReqPCs
<1>6. on \in Request /\ on.pc = "walk" /\ on.id = q.id /\ on.to = q.to /\ on.stale = q.stale
      /\ on.at = onward
  <2>1. q.hops + 1 \in Nat BY <1>1 DEF Request
  <2> HIDE DEF onward
  <2> QED BY <1>1, <1>4, <2>1 DEF Request
<1>7. FolderExists(q.at) => parent[q.at] = onward OBVIOUS
<1>8. ASSUME NEW next \in Request, next.id = q.id, next.to = q.to, ~q.stale, q.at # q.id,
             onward \in Ends(next), Root \in Ends(next)
      PROVE Clear(next)
  <2>1. Clear(q) BY <1>1, <1>8 DEF Slot
  <2>2. PICK A \in SUBSET Folders :
            /\ q.id \notin A
            /\ q.to \in A \cup Ends(q)
            /\ \A a \in A : FolderExists(a) => parent[a] \in A \cup Ends(q)
    BY <2>1 DEF Clear
  <2>3. Ends(q) = {q.at, Root} BY <1>1 DEF Ends
  <2> DEFINE B == A \cup {q.at}
  <2>4. B \in SUBSET Folders /\ next.id \notin B BY <1>3, <1>8, <2>2
  <2>5. next.to \in B \cup Ends(next) BY <1>8, <2>2, <2>3
  <2>6. \A a \in B : FolderExists(a) => parent[a] \in B \cup Ends(next)
    BY <1>7, <1>8, <2>2, <2>3
  <2> QED BY <2>4, <2>5, <2>6 DEF Clear
<1> HIDE DEF q, onward, stop, on
<1>9. CASE Goto(r, Idle) BY <1>9, IdleType, GotoKeeps DEF Slot
<1>10. CASE q.at # q.id /\ onward = Root /\ Goto(r, stop)
  <2>1. Root \in Ends(stop) /\ onward \in Ends(stop) BY <1>5, <1>10 DEF Ends
  <2>2. q.stale \/ Clear(stop) BY <1>5, <1>8, <1>10, <2>1
  <2>3. Slot(r, stop, creating) BY <1>3, <1>5, <2>2 DEF Slot
  <2> QED BY <1>5, <1>10, <2>3, GotoKeeps
<1>11. CASE q.at # q.id /\ onward # Root /\ Goto(r, on)
  <2>1. Root \in Ends(on) /\ onward \in Ends(on) BY <1>6 DEF Ends
  <2>2. q.stale \/ Clear(on) BY <1>6, <1>8, <1>11, <2>1
  <2>3. on.at \in Folders BY <1>4, <1>6, <1>11 DEF Places
  <2>4. Slot(r, on, creating) BY <1>3, <1>6, <2>2, <2>3 DEF Slot
  <2> QED BY <1>6, <1>11, <2>4, GotoKeeps
<1> QED BY <1>2, <1>9, <1>10, <1>11

LEMMA FindKeeps == ASSUME TreeInv, NEW r \in Requests, FindFolder(r) PROVE TreeInv'
<1> DEFINE q == req[r]
<1>1. q \in Request /\ q.pc = "path" /\ q.names # <<>>
  BY DEF FindFolder, TreeInv, TreeTypeOK
<1>2. PICK g \in Namesakes(q.at, Head(q.names)) : Goto(r, [q EXCEPT !.at = g, !.names = Tail(q.names)])
  BY DEF FindFolder
<1>3. g \in Folders /\ folderRow[g] = "live" BY DEF Namesakes
<1>4. q.names \in Seq(Names) BY <1>1 DEF Request
<1>5. Tail(q.names) \in Seq(Names) BY <1>1, <1>4, HeadTailProperties
<1> DEFINE next == [q EXCEPT !.at = g, !.names = Tail(q.names)]
<1>6. next \in Request /\ next.pc = "path" /\ next.at = g
  BY <1>1, <1>3, <1>5 DEF Request, Places
<1> HIDE DEF next
<1>7. Slot(r, next, creating) BY <1>3, <1>6 DEF Slot, Drawn
<1> QED BY <1>2, <1>6, <1>7, GotoKeeps DEF next

LEMMA MissKeeps == ASSUME TreeInv, NEW r \in Requests, MissFolder(r) PROVE TreeInv'
<1> DEFINE q == req[r]
           next == [q EXCEPT !.pc = "insert"]
<1>1. q \in Request /\ q.pc = "path" /\ q.names # <<>> /\ Slot(r, q, creating)
  BY DEF MissFolder, TreeInv, TreeTypeOK, Slots
<1>2. /\ creating = NoRequest /\ Namesakes(q.at, Head(q.names)) = {} /\ creating' = r
      /\ req' = [req EXCEPT ![r] = next] /\ UNCHANGED <<rows, begun, raced>>
  BY DEF MissFolder
<1>3. next \in Request /\ next.pc = "insert" /\ next.at = q.at /\ next.names = q.names
  BY <1>1 DEF Request, ReqPCs
<1>4. Drawn(q.at) BY <1>1 DEF Slot
<1>5. \A g \in byUpload : ~(parent[g] = q.at /\ title[g] = Head(q.names))
  BY <1>2 DEF Namesakes, TreeInv, UploadsLive, TreeTypeOK
<1> HIDE DEF q, next
<1>6. Slot(r, next, r) BY <1>1, <1>3, <1>4, <1>5 DEF Slot
<1>7. begun' \in 0..MaxOps BY <1>2 DEF TreeInv, TreeTypeOK
<1>8. \A s \in Requests \ {r} : creating = s => r = s BY <1>2, TreeAssumption
<1> QED BY <1>2, <1>3, <1>6, <1>7, <1>8, RowsStand

LEMMA CollectKeeps == ASSUME TreeInv, NEW r \in Requests, Collect(r) PROVE TreeInv'
<1> DEFINE q == req[r]
           kids == SetToSeq(ChildFolders(Head(q.todo)))
           out == q.out \o kids
           todo == Tail(q.todo) \o kids
           on == [q EXCEPT !.todo = todo, !.out = out]
           end == [q EXCEPT !.pc = q.then, !.out = out,
                            !.todo = IF q.then = "list" THEN out ELSE <<>>]
<1>1. q \in Request /\ q.pc = "collect" /\ q.todo # <<>>
  BY DEF Collect, TreeInv, TreeTypeOK, Slots, Slot
<1>2. \/ Goto(r, Idle)
      \/ todo # <<>> /\ Goto(r, on)
      \/ Goto(r, end)
  <2> DEFINE next == IF todo # <<>> THEN on ELSE end
  <2>1. Goto(r, IF Len(out) > MaxTree THEN Idle ELSE next) BY DEF Collect
  <2> HIDE DEF out, todo, on, end
  <2> QED BY <2>1 DEF Goto
<1>3. ChildFolders(Head(q.todo)) \in SUBSET Folders BY DEF ChildFolders
<1>4. kids \in Seq(Folders) BY <1>3, SetToSeqAll, TreeAssumption
<1>5. q.todo \in Seq(Folders) /\ q.out \in Seq(Folders) /\ q.then \in {"trash", "list"}
  BY <1>1 DEF Request
<1>6. Tail(q.todo) \in Seq(Folders) BY <1>1, <1>5, HeadTailProperties
<1> HIDE DEF kids
<1>7. out \in Seq(Folders) /\ todo \in Seq(Folders) BY <1>4, <1>5, <1>6, ConcatProperties
<1> HIDE DEF out, todo
<1>8. on \in Request /\ on.pc = "collect" /\ on.todo = todo BY <1>1, <1>7 DEF Request
<1>9. (IF q.then = "list" THEN out ELSE <<>>) \in Seq(Folders) BY <1>7, EmptySeq
<1>10. end \in Request /\ end.pc \in {"trash", "list"} BY <1>1, <1>5, <1>7, <1>9 DEF Request, ReqPCs
<1> HIDE DEF on, end
<1>11. CASE Goto(r, Idle) BY <1>11, IdleType, GotoKeeps DEF Slot
<1>12. CASE todo # <<>> /\ Goto(r, on) BY <1>8, <1>12, GotoKeeps DEF Slot
<1>13. CASE Goto(r, end) BY <1>10, <1>13, GotoKeeps DEF Slot
<1> QED BY <1>2, <1>11, <1>12, <1>13

LEMMA ListKeeps == ASSUME TreeInv, NEW r \in Requests, ListFiles(r) PROVE TreeInv'
<1> DEFINE q == req[r]
           found == q.files \o SetToSeq(FilesIn(Head(q.todo)))
           on == [q EXCEPT !.todo = Tail(q.todo), !.files = found]
           end == [q EXCEPT !.pc = "files"]
<1>1. q \in Request /\ q.pc = "list" BY DEF ListFiles, TreeInv, TreeTypeOK
<1>2. IF q.todo = <<>> THEN Goto(r, end) ELSE Goto(r, on) BY DEF ListFiles
<1>3. FilesIn(Head(q.todo)) \in SUBSET Documents BY DEF FilesIn
<1>4. SetToSeq(FilesIn(Head(q.todo))) \in Seq(Documents) BY <1>3, SetToSeqAll, TreeAssumption
<1>5. q.todo \in Seq(Folders) /\ q.files \in Seq(Documents) BY <1>1 DEF Request
<1>6. found \in Seq(Documents) BY <1>4, <1>5, ConcatProperties
<1>7. q.todo # <<>> => Tail(q.todo) \in Seq(Folders) BY <1>5, HeadTailProperties
<1> HIDE DEF found
<1>8. q.todo # <<>> => on \in Request /\ on.pc = "list" BY <1>1, <1>6, <1>7 DEF Request
<1>9. end \in Request /\ end.pc = "files" BY <1>1 DEF Request, ReqPCs
<1> HIDE DEF on, end
<1>10. CASE q.todo = <<>> BY <1>2, <1>9, <1>10, GotoKeeps DEF Slot
<1>11. CASE q.todo # <<>> BY <1>2, <1>8, <1>11, GotoKeeps DEF Slot
<1> QED BY <1>10, <1>11

(* A request fails; the mutex, if it had it, is free.                       *)
LEMMA FailKeeps == ASSUME TreeInv, NEW r \in Requests, Fail(r) PROVE TreeInv'
<1> DEFINE c == IF creating = r THEN NoRequest ELSE creating
<1>1. req' = [req EXCEPT ![r] = Idle] /\ creating' = c /\ UNCHANGED <<rows, begun, raced>>
  BY DEF Fail
<1>2. c \in Requests \cup {NoRequest} /\ begun' \in 0..MaxOps BY <1>1 DEF TreeInv, TreeTypeOK
<1>3. \A s \in Requests \ {r} : creating = s => c = s OBVIOUS
<1> HIDE DEF c
<1>4. Slot(r, Idle, c) BY IdleType DEF Slot
<1> QED BY <1>1, <1>2, <1>3, <1>4, IdleType, RowsStand

(***************************************************************************)
(* Steps that write.                                                       *)
(***************************************************************************)

(* What a write leaves of the slots: its own is given, the others go on     *)
(* with what they have and know it to be of the past.                       *)
LEMMA WriteSlots ==
    ASSUME TreeInv, NEW r \in Requests, NEW q \in Request, req' = AfterWrite(r, q),
           q.pc \in {"idle", "path", "files", "folders"},
           q.pc = "path" => q.at \in Folders /\ folderRow'[q.at] # "unused",
           \A f \in Folders : folderRow[f] # "unused" => folderRow'[f] # "unused",
           \A s \in Requests \ {r} : req[s].pc = "insert" =>
               /\ creating' = s
               /\ \A g \in byUpload' : g \in byUpload /\ parent'[g] = parent[g] /\ title'[g] = title[g]
    PROVE req' \in [Requests -> Request] /\ Slots'
<1>1. req'[r] = q BY DEF AfterWrite
<1>2. ASSUME NEW s \in Requests \ {r}
      PROVE /\ req'[s] \in Request
            /\ req'[s].pc = req[s].pc /\ req'[s].at = req[s].at /\ req'[s].to = req[s].to
            /\ req'[s].names = req[s].names /\ req'[s].todo = req[s].todo
            /\ req[s].pc # "idle" => req'[s].stale
  <2>1. req[s] \in Request BY DEF TreeInv, TreeTypeOK
  <2>2. CASE req[s].pc = "idle"
    <3>1. req'[s] = [req[s] EXCEPT !.stale = FALSE] BY <2>2 DEF AfterWrite
    <3>2. \A b \in BOOLEAN : [req[s] EXCEPT !.stale = b] \in Request BY <2>1 DEF Request
    <3>3. [req[s] EXCEPT !.stale = FALSE] \in Request BY <3>2, Zenon
    <3> QED BY <2>1, <2>2, <3>1, <3>3 DEF Request
  <2>3. CASE req[s].pc # "idle"
    <3>1. req'[s] = [req[s] EXCEPT !.stale = TRUE] BY <2>3 DEF AfterWrite
    <3>2. \A b \in BOOLEAN : [req[s] EXCEPT !.stale = b] \in Request BY <2>1 DEF Request
    <3>3. [req[s] EXCEPT !.stale = TRUE] \in Request BY <3>2, Zenon
    <3> QED BY <2>1, <2>3, <3>1, <3>3 DEF Request
  <2> QED BY <2>2, <2>3
<1>3. req' \in [Requests -> Request]
  <2>1. req' = [s \in Requests |-> req'[s]] BY DEF AfterWrite
  <2> QED BY <1>1, <1>2, <2>1
<1>4. \A p \in Places : Drawn(p) => Drawn(p)' BY DEF Drawn, Places
<1>5. Slot(r, req[r], creating)'
  <2>1. req'[r].pc = "path" => Drawn(req[r].at)' BY <1>1 DEF Drawn
  <2> QED BY <1>1, <2>1 DEF Slot
<1>6. ASSUME NEW s \in Requests \ {r} PROVE Slot(s, req[s], creating)'
  <2>1. req[s].at \in Places /\ req[s].to \in Places BY DEF TreeInv, TreeTypeOK, Request
  <2>2. Slot(s, req[s], creating) BY DEF TreeInv, Slots
  <2>3. req'[s].pc \in {"create", "path", "insert"} => Drawn(req[s].at)'
    BY <1>2, <1>4, <2>1, <2>2 DEF Slot
  <2>4. req'[s].pc \in {"walk", "move"} => Drawn(req[s].to)' /\ req'[s].stale
    BY <1>2, <1>4, <2>1, <2>2 DEF Slot
  <2>5. req'[s].pc = "insert" =>
            /\ creating' = s
            /\ \A g \in byUpload' : ~(parent'[g] = req'[s].at /\ title'[g] = Head(req'[s].names))
    BY <1>2, <2>2 DEF Slot
  <2>6. /\ req'[s].pc = "collect" => req'[s].todo # <<>>
        /\ req'[s].pc \in {"create", "insert"} => req'[s].names # <<>>
        /\ req'[s].pc = "walk" => req'[s].at \in Folders
    BY <1>2, <2>2 DEF Slot
  <2> QED BY <2>3, <2>4, <2>5, <2>6 DEF Slot
<1> QED BY <1>3, <1>5, <1>6 DEF Slots

(* Rows that go, or stay where they are, close no cycle.                    *)
LEMMA FewerRows ==
    ASSUME Acyclic, \A f \in Folders : FolderExists(f)' => FolderExists(f) /\ parent'[f] = parent[f]
    PROVE Acyclic'
<1>1. ASSUME NEW S \in SUBSET Folders, \A f \in S : FolderExists(f)' /\ parent'[f] \in S
      PROVE S = {}
  BY <1>1 DEF Acyclic
<1> QED BY <1>1 DEF Acyclic

(* A write of the state of rows only, over folders that exist or not.       *)
LEMMA StatesKeep ==
    ASSUME TreeInv, NEW r \in Requests, NEW q \in Request, req' = AfterWrite(r, q),
           q.pc \in {"idle", "files", "folders"},
           UNCHANGED <<parent, creating>>, home' \in [Documents -> Places],
           title' \in [Folders -> Names], begun' \in 0..MaxOps,
           raced' = raced \/ raced' = Stains(r),
           folderRow' \in [Folders -> Rows], fileRow' \in [Documents -> Rows],
           \A f \in Folders : FolderExists(f)' => FolderExists(f),
           \A f \in Folders : folderRow[f] # "unused" => folderRow'[f] # "unused",
           \A g \in byUpload' : g \in byUpload /\ folderRow'[g] = "live" /\ title'[g] = title[g]
    PROVE TreeInv'
<1>1. req' \in [Requests -> Request] /\ Slots'
  BY WriteSlots DEF TreeInv, Slots, Slot
<1>2. TreeTypeOK'
  <2>1. raced' \in BOOLEAN BY Zenon DEF TreeInv, TreeTypeOK, Stains
  <2>2. byUpload' \in SUBSET Folders BY DEF TreeInv, TreeTypeOK
  <2> QED BY <1>1, <2>1, <2>2 DEF TreeInv, TreeTypeOK
<1>3. ParentsDrawn' BY DEF TreeInv, ParentsDrawn, Drawn, TreeTypeOK, Places
<1>4. UploadsLive' BY DEF UploadsLive
<1>5. CyclesNeedARace'
  <2>1. raced => raced' BY DEF Stains
  <2>2. Acyclic => Acyclic' BY FewerRows
  <2> QED BY <2>1, <2>2 DEF TreeInv, CyclesNeedARace
<1>6. UploadsShareFolders' BY DEF TreeInv, UploadsShareFolders
<1> QED BY <1>1, <1>2, <1>3, <1>4, <1>5, <1>6 DEF TreeInv

(* The new parent is an ancestor's descendant of nobody it should not be.   *)
LEMMA MoveKeeps == ASSUME TreeInv, NEW r \in Requests, MoveFolder(r) PROVE TreeInv'
<1> DEFINE q == req[r]
<1>1. q \in Request /\ q.pc = "move" /\ Slot(r, q, creating) /\ q.to \in Places
  BY DEF MoveFolder, TreeInv, TreeTypeOK, Slots, Request
<1>2. /\ parent' = [f \in Folders |-> IF f = q.id /\ FolderExists(f) THEN q.to ELSE parent[f]]
      /\ byUpload' = byUpload \ {q.id}
      /\ req' = AfterWrite(r, Idle)
      /\ UNCHANGED <<title, folderRow, home, fileRow, creating, begun>>
  BY DEF MoveFolder
<1>3. raced' <=> (raced \/ q.stale) BY DEF MoveFolder, Stains
<1> HIDE DEF q
<1>4. req' \in [Requests -> Request] /\ Slots'
  <2>1. \A g \in byUpload' : g \in byUpload /\ parent'[g] = parent[g] /\ title'[g] = title[g]
    BY <1>2 DEF TreeInv, TreeTypeOK
  <2>2. \A s \in Requests \ {r} : req[s].pc = "insert" => creating' = s
    BY <1>2 DEF TreeInv, Slots, Slot
  <2> QED BY <1>2, <2>1, <2>2, IdleType, WriteSlots
<1>5. TreeTypeOK'
  <2>1. parent' \in [Folders -> Places] BY <1>1, <1>2 DEF TreeInv, TreeTypeOK
  <2>2. raced' \in BOOLEAN BY Zenon DEF MoveFolder, Stains
  <2> QED BY <1>2, <1>4, <2>1, <2>2 DEF TreeInv, TreeTypeOK
<1>6. \A f \in Folders : FolderExists(f)' <=> FolderExists(f) BY <1>2 DEF FolderExists
<1>7. Drawn(q.to) BY <1>1 DEF Slot
<1>8. ParentsDrawn' BY <1>2, <1>6, <1>7 DEF TreeInv, ParentsDrawn, Drawn
<1>9. CyclesNeedARace'
  <2>1. SUFFICES ASSUME ~raced, ~q.stale PROVE Acyclic'
    BY <1>3 DEF CyclesNeedARace
  <2>2. Acyclic /\ Clear(q) BY <1>1, <2>1 DEF TreeInv, CyclesNeedARace, Slot
  <2>3. PICK A \in SUBSET Folders :
            /\ q.id \notin A
            /\ q.to \in A \cup {Root}
            /\ \A a \in A : FolderExists(a) => parent[a] \in A \cup {Root}
    BY <1>1, <2>2 DEF Clear, Ends
  <2>4. ASSUME NEW S \in SUBSET Folders, \A f \in S : FolderExists(f)' /\ parent'[f] \in S
        PROVE S = {}
    <3>1. \A f \in S : FolderExists(f) /\ f \in Folders BY <1>6, <2>4
    <3>2. Root \notin S BY TreeAssumption
    <3>3. \A f \in S : parent'[f] = IF f = q.id THEN q.to ELSE parent[f] BY <1>2, <3>1
    <3>4. CASE q.id \notin S
      <4>1. \A f \in S : FolderExists(f) /\ parent[f] \in S BY <2>4, <3>1, <3>3, <3>4
      <4> QED BY <2>2, <4>1 DEF Acyclic
    <3>5. CASE q.id \in S
      <4>1. q.to \in S \cap A BY <2>3, <2>4, <3>2, <3>3, <3>5
      <4>2. \A f \in S \cap A : FolderExists(f) /\ parent[f] \in S \cap A
        BY <2>3, <2>4, <3>1, <3>2, <3>3
      <4>3. S \cap A = {} BY <2>2, <4>2 DEF Acyclic
      <4> QED BY <4>1, <4>3
    <3> QED BY <3>4, <3>5
  <2> QED BY <2>4 DEF Acyclic
<1>10. UploadsLive' BY <1>2 DEF TreeInv, UploadsLive
<1>11. UploadsShareFolders'
  <2>1. \A g \in byUpload' : g \in byUpload /\ parent'[g] = parent[g]
    BY <1>2 DEF TreeInv, TreeTypeOK
  <2> QED BY <1>2, <2>1 DEF TreeInv, UploadsShareFolders
<1> QED BY <1>4, <1>5, <1>8, <1>9, <1>10, <1>11 DEF TreeInv

(* A folder made under a place whose id is drawn: nothing lies in it yet.   *)
LEMMA InsertAcyclic ==
    ASSUME TreeInv, NEW g \in Folders, NEW at, folderRow[g] = "unused", Drawn(at), Acyclic,
           parent' = [parent EXCEPT ![g] = at], folderRow' = [folderRow EXCEPT ![g] = "live"]
    PROVE Acyclic'
<1>1. \A f \in Folders : /\ f # g => parent'[f] = parent[f] /\ (FolderExists(f)' => FolderExists(f))
                         /\ parent'[g] = at
  BY DEF TreeInv, TreeTypeOK, FolderExists
<1>2. g # Root /\ at # g BY TreeAssumption DEF Drawn
<1>3. ASSUME NEW S \in SUBSET Folders, \A f \in S : FolderExists(f)' /\ parent'[f] \in S
      PROVE S = {}
  <2> DEFINE T == S \ {g}
  <2>1. \A f \in T : FolderExists(f) /\ parent[f] \in S /\ parent[f] # g
    BY <1>1, <1>2, <1>3 DEF TreeInv, ParentsDrawn, Drawn
  <2>2. \A f \in T : FolderExists(f) /\ parent[f] \in T BY <2>1
  <2>3. T = {} BY <2>2 DEF Acyclic
  <2>4. g \notin S BY <1>1, <1>2, <1>3, <2>3
  <2> QED BY <2>3, <2>4
<1> QED BY <1>3 DEF Acyclic

LEMMA InsertKeeps ==
    ASSUME TreeInv, NEW r \in Requests, NEW g \in Folders, NEW q \in Request,
           Insert(r, g, q), q.pc \in {"idle", "path"}, q.pc = "path" => q.at = g,
           req[r].pc \in {"create", "insert"},
           creating' \in Requests \cup {NoRequest},
           \A s \in Requests \ {r} : req[s].pc = "insert" => creating' = s /\ byUpload' = byUpload,
           byUpload' = byUpload \/ (req[r].pc = "insert" /\ byUpload' = byUpload \cup {g})
    PROVE TreeInv'
<1> DEFINE at == req[r].at
           name == Head(req[r].names)
<1>1. /\ folderRow[g] = "unused" /\ folderRow' = [folderRow EXCEPT ![g] = "live"]
      /\ parent' = [parent EXCEPT ![g] = at] /\ title' = [title EXCEPT ![g] = name]
      /\ req' = AfterWrite(r, q) /\ UNCHANGED <<home, fileRow, begun>>
  BY DEF Insert
<1>2. Slot(r, req[r], creating) /\ req[r] \in Request BY DEF TreeInv, Slots, TreeTypeOK
<1>3. at \in Places /\ Drawn(at) BY <1>2 DEF Slot, Request
<1>4. name \in Names
  <2>1. req[r].names \in Seq(Names) /\ req[r].names # <<>> BY <1>2 DEF Slot, Request
  <2> QED BY <2>1, HeadTailProperties
<1> HIDE DEF at, name
<1>5. g \notin byUpload BY <1>1 DEF TreeInv, UploadsLive
<1>6. \A f \in Folders : /\ folderRow'[f] = IF f = g THEN "live" ELSE folderRow[f]
                         /\ parent'[f] = IF f = g THEN at ELSE parent[f]
                         /\ title'[f] = IF f = g THEN name ELSE title[f]
  BY <1>1 DEF TreeInv, TreeTypeOK
<1>7. req' \in [Requests -> Request] /\ Slots'
  <2>1. \A b \in byUpload : parent'[b] = parent[b] /\ title'[b] = title[b]
    BY <1>5, <1>6 DEF TreeInv, TreeTypeOK
  <2>2. \A f \in Folders : folderRow[f] # "unused" => folderRow'[f] # "unused" BY <1>6
  <2>3. q.pc = "path" => q.at \in Folders /\ folderRow'[q.at] # "unused" BY <1>6
  <2>4. \A s \in Requests \ {r} : req[s].pc = "insert" =>
            /\ creating' = s
            /\ \A b \in byUpload' : b \in byUpload /\ parent'[b] = parent[b] /\ title'[b] = title[b]
    BY <2>1
  <2> QED BY <1>1, <2>2, <2>3, <2>4, WriteSlots
<1>8. TreeTypeOK'
  <2>1. folderRow' \in [Folders -> Rows] BY <1>1 DEF TreeInv, TreeTypeOK, Rows
  <2>2. parent' \in [Folders -> Places] /\ title' \in [Folders -> Names]
    BY <1>1, <1>3, <1>4 DEF TreeInv, TreeTypeOK
  <2>3. raced' \in BOOLEAN BY Zenon DEF Insert, Stains
  <2>4. byUpload' \in SUBSET Folders BY DEF TreeInv, TreeTypeOK
  <2> QED BY <1>1, <1>7, <2>1, <2>2, <2>3, <2>4 DEF TreeInv, TreeTypeOK
<1>9. ParentsDrawn'
  <2>1. \A f \in Folders : f # g => (FolderExists(f)' => FolderExists(f)) BY <1>6 DEF FolderExists
  <2>2. \A p \in Places : Drawn(p) => Drawn(p)' BY <1>6 DEF Drawn, Places
  <2>3. \A f \in Folders : parent[f] \in Places BY DEF TreeInv, TreeTypeOK
  <2> QED BY <1>3, <1>6, <2>1, <2>2, <2>3 DEF TreeInv, ParentsDrawn
<1>10. UploadsLive' BY <1>6 DEF TreeInv, UploadsLive, TreeTypeOK
<1>11. CyclesNeedARace'
  <2>1. raced => raced' BY DEF Insert, Stains
  <2>2. Acyclic => Acyclic' BY <1>1, <1>3, InsertAcyclic
  <2> QED BY <2>1, <2>2 DEF TreeInv, CyclesNeedARace
<1>12. UploadsShareFolders'
  <2>1. ASSUME req[r].pc = "insert", byUpload' = byUpload \cup {g} PROVE UploadsShareFolders'
    <3>1. \A b \in byUpload : ~(parent[b] = at /\ title[b] = name)
      BY <1>2, <2>1 DEF Slot, at, name
    <3> QED BY <1>5, <1>6, <2>1, <3>1 DEF TreeInv, UploadsShareFolders, TreeTypeOK
  <2>2. CASE byUpload' = byUpload
    BY <1>5, <1>6, <2>2 DEF TreeInv, UploadsShareFolders, TreeTypeOK
  <2> QED BY <2>1, <2>2
<1> QED BY <1>7, <1>8, <1>9, <1>10, <1>11, <1>12 DEF TreeInv

LEMMA InsertsKeep ==
    ASSUME TreeInv, NEW r \in Requests, NEW g \in Folders, CreateFolder(r, g) \/ InsertFolder(r, g)
    PROVE TreeInv'
<1>1. CASE CreateFolder(r, g)
  <2>1. /\ req[r].pc = "create" /\ Insert(r, g, Idle) /\ creating' = creating
        /\ byUpload' = byUpload
    BY <1>1 DEF CreateFolder
  <2>2. \A s \in Requests : req[s].pc = "insert" => creating = s BY DEF TreeInv, Slots, Slot
  <2>3. creating \in Requests \cup {NoRequest} BY DEF TreeInv, TreeTypeOK
  <2> QED BY <2>1, <2>2, <2>3, IdleType, InsertKeeps
<1>2. CASE InsertFolder(r, g)
  <2> DEFINE q == [req[r] EXCEPT !.pc = "path", !.at = g, !.names = Tail(req[r].names)]
  <2>1. /\ req[r].pc = "insert" /\ Insert(r, g, q) /\ creating' = NoRequest
        /\ byUpload' = byUpload \cup {g}
    BY <1>2 DEF InsertFolder
  <2>2. req[r] \in Request /\ req[r].names # <<>> /\ creating = r
    BY <2>1 DEF TreeInv, Slots, Slot, TreeTypeOK
  <2>3. Tail(req[r].names) \in Seq(Names)
    <3>1. req[r].names \in Seq(Names) BY <2>2 DEF Request
    <3> QED BY <2>2, <3>1, HeadTailProperties
  <2>4. q \in Request /\ q.pc = "path" /\ q.at = g
    BY <2>2, <2>3 DEF Request, ReqPCs, Places
  <2> HIDE DEF q
  <2>5. \A s \in Requests \ {r} : req[s].pc # "insert" BY <2>2 DEF TreeInv, Slots, Slot
  <2> QED BY <2>1, <2>4, <2>5, InsertKeeps
<1> QED BY <1>1, <1>2

(* Requests that write once they have collected what they need.             *)
LEMMA WritesKeep ==
    ASSUME TreeInv, NEW r \in Requests,
           \/ MoveFile(r) \/ TrashFolder(r) \/ DeleteNextFile(r) \/ DeleteLastFolder(r)
           \/ \E x \in Documents : SaveFile(r, x)
    PROVE TreeInv'
<1> DEFINE q == req[r]
<1>1. /\ q \in Request /\ home \in [Documents -> Places] /\ title \in [Folders -> Names]
      /\ begun \in 0..MaxOps /\ folderRow \in [Folders -> Rows] /\ fileRow \in [Documents -> Rows]
  BY DEF TreeInv, TreeTypeOK
<1>2. q.to \in Places /\ q.at \in Places /\ q.files \in Seq(Documents) /\ q.out \in Seq(Folders)
  BY <1>1 DEF Request
<1>3. \A g \in byUpload : g \in Folders /\ folderRow[g] = "live"
  BY DEF TreeInv, UploadsLive, TreeTypeOK
<1> HIDE DEF q
<1>4. CASE MoveFile(r)
  <2>1. /\ home' = [x \in Documents |-> IF x = q.id /\ FileExists(x) THEN q.to ELSE home[x]]
        /\ req' = AfterWrite(r, Idle) /\ raced' = Stains(r)
        /\ UNCHANGED <<parent, title, folderRow, fileRow, creating, begun, byUpload>>
    BY <1>4 DEF MoveFile, q
  <2>2. home' \in [Documents -> Places] BY <1>1, <1>2, <2>1
  <2>3. \A f \in Folders : FolderExists(f)' => FolderExists(f) BY <2>1 DEF FolderExists
  <2> QED BY <1>1, <1>3, <2>1, <2>2, <2>3, IdleType, StatesKeep
<1>5. ASSUME NEW x \in Documents, SaveFile(r, x) PROVE TreeInv'
  <2>1. /\ fileRow' = [fileRow EXCEPT ![x] = "live"] /\ home' = [home EXCEPT ![x] = q.at]
        /\ req' = AfterWrite(r, Idle) /\ raced' = Stains(r)
        /\ UNCHANGED <<parent, title, folderRow, creating, begun, byUpload>>
    BY <1>5 DEF SaveFile, q
  <2>2. home' \in [Documents -> Places] /\ fileRow' \in [Documents -> Rows]
    BY <1>1, <1>2, <2>1 DEF Rows
  <2>3. \A f \in Folders : FolderExists(f)' => FolderExists(f) BY <2>1 DEF FolderExists
  <2> QED BY <1>1, <1>3, <2>1, <2>2, <2>3, IdleType, StatesKeep
<1>6. CASE TrashFolder(r)
  <2> DEFINE all == ToSet(q.out)
  <2>1. /\ folderRow' = [f \in Folders |->
               IF f \in all /\ FolderExists(f) THEN "trashed" ELSE folderRow[f]]
        /\ fileRow' = [x \in Documents |->
               IF fileRow[x] = "live" /\ home[x] \in all THEN "trashed" ELSE fileRow[x]]
        /\ byUpload' = byUpload \ all
        /\ req' = AfterWrite(r, Idle) /\ raced' = Stains(r)
        /\ UNCHANGED <<parent, title, home, creating, begun>>
    BY <1>6 DEF TrashFolder, q
  <2> HIDE DEF all
  <2>2. folderRow' \in [Folders -> Rows] /\ fileRow' \in [Documents -> Rows]
    BY <1>1, <2>1 DEF Rows
  <2>3. \A f \in Folders : /\ FolderExists(f)' => FolderExists(f)
                           /\ folderRow[f] # "unused" => folderRow'[f] # "unused"
    BY <2>1 DEF FolderExists
  <2>4. \A g \in byUpload' : g \in byUpload /\ folderRow'[g] = "live" /\ title'[g] = title[g]
    BY <1>3, <2>1
  <2> QED BY <1>1, <2>1, <2>2, <2>3, <2>4, IdleType, StatesKeep
<1>7. CASE DeleteNextFile(r)
  <2> DEFINE on == [q EXCEPT !.files = Tail(q.files)]
             end == [q EXCEPT !.pc = "folders"]
             x == Head(q.files)
  <2>1. /\ q.pc = "files"
        /\ \/ Goto(r, end)
           \/ Goto(r, Idle)
           \/ /\ q.files # <<>>
              /\ fileRow' = [fileRow EXCEPT ![x] = "gone"]
              /\ req' = AfterWrite(r, on) /\ raced' = Stains(r)
              /\ UNCHANGED <<parent, title, folderRow, home, creating, begun, byUpload>>
    BY <1>7 DEF DeleteNextFile, q
  <2>2. end \in Request /\ end.pc = "folders" BY <1>1 DEF Request, ReqPCs
  <2>3. q.files # <<>> => on \in Request /\ on.pc = q.pc
    <3>1. q.files # <<>> => Tail(q.files) \in Seq(Documents) BY <1>2, HeadTailProperties
    <3> QED BY <1>1, <3>1 DEF Request
  <2> HIDE DEF on, end, x
  <2>4. CASE Goto(r, end) BY <2>2, <2>4, GotoKeeps DEF Slot
  <2>5. CASE Goto(r, Idle) BY <2>5, IdleType, GotoKeeps DEF Slot
  <2>6. CASE /\ q.files # <<>>
             /\ fileRow' = [fileRow EXCEPT ![x] = "gone"]
             /\ req' = AfterWrite(r, on) /\ raced' = Stains(r)
             /\ UNCHANGED <<parent, title, folderRow, home, creating, begun, byUpload>>
    <3>1. fileRow' \in [Documents -> Rows] BY <1>1, <2>6 DEF Rows
    <3>2. \A f \in Folders : FolderExists(f)' => FolderExists(f) BY <2>6 DEF FolderExists
    <3>3. on \in Request /\ on.pc = "files" BY <2>1, <2>3, <2>6
    <3> QED BY <1>1, <1>3, <2>6, <3>1, <3>2, <3>3, StatesKeep
  <2> QED BY <2>1, <2>4, <2>5, <2>6
<1>8. CASE DeleteLastFolder(r)
  <2> DEFINE on == [q EXCEPT !.out = Front(q.out)]
             next == IF Len(q.out) = 1 THEN Idle ELSE on
             last == Last(q.out)
  <2>1. /\ q.pc = "folders"
        /\ folderRow' = [folderRow EXCEPT ![last] = "gone"]
        /\ byUpload' = byUpload \ {last}
        /\ req' = AfterWrite(r, next) /\ raced' = Stains(r)
        /\ UNCHANGED <<parent, title, home, fileRow, creating, begun>>
    BY <1>8 DEF DeleteLastFolder, q
  <2>2. next \in Request /\ next.pc \in {"idle", "folders"}
    <3>1. Front(q.out) \in Seq(Folders)
      <4>1. SubSeq(q.out, 1, Len(q.out) - 1) \in Seq(Folders)
        BY <1>2, LenProperties, SubSeqProperties
      <4> QED BY <4>1 DEF Front
    <3>2. on \in Request /\ on.pc = "folders" BY <1>1, <2>1, <3>1 DEF Request
    <3> HIDE DEF on
    <3> QED BY <3>2, IdleType
  <2> HIDE DEF next, last
  <2>3. folderRow' \in [Folders -> Rows] BY <1>1, <2>1 DEF Rows
  <2>4. \A f \in Folders : /\ FolderExists(f)' => FolderExists(f)
                           /\ folderRow[f] # "unused" => folderRow'[f] # "unused"
    BY <1>1, <2>1 DEF FolderExists
  <2>5. \A g \in byUpload' : g \in byUpload /\ folderRow'[g] = "live" /\ title'[g] = title[g]
    BY <1>1, <1>3, <2>1
  <2> QED BY <1>1, <2>1, <2>2, <2>3, <2>4, <2>5, StatesKeep
<1> QED BY <1>4, <1>5, <1>6, <1>7, <1>8

(* Operations of one statement.                                             *)
LEMMA AtOnceKeeps ==
    ASSUME TreeInv, NEW r \in Requests, AtOnce(r),
           title' \in [Folders -> Names], fileRow' \in [Documents -> Rows],
           folderRow' \in [Folders -> Rows],
           \A f \in Folders : FolderExists(f)' => FolderExists(f),
           \A f \in Folders : folderRow[f] # "unused" => folderRow'[f] # "unused",
           \A g \in byUpload' : g \in byUpload /\ folderRow'[g] = "live" /\ title'[g] = title[g]
    PROVE TreeInv'
<1>1. begun' \in 0..MaxOps BY TreeAssumption DEF AtOnce, TreeInv, TreeTypeOK
<1>2. home' \in [Documents -> Places] BY DEF AtOnce, TreeInv, TreeTypeOK
<1>3. /\ req' = AfterWrite(r, Idle) /\ UNCHANGED <<parent, creating>> /\ raced' = raced
  BY DEF AtOnce
<1> QED BY <1>1, <1>2, <1>3, IdleType, StatesKeep

LEMMA StatementsKeep ==
    ASSUME TreeInv, NEW r \in Requests,
           \/ \E f \in Folders, n \in Names : RenameFolder(r, f, n)
           \/ \E f \in Folders : RestoreFolder(r, f)
           \/ \E x \in Documents : TrashFile(r, x) \/ RestoreFile(r, x) \/ PermanentDeleteFile(r, x)
    PROVE TreeInv'
<1>1. /\ title \in [Folders -> Names] /\ folderRow \in [Folders -> Rows]
      /\ fileRow \in [Documents -> Rows]
      /\ \A g \in byUpload : g \in Folders /\ folderRow[g] = "live"
  BY DEF TreeInv, TreeTypeOK, UploadsLive
<1>2. ASSUME NEW f \in Folders, NEW n \in Names, RenameFolder(r, f, n) PROVE TreeInv'
  <2>1. /\ title' = [title EXCEPT ![f] = n] /\ byUpload' = byUpload \ {f} /\ AtOnce(r)
        /\ UNCHANGED <<folderRow, fileRow>>
    BY <1>2 DEF RenameFolder
  <2>2. title' \in [Folders -> Names] BY <1>1, <2>1
  <2>3. \A g \in byUpload' : g \in byUpload /\ folderRow'[g] = "live" /\ title'[g] = title[g]
    BY <1>1, <2>1
  <2>4. \A g \in Folders : FolderExists(g)' => FolderExists(g) BY <2>1 DEF FolderExists
  <2> QED BY <1>1, <2>1, <2>2, <2>3, <2>4, AtOnceKeeps
<1>3. ASSUME NEW f \in Folders, RestoreFolder(r, f) PROVE TreeInv'
  <2>1. /\ folderRow[f] = "trashed" /\ folderRow' = [folderRow EXCEPT ![f] = "live"]
        /\ AtOnce(r) /\ UNCHANGED <<title, fileRow, byUpload>>
    BY <1>3 DEF RestoreFolder
  <2>2. folderRow' \in [Folders -> Rows] BY <1>1, <2>1 DEF Rows
  <2>3. \A g \in Folders : /\ FolderExists(g)' => FolderExists(g)
                           /\ folderRow[g] # "unused" => folderRow'[g] # "unused"
    BY <1>1, <2>1 DEF FolderExists
  <2>4. \A g \in byUpload' : g \in byUpload /\ folderRow'[g] = "live" /\ title'[g] = title[g]
    BY <1>1, <2>1
  <2> QED BY <1>1, <2>1, <2>2, <2>3, <2>4, AtOnceKeeps
<1>4. ASSUME NEW x \in Documents, TrashFile(r, x) \/ RestoreFile(r, x) \/ PermanentDeleteFile(r, x)
      PROVE TreeInv'
  <2>1. /\ \E row \in Rows : fileRow' = [fileRow EXCEPT ![x] = row]
        /\ AtOnce(r) /\ UNCHANGED <<title, folderRow, byUpload>>
    BY <1>4 DEF TrashFile, RestoreFile, PermanentDeleteFile, Rows
  <2>2. fileRow' \in [Documents -> Rows] BY <1>1, <2>1
  <2>3. \A g \in Folders : FolderExists(g)' => FolderExists(g) BY <2>1 DEF FolderExists
  <2> QED BY <1>1, <2>1, <2>2, <2>3, AtOnceKeeps
<1> QED BY <1>2, <1>3, <1>4

LEMMA NextTree == ASSUME TreeInv, [TreeNext]_treeVars PROVE TreeInv'
<1>1. ASSUME NEW r \in Requests, TreeStep(r) PROVE TreeInv'
  BY <1>1, OpsKeep, WalkKeeps, FindKeeps, MissKeeps, CollectKeeps, ListKeeps, FailKeeps, MoveKeeps,
     InsertsKeep, WritesKeep, StatementsKeep
     DEF TreeStep
<1>2. CASE UNCHANGED treeVars
  BY <1>2 DEF treeVars, TreeInv, TreeTypeOK, Slots, Slot, ParentsDrawn, UploadsLive, CyclesNeedARace,
       UploadsShareFolders, Acyclic, Clear, Ends, Drawn, FolderExists
<1> QED BY <1>1, <1>2 DEF TreeNext

(* The inductive invariant of the tree holds.                               *)
THEOREM TreeInvariantHolds == TreeSpec => []TreeInv
  BY InitTree, NextTree, PTL DEF TreeSpec

(* Every row and request keeps its type, for any constants.                 *)
THEOREM TreeTypeCorrect == TreeSpec => []TreeTypeOK
<1>1. TreeInv => TreeTypeOK BY DEF TreeInv
<1> QED BY TreeInvariantHolds, <1>1, PTL

(* Moves, trash, restores, deletions and uploads never close a cycle of     *)
(* folders, unless two requests have overlapped in their writes.            *)
THEOREM TreesStayTrees == TreeSpec => []CyclesNeedARace
<1>1. TreeInv => CyclesNeedARace BY DEF TreeInv
<1> QED BY TreeInvariantHolds, <1>1, PTL

(* Uploads into one new path share its folders, however they overlap.       *)
THEOREM PathsAreShared == TreeSpec => []UploadsShareFolders
<1>1. TreeInv => UploadsShareFolders BY DEF TreeInv
<1> QED BY TreeInvariantHolds, <1>1, PTL

-----------------------------------------------------------------------------
(* What a request that has seen no write of another one's knows: nothing    *)
(* it is about to write into has gone, and what it has collected is the     *)
(* whole of the subtree, in an order in which no folder goes before what    *)
(* lies in it.                                                              *)

Stands(p) == p = Root \/ FolderExists(p)

\* What is left to do is the end of what was collected.
Remains(todo, out) ==
    /\ Len(todo) <= Len(out)
    /\ \A k \in 1..Len(todo) : todo[k] = out[Len(out) - Len(todo) + k]

\* The children of each of the first n folders come after it.
Below(out, n) ==
    \A i \in 1..n : \A c \in ChildFolders(out[i]) : \E j \in (i + 1)..Len(out) : out[j] = c

\* The files of the first n folders are in the list.
Listed(out, n, list) == \A i \in 1..n : FilesIn(out[i]) \subseteq ToSet(list)

Collecting == {"collect", "trash", "list", "files", "folders"}

Knows(q) ==
    /\ q.pc \in {"create", "path", "insert"} => Stands(q.at)
    /\ q.pc \in {"walk", "move", "move_file"} => Stands(q.to)
    /\ q.pc = "collect" => Remains(q.todo, q.out) /\ Below(q.out, Len(q.out) - Len(q.todo))
    /\ q.pc \in {"trash", "list", "files", "folders"} => Below(q.out, Len(q.out))
    /\ q.pc = "list" =>
           Remains(q.todo, q.out) /\ Listed(q.out, Len(q.out) - Len(q.todo), q.files)
    /\ q.pc = "files" => Listed(q.out, Len(q.out), q.files)
    /\ q.pc = "folders" => Listed(q.out, Len(q.out), <<>>)
    /\ q.pc \in {"collect", "trash"} => q.id \in ToSet(q.out)

Knowing == \A r \in Requests : req[r].stale \/ Knows(req[r])
Started == \A r \in Requests : req[r].pc \in Collecting => req[r].out # <<>>

KInv == TreeInv /\ Knowing /\ Started /\ NothingDangles

(* The elements of a sequence.                                              *)
LEMMA Elements ==
    ASSUME NEW T, NEW s \in Seq(T) PROVE ToSet(s) = {s[i] : i \in 1..Len(s)}
  BY DEF ToSet

(* A request reads and goes on; the rows and what they show stand.          *)
LEMMA ReadKnows ==
    ASSUME KInv, TreeInv', NEW r \in Requests, NEW q \in Request,
           req' = [req EXCEPT ![r] = q], UNCHANGED <<rows, raced>>,
           q.stale \/ Knows(q), q.pc \in Collecting => q.out # <<>>
    PROVE  KInv'
<1>1. \A s \in Requests : /\ req'[s].stale \/ Knows(req'[s])
                          /\ req'[s].pc \in Collecting => req'[s].out # <<>>
  BY DEF KInv, Knowing, Started, TreeInv, TreeTypeOK
<1>2. ASSUME NEW s \in Requests PROVE req'[s].stale \/ Knows(req[s])'
  <2> SUFFICES ASSUME Knows(req'[s]) PROVE Knows(req[s])'
    BY <1>1
  <2>1. /\ req'[s].pc \in {"create", "path", "insert"} => Stands(req[s].at)'
        /\ req'[s].pc \in {"walk", "move", "move_file"} => Stands(req[s].to)'
    BY DEF Knows, Stands, FolderExists, rows
  <2>2. /\ req'[s].pc = "collect" => /\ Remains(req[s].todo, req[s].out)'
                                     /\ Below(req[s].out, Len(req[s].out) - Len(req[s].todo))'
        /\ req'[s].pc \in {"trash", "list", "files", "folders"} =>
               Below(req[s].out, Len(req[s].out))'
    BY DEF Knows, Below, Remains, ChildFolders, FolderExists, rows
  <2>3. /\ req'[s].pc = "list" =>
               /\ Remains(req[s].todo, req[s].out)'
               /\ Listed(req[s].out, Len(req[s].out) - Len(req[s].todo), req[s].files)'
        /\ req'[s].pc = "files" => Listed(req[s].out, Len(req[s].out), req[s].files)'
        /\ req'[s].pc = "folders" => Listed(req[s].out, Len(req[s].out), <<>>)'
    BY DEF Knows, Listed, Remains, FilesIn, FileExists, rows
  <2>4. req'[s].pc \in {"collect", "trash"} => (req[s].id \in ToSet(req[s].out))'
    BY DEF Knows
  <2> QED BY <2>1, <2>2, <2>3, <2>4 DEF Knows
<1>3. NothingDangles'
  BY DEF KInv, NothingDangles, FolderExists, FileExists, rows
<1> QED BY <1>1, <1>2, <1>3 DEF KInv, Knowing, Started

(* A request writes; every other one that runs has become stale.            *)
LEMMA WriteKnows ==
    ASSUME KInv, TreeInv', NEW r \in Requests, NEW q \in Request, req' = AfterWrite(r, q),
           q.stale \/ Knows(req[r])', q.pc \in Collecting => q.out # <<>>
    PROVE  Knowing' /\ Started'
<1>1. req'[r] = q BY DEF AfterWrite
<1>2. ASSUME NEW s \in Requests \ {r}
      PROVE  /\ req'[s].stale \/ Knows(req[s])'
             /\ req'[s].pc \in Collecting => req'[s].out # <<>>
  <2>1. req[s] \in Request /\ req'[s] = [req[s] EXCEPT !.stale = (req[s].pc # "idle")]
    BY DEF KInv, TreeInv, TreeTypeOK, AfterWrite
  <2>2. req'[s].pc = req[s].pc /\ req'[s].out = req[s].out BY <2>1 DEF Request
  <2>3. req'[s].stale = (req[s].pc # "idle") BY <2>1, Zenon DEF Request
  <2>4. CASE req[s].pc = "idle"
    BY <2>2, <2>4 DEF Knows, Collecting
  <2>5. CASE req[s].pc # "idle"
    <3>1. req'[s].stale BY <2>3, <2>5
    <3> QED BY <2>2, <3>1 DEF KInv, Started
  <2> QED BY <2>4, <2>5
<1> QED BY <1>1, <1>2 DEF Knowing, Started

LEMMA GotoKnows ==
    ASSUME KInv, TreeInv', NEW r \in Requests, NEW q \in Request, Goto(r, q),
           q.stale \/ Knows(q), q.pc \in Collecting => q.out # <<>>
    PROVE  KInv'
  BY ReadKnows DEF Goto, rows

LEMMA OpsKnow == ASSUME KInv, TreeInv', NEW r \in Requests, BeginOp(r) PROVE KInv'
<1>1. ASSUME NEW q \in Request, Begin(r, q), Knows(q), q.pc \in Collecting => q.out # <<>>
      PROVE KInv'
  BY <1>1, ReadKnows DEF Begin, rows
<1>2. ASSUME NEW f \in Folders, NEW p \in Places, BeginMoveFolder(r, f, p) PROVE KInv'
  <2>1. PICK q : q = [Idle EXCEPT !.pc = IF p = Root THEN "move" ELSE "walk",
                                  !.id = f, !.to = p, !.at = p]
    OBVIOUS
  <2>2. q \in Request BY <2>1, IdleType DEF Request, ReqPCs, Places
  <2>3. q.pc \in {"move", "walk"} /\ q.to = p BY <2>1 DEF Idle
  <2>4. Begin(r, q) /\ Stands(p) BY <1>2, <2>1 DEF BeginMoveFolder, FolderLive, Stands, FolderExists
  <2> QED BY <1>1, <2>2, <2>3, <2>4 DEF Knows, Collecting
<1>3. ASSUME NEW x \in Documents, NEW p \in Places, BeginMoveFile(r, x, p) PROVE KInv'
  <2>1. PICK q : q = [Idle EXCEPT !.pc = "move_file", !.id = x, !.to = p] OBVIOUS
  <2>2. q \in Request BY <2>1, IdleType DEF Request, ReqPCs, Places
  <2>3. q.pc = "move_file" /\ q.to = p BY <2>1 DEF Idle
  <2>4. Begin(r, q) /\ Stands(p) BY <1>3, <2>1 DEF BeginMoveFile, FolderLive, Stands, FolderExists
  <2> QED BY <1>1, <2>2, <2>3, <2>4 DEF Knows, Collecting
<1>4. ASSUME NEW p \in Places, NEW n \in Names, BeginCreateFolder(r, p, n) PROVE KInv'
  <2>1. PICK q : q = [Idle EXCEPT !.pc = "create", !.at = p, !.names = <<n>>] OBVIOUS
  <2>2. q \in Request
    <3>1. <<n>> \in Seq(Names) BY ShortSeqs
    <3> QED BY <2>1, <3>1, IdleType DEF Request, ReqPCs, Places
  <2>3. q.pc = "create" /\ q.at = p BY <2>1 DEF Idle
  <2>4. Begin(r, q) /\ Stands(p)
    BY <1>4, <2>1 DEF BeginCreateFolder, FolderLive, Stands, FolderExists
  <2> QED BY <1>1, <2>2, <2>3, <2>4 DEF Knows, Collecting
<1>5. ASSUME NEW p \in Places, NEW path \in UploadPaths, BeginUpload(r, p, path) PROVE KInv'
  <2>1. PICK q : q = [Idle EXCEPT !.pc = "path", !.at = p, !.names = path] OBVIOUS
  <2>2. path \in Seq(Names)
    <3>1. CASE \E n \in Names : path = <<n>> BY <3>1, ShortSeqs
    <3>2. CASE \E n, m \in Names : path = <<n, m>> BY <3>2, ShortSeqs
    <3> QED BY <3>1, <3>2 DEF UploadPaths
  <2>3. q \in Request BY <2>1, <2>2, IdleType DEF Request, ReqPCs, Places
  <2>4. q.pc = "path" /\ q.at = p BY <2>1 DEF Idle
  <2>5. Begin(r, q) /\ Stands(p) BY <1>5, <2>1 DEF BeginUpload, FolderLive, Stands, FolderExists
  <2> QED BY <1>1, <2>3, <2>4, <2>5 DEF Knows, Collecting
<1>6. ASSUME NEW f \in Folders, NEW then \in {"trash", "list"}, BeginTree(r, f, then) PROVE KInv'
  <2>1. PICK q : q = [Idle EXCEPT !.pc = "collect", !.id = f, !.then = then,
                                  !.todo = <<f>>, !.out = <<f>>]
    OBVIOUS
  <2>2. <<f>> \in Seq(Folders) /\ <<f>> # <<>> BY ShortSeqs
  <2>3. q \in Request BY <2>1, <2>2, IdleType DEF Request, ReqPCs, Places
  <2>4. q.pc = "collect" /\ q.id = f /\ q.todo = <<f>> /\ q.out = <<f>> BY <2>1 DEF Idle
  <2>5. Begin(r, q) BY <1>6, <2>1 DEF BeginTree
  <2>6. Len(<<f>>) = 1 /\ <<f>>[1] = f OBVIOUS
  <2>7. f \in ToSet(<<f>>)
    <3>1. 1 \in 1..Len(<<f>>) /\ <<f>>[1] = f BY <2>6
    <3>2. f \in {<<f>>[i] : i \in 1..Len(<<f>>)} BY <3>1
    <3> QED BY <2>2, <3>2, Elements
  <2>8. Remains(<<f>>, <<f>>) /\ Below(<<f>>, 1 - 1) BY <2>6 DEF Remains, Below
  <2> QED BY <1>1, <2>2, <2>3, <2>4, <2>5, <2>6, <2>7, <2>8 DEF Knows
<1> QED BY <1>2, <1>3, <1>4, <1>5, <1>6 DEF BeginOp

LEMMA WalkKnows == ASSUME KInv, TreeInv', NEW r \in Requests, Walk(r) PROVE KInv'
<1>1. PICK q \in Request : q = req[r] BY DEF KInv, TreeInv, TreeTypeOK
<1>2. q.pc = "walk" /\ (q.stale \/ Knows(q)) BY <1>1 DEF Walk, KInv, Knowing
<1>3. q.at \in Folders BY <1>1, <1>2 DEF KInv, TreeInv, Slots, Slot
<1>4. PICK onward : onward = IF FolderExists(q.at) THEN parent[q.at] ELSE Root OBVIOUS
<1>5. onward \in Places BY <1>3, <1>4 DEF KInv, TreeInv, TreeTypeOK, Places
<1>6. PICK stop : stop = [q EXCEPT !.pc = "move"] OBVIOUS
<1>7. PICK on : on = [q EXCEPT !.at = onward, !.hops = q.hops + 1] OBVIOUS
<1>8. Goto(r, Idle) \/ Goto(r, stop) \/ Goto(r, on) BY <1>1, <1>4, <1>6, <1>7 DEF Walk
<1>9. /\ stop \in Request /\ stop.pc = "move" /\ stop.to = q.to /\ stop.stale = q.stale
      /\ on \in Request /\ on.pc = "walk" /\ on.to = q.to /\ on.stale = q.stale
  <2>1. q.hops + 1 \in Nat BY <1>1 DEF Request
  <2> QED BY <1>1, <1>2, <1>5, <1>6, <1>7, <2>1 DEF Request, ReqPCs
<1>10. CASE Goto(r, Idle) BY <1>10, IdleType, GotoKnows DEF Knows, Collecting
<1>11. CASE Goto(r, stop) BY <1>2, <1>9, <1>11, GotoKnows DEF Knows, Collecting
<1>12. CASE Goto(r, on) BY <1>2, <1>9, <1>12, GotoKnows DEF Knows, Collecting
<1> QED BY <1>8, <1>10, <1>11, <1>12

LEMMA PathKnows ==
    ASSUME KInv, TreeInv', NEW r \in Requests, FindFolder(r) \/ MissFolder(r) PROVE KInv'
<1>1. PICK q \in Request : q = req[r] BY DEF KInv, TreeInv, TreeTypeOK
<1>2. q.pc = "path" /\ q.names # <<>> /\ (q.stale \/ Knows(q))
  BY <1>1 DEF FindFolder, MissFolder, KInv, Knowing
<1>3. q.names \in Seq(Names) BY DEF Request
<1>4. CASE FindFolder(r)
  <2>1. PICK g \in Namesakes(q.at, Head(q.names)) :
            Goto(r, [q EXCEPT !.at = g, !.names = Tail(q.names)])
    BY <1>1, <1>4 DEF FindFolder
  <2>2. PICK next : next = [q EXCEPT !.at = g, !.names = Tail(q.names)] OBVIOUS
  <2>3. g \in Folders /\ Stands(g) BY DEF Namesakes, Stands, FolderExists
  <2>4. Tail(q.names) \in Seq(Names) BY <1>2, <1>3, HeadTailProperties
  <2>5. next \in Request /\ next.pc = "path" /\ next.at = g
    BY <1>2, <2>2, <2>3, <2>4 DEF Request, Places
  <2> QED BY <2>1, <2>2, <2>3, <2>5, GotoKnows DEF Knows, Collecting
<1>5. CASE MissFolder(r)
  <2>1. PICK next : next = [q EXCEPT !.pc = "insert"] OBVIOUS
  <2>2. req' = [req EXCEPT ![r] = next] /\ UNCHANGED <<rows, raced>>
    BY <1>1, <1>5, <2>1 DEF MissFolder
  <2>3. next \in Request /\ next.pc = "insert" /\ next.at = q.at /\ next.stale = q.stale
    BY <2>1 DEF Request, ReqPCs
  <2> QED BY <1>2, <2>2, <2>3, ReadKnows DEF Knows, Collecting
<1> QED BY <1>4, <1>5

LEMMA FailKnows == ASSUME KInv, TreeInv', NEW r \in Requests, Fail(r) PROVE KInv'
  BY IdleType, ReadKnows DEF Fail, Knows, Collecting

LEMMA Appended ==
    ASSUME NEW T, NEW s \in Seq(T), NEW t \in Seq(T)
    PROVE  /\ s \o t \in Seq(T)
           /\ ToSet(s) \subseteq ToSet(s \o t) /\ ToSet(t) \subseteq ToSet(s \o t)
<1>1. /\ s \o t \in Seq(T) /\ Len(s \o t) = Len(s) + Len(t)
      /\ \A i \in 1..Len(s) : (s \o t)[i] = s[i]
      /\ \A m \in 1..Len(t) : (s \o t)[Len(s) + m] = t[m]
      /\ Len(s) \in Nat /\ Len(t) \in Nat
  BY ConcatProperties, LenProperties
<1>2. /\ ToSet(s \o t) = {(s \o t)[i] : i \in 1..Len(s \o t)}
      /\ ToSet(s) = {s[i] : i \in 1..Len(s)} /\ ToSet(t) = {t[i] : i \in 1..Len(t)}
  BY <1>1, Elements
<1>3. \A i \in 1..Len(s) : i \in 1..Len(s \o t) BY <1>1
<1>4. \A m \in 1..Len(t) : Len(s) + m \in 1..Len(s \o t) BY <1>1
<1> QED BY <1>1, <1>2, <1>3, <1>4

(* The children of the next folder are appended: one folder more whose      *)
(* children come after it.                                                  *)
LEMMA CollectMore ==
    ASSUME NEW todo \in Seq(Folders), NEW out \in Seq(Folders), NEW kids \in Seq(Folders),
           todo # <<>>, Remains(todo, out), Below(out, Len(out) - Len(todo)),
           \A c \in ChildFolders(Head(todo)) : \E k \in 1..Len(kids) : kids[k] = c
    PROVE  LET left == Tail(todo) \o kids
               all == out \o kids
           IN  /\ Remains(left, all) /\ Below(all, Len(all) - Len(left))
               /\ ToSet(out) \subseteq ToSet(all)
<1> DEFINE left == Tail(todo) \o kids
           all == out \o kids
           n == Len(out) - Len(todo)
<1>1. /\ Tail(todo) \in Seq(Folders) /\ Len(Tail(todo)) = Len(todo) - 1
      /\ \A k \in 1..(Len(todo) - 1) : Tail(todo)[k] = todo[k + 1]
      /\ Head(todo) = todo[1] /\ Len(todo) \in Nat /\ Len(todo) >= 1
  BY HeadTailProperties, LenProperties, EmptySeq
<1>2. /\ all \in Seq(Folders) /\ Len(all) = Len(out) + Len(kids)
      /\ \A i \in 1..Len(out) : all[i] = out[i]
      /\ \A m \in 1..Len(kids) : all[Len(out) + m] = kids[m]
  BY ConcatProperties, LenProperties
<1>3. /\ left \in Seq(Folders) /\ Len(left) = Len(todo) - 1 + Len(kids)
      /\ \A k \in 1..(Len(todo) - 1) : left[k] = todo[k + 1]
      /\ \A m \in 1..Len(kids) : left[Len(todo) - 1 + m] = kids[m]
  BY <1>1, ConcatProperties, LenProperties
<1>4. Len(out) \in Nat /\ Len(kids) \in Nat /\ n \in Nat /\ Len(all) - Len(left) = n + 1
  BY <1>1, <1>2, <1>3, LenProperties DEF Remains
<1> HIDE DEF left, all
<1>5. \A k \in 1..Len(todo) : todo[k] = out[n + k] BY DEF Remains
<1>6. ASSUME NEW k \in 1..Len(left) PROVE left[k] = all[n + 1 + k]
  <2>1. CASE k <= Len(todo) - 1
    <3>1. left[k] = out[n + (k + 1)] BY <1>1, <1>3, <1>4, <1>5, <2>1
    <3>2. n + 1 + k \in 1..Len(out) BY <1>1, <1>4, <2>1
    <3> QED BY <1>2, <1>4, <3>1, <3>2
  <2>2. CASE k > Len(todo) - 1
    <3>1. PICK m \in 1..Len(kids) : k = Len(todo) - 1 + m
      <4> DEFINE m == k - (Len(todo) - 1)
      <4>1. m \in 1..Len(kids) /\ k = Len(todo) - 1 + m BY <1>1, <1>3, <1>4, <2>2
      <4> QED BY <4>1
    <3>2. n + 1 + k = Len(out) + m BY <1>1, <1>4, <3>1
    <3> QED BY <1>2, <1>3, <3>1, <3>2
  <2> QED BY <1>1, <1>3, <1>4, <2>1, <2>2
<1>7. Remains(left, all) BY <1>1, <1>2, <1>3, <1>4, <1>6 DEF Remains
<1>8. ASSUME NEW i \in 1..(n + 1), NEW c \in ChildFolders(all[i])
      PROVE  \E j \in (i + 1)..Len(all) : all[j] = c
  <2>1. i \in 1..Len(out) /\ all[i] = out[i] BY <1>1, <1>2, <1>4
  <2>2. CASE i \in 1..n
    <3>1. PICK j \in (i + 1)..Len(out) : out[j] = c BY <1>8, <2>1, <2>2 DEF Below
    <3>2. j \in 1..Len(out) /\ j \in (i + 1)..Len(all) BY <1>2, <1>4, <2>2
    <3> QED BY <1>2, <3>1, <3>2
  <2>3. CASE i = n + 1
    <3>1. all[i] = Head(todo) BY <1>1, <1>4, <1>5, <2>1, <2>3
    <3>2. PICK m \in 1..Len(kids) : kids[m] = c BY <1>8, <3>1
    <3>3. Len(out) + m \in (i + 1)..Len(all) BY <1>2, <1>4, <2>1
    <3> QED BY <1>2, <3>2, <3>3
  <2> QED BY <1>4, <2>2, <2>3
<1>9. Below(all, Len(all) - Len(left)) BY <1>4, <1>8 DEF Below
<1>10. ToSet(out) \subseteq ToSet(all)
  BY <1>2, <1>4, Elements
<1> QED BY <1>7, <1>9, <1>10 DEF left, all

LEMMA CollectKnows == ASSUME KInv, TreeInv', NEW r \in Requests, Collect(r) PROVE KInv'
<1>1. PICK q \in Request : q = req[r] BY DEF KInv, TreeInv, TreeTypeOK
<1>2. q.pc = "collect" /\ (q.stale \/ Knows(q)) /\ q.todo # <<>> /\ q.out # <<>>
  BY <1>1 DEF Collect, KInv, Knowing, Started, Collecting, TreeInv, Slots, Slot
<1>3. q.todo \in Seq(Folders) /\ q.out \in Seq(Folders) /\ q.then \in {"trash", "list"}
  BY DEF Request
<1>4. PICK kids \in Seq(Folders) :
          /\ kids = SetToSeq(ChildFolders(Head(q.todo)))
          /\ \A c \in ChildFolders(Head(q.todo)) : \E k \in 1..Len(kids) : kids[k] = c
  <2>1. ChildFolders(Head(q.todo)) \in SUBSET Folders BY DEF ChildFolders
  <2> QED BY <2>1, SetToSeqAll, TreeAssumption
<1>5. PICK out, left : out = q.out \o kids /\ left = Tail(q.todo) \o kids OBVIOUS
<1>6. PICK on : on = [q EXCEPT !.todo = left, !.out = out] OBVIOUS
<1>7. PICK end : end = [q EXCEPT !.pc = q.then, !.out = out,
                                 !.todo = IF q.then = "list" THEN out ELSE <<>>]
  OBVIOUS
<1>8. Goto(r, Idle) \/ Goto(r, on) \/ (left = <<>> /\ Goto(r, end))
  <2>1. Goto(r, IF Len(out) > MaxTree THEN Idle ELSE IF left # <<>> THEN on ELSE end)
    BY <1>1, <1>4, <1>5, <1>6, <1>7 DEF Collect
  <2> QED BY <2>1
<1>9. out \in Seq(Folders) /\ left \in Seq(Folders) /\ out # <<>>
  <2>1. Tail(q.todo) \in Seq(Folders) BY <1>2, <1>3, HeadTailProperties
  <2>2. Len(q.out) > 0 /\ Len(out) = Len(q.out) + Len(kids) /\ Len(kids) \in Nat
    BY <1>2, <1>3, <1>5, LenProperties, EmptySeq, ConcatProperties
  <2> QED BY <1>3, <1>5, <2>1, <2>2, ConcatProperties, EmptySeq
<1>10. q.stale \/ (/\ Remains(left, out) /\ Below(out, Len(out) - Len(left))
                   /\ q.id \in ToSet(out))
  BY <1>2, <1>3, <1>4, <1>5, CollectMore DEF Knows
<1>11. CASE Goto(r, Idle) BY <1>11, IdleType, GotoKnows DEF Knows, Collecting
<1>12. CASE Goto(r, on)
  <2>1. /\ on \in Request /\ on.pc = "collect" /\ on.stale = q.stale /\ on.out = out
        /\ on.todo = left /\ on.id = q.id
    BY <1>2, <1>6, <1>9 DEF Request
  <2>2. on.stale \/ Knows(on) BY <1>10, <2>1 DEF Knows
  <2> QED BY <1>9, <1>12, <2>1, <2>2, GotoKnows
<1>13. CASE left = <<>> /\ Goto(r, end)
  <2>1. (IF q.then = "list" THEN out ELSE <<>>) \in Seq(Folders) BY <1>9, EmptySeq
  <2>2. /\ end \in Request /\ end.pc = q.then /\ end.stale = q.stale /\ end.out = out
        /\ q.then = "list" => end.todo = out
        /\ end.id = q.id
    BY <1>3, <1>7, <1>9, <2>1 DEF Request, ReqPCs
  <2>3. Len(out) \in Nat /\ Len(<<>>) = 0 BY <1>9, LenProperties, EmptySeq
  <2>4. Remains(out, out) /\ Listed(out, Len(out) - Len(out), end.files)
    BY <2>3 DEF Remains, Listed
  <2>5. q.stale \/ (Below(out, Len(out)) /\ q.id \in ToSet(out))
    BY <1>10, <1>13, <2>3
  <2>6. end.stale \/ Knows(end) BY <1>3, <2>2, <2>4, <2>5 DEF Knows
  <2> QED BY <1>9, <1>13, <2>2, <2>6, GotoKnows
<1> QED BY <1>8, <1>11, <1>12, <1>13

LEMMA ListKnows == ASSUME KInv, TreeInv', NEW r \in Requests, ListFiles(r) PROVE KInv'
<1>1. PICK q \in Request : q = req[r] BY DEF KInv, TreeInv, TreeTypeOK
<1>2. q.pc = "list" /\ (q.stale \/ Knows(q)) /\ q.out # <<>>
  BY <1>1 DEF ListFiles, KInv, Knowing, Started, Collecting
<1>3. q.todo \in Seq(Folders) /\ q.out \in Seq(Folders) /\ q.files \in Seq(Documents)
  BY DEF Request
<1>4. CASE q.todo = <<>>
  <2>1. PICK end : end = [q EXCEPT !.pc = "files"] OBVIOUS
  <2>2. Goto(r, end) BY <1>1, <1>4, <2>1 DEF ListFiles
  <2>3. /\ end \in Request /\ end.pc = "files" /\ end.stale = q.stale /\ end.out = q.out
        /\ end.files = q.files
    BY <2>1 DEF Request, ReqPCs
  <2>4. Len(q.out) - Len(q.todo) = Len(q.out) BY <1>3, <1>4, LenProperties, EmptySeq
  <2>5. end.stale \/ Knows(end) BY <1>2, <2>3, <2>4 DEF Knows
  <2> QED BY <1>2, <2>2, <2>3, <2>5, GotoKnows
<1>5. CASE q.todo # <<>>
  <2>1. PICK found \in Seq(Documents) :
            /\ found = SetToSeq(FilesIn(Head(q.todo)))
            /\ \A x \in FilesIn(Head(q.todo)) : \E k \in 1..Len(found) : found[k] = x
    <3>1. FilesIn(Head(q.todo)) \in SUBSET Documents BY DEF FilesIn
    <3> QED BY <3>1, SetToSeqAll, TreeAssumption
  <2>2. PICK list : list = q.files \o found OBVIOUS
  <2>3. PICK on : on = [q EXCEPT !.todo = Tail(q.todo), !.files = list] OBVIOUS
  <2>4. Goto(r, on) BY <1>1, <1>5, <2>1, <2>2, <2>3 DEF ListFiles
  <2>5. /\ Tail(q.todo) \in Seq(Folders) /\ Len(Tail(q.todo)) = Len(q.todo) - 1
        /\ \A k \in 1..(Len(q.todo) - 1) : Tail(q.todo)[k] = q.todo[k + 1]
        /\ Head(q.todo) = q.todo[1] /\ Len(q.todo) \in Nat /\ Len(q.todo) >= 1
    BY <1>3, <1>5, HeadTailProperties, LenProperties, EmptySeq
  <2>6. /\ list \in Seq(Documents)
        /\ ToSet(q.files) \subseteq ToSet(list) /\ FilesIn(Head(q.todo)) \subseteq ToSet(list)
    <3>1. /\ list \in Seq(Documents) /\ ToSet(q.files) \subseteq ToSet(list)
          /\ ToSet(found) \subseteq ToSet(list)
      BY <1>3, <2>1, <2>2, Appended
    <3>2. ToSet(found) = {found[i] : i \in 1..Len(found)} BY <2>1, Elements
    <3> QED BY <2>1, <3>1, <3>2
  <2>7. /\ on \in Request /\ on.pc = "list" /\ on.stale = q.stale /\ on.out = q.out
        /\ on.todo = Tail(q.todo) /\ on.files = list
    BY <1>2, <2>3, <2>5, <2>6 DEF Request
  <2>8. ASSUME Knows(q) PROVE Knows(on)
    <3> DEFINE n == Len(q.out) - Len(q.todo)
    <3>1. Remains(q.todo, q.out) /\ Listed(q.out, n, q.files) /\ Below(q.out, Len(q.out))
      BY <1>2, <2>8 DEF Knows
    <3>2. /\ n \in Nat /\ Len(q.out) \in Nat /\ Len(q.out) - Len(Tail(q.todo)) = n + 1
          /\ Len(Tail(q.todo)) <= Len(q.out)
      <4>1. Len(q.out) \in Nat /\ Len(q.todo) <= Len(q.out) BY <1>3, <3>1, LenProperties DEF Remains
      <4>2. Len(q.todo) \in Nat /\ Len(q.todo) >= 1 /\ Len(Tail(q.todo)) = Len(q.todo) - 1
        BY <2>5
      <4>3. \A L, T \in Nat : T <= L /\ T >= 1 =>
                L - T \in Nat /\ L - (T - 1) = (L - T) + 1 /\ T - 1 <= L
        OBVIOUS
      <4> QED BY <4>1, <4>2, <4>3, Zenon
    <3>3. \A k \in 1..Len(q.todo) : q.todo[k] = q.out[n + k] BY <3>1 DEF Remains
    <3> HIDE DEF n
    <3>4. \A k \in 1..Len(Tail(q.todo)) : Tail(q.todo)[k] = q.out[n + 1 + k]
      <4>1. ASSUME NEW k \in 1..Len(Tail(q.todo)) PROVE Tail(q.todo)[k] = q.out[n + 1 + k]
        <5>1. k + 1 \in 1..Len(q.todo) /\ k \in 1..(Len(q.todo) - 1) BY <2>5
        <5>2. Tail(q.todo)[k] = q.out[n + (k + 1)] BY <2>5, <3>3, <5>1
        <5> QED BY <3>2, <5>2
      <4> QED BY <4>1
    <3>5. Remains(Tail(q.todo), q.out)
      <4>2. \A k \in 1..Len(Tail(q.todo)) : n + 1 + k = Len(q.out) - Len(Tail(q.todo)) + k
        BY <2>5, <3>2
      <4> QED BY <3>2, <3>4, <4>2 DEF Remains
    <3>6. \A i \in 1..(n + 1) : FilesIn(q.out[i]) \subseteq ToSet(list)
      <4>1. q.out[n + 1] = Head(q.todo) BY <2>5, <3>2, <3>3
      <4>2. \A i \in 1..n : FilesIn(q.out[i]) \subseteq ToSet(list) BY <2>6, <3>1 DEF Listed
      <4> QED BY <2>6, <3>2, <4>1, <4>2
    <3> QED BY <2>7, <3>1, <3>2, <3>5, <3>6 DEF Knows, Listed
  <2> QED BY <1>2, <2>4, <2>7, <2>8, GotoKnows
<1> QED BY <1>4, <1>5

(***************************************************************************)
(* Writes into a place: what is moved or made there is reached from there. *)
(***************************************************************************)
LEMMA WriteEnds ==
    ASSUME KInv, TreeInv', NEW r \in Requests, req' = AfterWrite(r, Idle)
    PROVE  Knowing' /\ Started'
<1>1. req'[r] = Idle BY DEF AfterWrite
<1>2. Knows(req[r])' BY <1>1, IdleType DEF Knows
<1> QED BY <1>2, IdleType, WriteKnows DEF Collecting

\* What reaches every folder and file without a race.
Reached ==
    /\ \A f \in Folders : FolderExists(f) => Stands(parent[f])
    /\ \A x \in Documents : FileExists(x) => Stands(home[x])

LEMMA MovesKnow ==
    ASSUME KInv, TreeInv', NEW r \in Requests, MoveFolder(r) \/ MoveFile(r) PROVE KInv'
<1>1. PICK q \in Request : q = req[r] BY DEF KInv, TreeInv, TreeTypeOK
<1>2. q.pc \in {"move", "move_file"} /\ (q.stale \/ Stands(q.to))
  BY <1>1 DEF MoveFolder, MoveFile, KInv, Knowing, Knows
<1>3. req' = AfterWrite(r, Idle) /\ (raced' <=> raced \/ q.stale)
  BY <1>1 DEF MoveFolder, MoveFile, Stains
<1>4. NothingDangles'
  <2> SUFFICES ASSUME ~raced, ~q.stale PROVE Reached'
    BY <1>3 DEF NothingDangles, Reached, Stands
  <2>1. Reached /\ Stands(q.to) BY <1>2 DEF KInv, NothingDangles, Reached, Stands
  <2>2. UNCHANGED <<folderRow, fileRow>> BY DEF MoveFolder, MoveFile
  <2>3. /\ \A f \in Folders : FolderExists(f) => parent'[f] \in {parent[f], q.to}
        /\ \A x \in Documents : FileExists(x) => home'[x] \in {home[x], q.to}
    BY <1>1 DEF MoveFolder, MoveFile, KInv, TreeInv, TreeTypeOK
  <2> QED BY <2>1, <2>2, <2>3 DEF Reached, Stands, FolderExists, FileExists
<1> QED BY <1>3, <1>4, WriteEnds DEF KInv

LEMMA InsertsKnow ==
    ASSUME KInv, TreeInv', NEW r \in Requests, NEW g \in Folders,
           CreateFolder(r, g) \/ InsertFolder(r, g)
    PROVE  KInv'
<1>1. PICK q \in Request : q = req[r] BY DEF KInv, TreeInv, TreeTypeOK
<1>2. q.pc \in {"create", "insert"} /\ (q.stale \/ Stands(q.at))
  BY <1>1 DEF CreateFolder, InsertFolder, KInv, Knowing, Knows
<1>3. PICK next :
          /\ \/ CreateFolder(r, g) /\ next = Idle
             \/ next = [q EXCEPT !.pc = "path", !.at = g, !.names = Tail(q.names)]
          /\ Insert(r, g, next)
  BY <1>1 DEF CreateFolder, InsertFolder
<1>4. /\ folderRow' = [folderRow EXCEPT ![g] = "live"] /\ folderRow[g] = "unused"
      /\ parent' = [parent EXCEPT ![g] = q.at]
      /\ req' = AfterWrite(r, next) /\ UNCHANGED <<home, fileRow>>
      /\ (raced' <=> raced \/ q.stale)
  BY <1>1, <1>3 DEF Insert, Stains
<1>5. NothingDangles'
  <2> SUFFICES ASSUME ~raced, ~q.stale PROVE Reached'
    BY <1>4 DEF NothingDangles, Reached, Stands
  <2>1. Reached /\ Stands(q.at) BY <1>2 DEF KInv, NothingDangles, Reached, Stands
  <2>2. \A f \in Folders : /\ folderRow'[f] = IF f = g THEN "live" ELSE folderRow[f]
                           /\ parent'[f] = IF f = g THEN q.at ELSE parent[f]
    BY <1>4 DEF KInv, TreeInv, TreeTypeOK
  <2>3. q.at \in Places /\ \A f \in Folders : parent[f] \in Places
    BY DEF KInv, TreeInv, TreeTypeOK, Request
  <2>4. \A x \in Documents : home[x] \in Places BY DEF KInv, TreeInv, TreeTypeOK
  <2>5. \A p \in Places : Stands(p) => Stands(p)' BY <2>2 DEF Stands, FolderExists, Places
  <2>6. ASSUME NEW f \in Folders, FolderExists(f)' PROVE Stands(parent[f])'
    <3>1. Stands(parent'[f]) BY <2>1, <2>2, <2>6 DEF Reached, FolderExists
    <3>2. parent'[f] \in Places BY <2>2, <2>3
    <3> QED BY <2>2, <3>1, <3>2 DEF Stands, FolderExists, Places
  <2>7. ASSUME NEW x \in Documents, FileExists(x)' PROVE Stands(home[x])'
    <3>1. Stands(home[x]) BY <1>4, <2>1, <2>7 DEF Reached, FileExists
    <3> QED BY <1>4, <2>2, <2>4, <3>1 DEF Stands, FolderExists, Places
  <2> QED BY <2>6, <2>7 DEF Reached
<1>6. CASE next = Idle
  BY <1>4, <1>5, <1>6, WriteEnds DEF KInv
<1>7. CASE next = [q EXCEPT !.pc = "path", !.at = g, !.names = Tail(q.names)]
  <2>1. q.names \in Seq(Names) /\ q.names # <<>>
    BY <1>1, <1>2 DEF KInv, TreeInv, Slots, Slot, Request
  <2>2. Tail(q.names) \in Seq(Names) BY <2>1, HeadTailProperties
  <2>3. next \in Request /\ next.pc = "path" /\ next.at = g
    BY <1>7, <2>2 DEF Request, ReqPCs, Places
  <2>4. req'[r] = next BY <1>4 DEF AfterWrite
  <2>5. folderRow'[g] = "live" BY <1>4 DEF KInv, TreeInv, TreeTypeOK
  <2>6. Knows(req[r])' BY <2>3, <2>4, <2>5 DEF Knows, Stands, FolderExists
  <2> QED BY <1>4, <1>5, <2>3, <2>6, WriteKnows DEF KInv, Collecting
<1> QED BY <1>3, <1>6, <1>7

LEMMA SaveKnows ==
    ASSUME KInv, TreeInv', NEW r \in Requests, NEW x \in Documents, SaveFile(r, x) PROVE KInv'
<1>1. PICK q \in Request : q = req[r] BY DEF KInv, TreeInv, TreeTypeOK
<1>2. q.pc = "path" /\ (q.stale \/ Stands(q.at))
  BY <1>1 DEF SaveFile, KInv, Knowing, Knows
<1>3. /\ fileRow' = [fileRow EXCEPT ![x] = "live"] /\ home' = [home EXCEPT ![x] = q.at]
      /\ req' = AfterWrite(r, Idle) /\ (raced' <=> raced \/ q.stale)
      /\ UNCHANGED <<parent, folderRow>>
  BY <1>1 DEF SaveFile, Stains
<1>4. NothingDangles'
  <2> SUFFICES ASSUME ~raced, ~q.stale PROVE Reached'
    BY <1>3 DEF NothingDangles, Reached, Stands
  <2>1. Reached /\ Stands(q.at) BY <1>2 DEF KInv, NothingDangles, Reached, Stands
  <2>2. \A y \in Documents : /\ fileRow'[y] = IF y = x THEN "live" ELSE fileRow[y]
                             /\ home'[y] = IF y = x THEN q.at ELSE home[y]
    BY <1>3 DEF KInv, TreeInv, TreeTypeOK
  <2>3. \A y \in Documents : FileExists(y)' => Stands(home'[y])
    BY <2>1, <2>2 DEF Reached, FileExists
  <2> QED BY <1>3, <2>1, <2>3 DEF Reached, Stands, FolderExists, FileExists
<1> QED BY <1>3, <1>4, WriteEnds DEF KInv

(* Trash, restore and rename change no row's existence; a deleted file      *)
(* takes nothing with it.                                                   *)
LEMMA SameFolders ==
    ASSUME KInv, UNCHANGED <<parent, home>>, raced => raced',
           \A f \in Folders : FolderExists(f)' <=> FolderExists(f),
           \A x \in Documents : FileExists(x)' => FileExists(x)
    PROVE  NothingDangles'
<1> SUFFICES ASSUME ~raced PROVE Reached'
  BY DEF NothingDangles, Reached, Stands
<1>1. Reached BY DEF KInv, NothingDangles, Reached, Stands
<1>2. \A p \in Places : Stands(p) => Stands(p)' BY DEF Stands, Places
<1>3. /\ \A f \in Folders : parent[f] \in Places
      /\ \A x \in Documents : home[x] \in Places
  BY DEF KInv, TreeInv, TreeTypeOK
<1>4. \A f \in Folders : FolderExists(f)' => Stands(parent[f])'
  BY <1>1, <1>3 DEF Reached, Stands, Places
<1>5. \A x \in Documents : FileExists(x)' => Stands(home[x])'
  BY <1>1, <1>3 DEF Reached, Stands, Places
<1> QED BY <1>4, <1>5 DEF Reached

LEMMA TrashKnows ==
    ASSUME KInv, TreeInv', NEW r \in Requests,
           \/ TrashFolder(r)
           \/ \E f \in Folders, n \in Names : RenameFolder(r, f, n)
           \/ \E f \in Folders : RestoreFolder(r, f)
           \/ \E x \in Documents : TrashFile(r, x) \/ RestoreFile(r, x) \/ PermanentDeleteFile(r, x)
    PROVE  KInv'
<1>1. req' = AfterWrite(r, Idle) /\ UNCHANGED <<parent, home>> /\ (raced => raced')
  <2>1. ASSUME AtOnce(r) 
         PROVE req' = AfterWrite(r, Idle) /\ UNCHANGED <<parent, home>> /\ (raced => raced')
    BY <2>1 DEF AtOnce
  <2>2. CASE TrashFolder(r)
    BY <2>2 DEF TrashFolder, Stains
  <2> QED BY <2>1, <2>2 DEF RenameFolder, RestoreFolder, TrashFile, RestoreFile, PermanentDeleteFile
<1>2. folderRow \in [Folders -> Rows] /\ fileRow \in [Documents -> Rows]
  BY DEF KInv, TreeInv, TreeTypeOK
<1>3. /\ \A f \in Folders : FolderExists(f)' <=> FolderExists(f)
      /\ \A x \in Documents : FileExists(x)' => FileExists(x)
  <2>1. CASE TrashFolder(r)
    <3>1. PICK all : /\ folderRow' = [f \in Folders |->
                            IF f \in all /\ FolderExists(f) THEN "trashed" ELSE folderRow[f]]
                     /\ fileRow' = [x \in Documents |->
                            IF fileRow[x] = "live" /\ home[x] \in all THEN "trashed" ELSE fileRow[x]]
      BY <2>1 DEF TrashFolder
    <3> QED BY <1>2, <3>1 DEF FolderExists, FileExists
  <2>2. CASE \E f \in Folders, n \in Names : RenameFolder(r, f, n)
    BY <2>2 DEF RenameFolder, FolderExists, FileExists
  <2>3. ASSUME NEW f \in Folders, RestoreFolder(r, f)
        PROVE  /\ \A g \in Folders : FolderExists(g)' <=> FolderExists(g)
               /\ UNCHANGED fileRow
    BY <1>2, <2>3 DEF RestoreFolder, FolderExists
  <2>4. ASSUME NEW x \in Documents, TrashFile(r, x) \/ RestoreFile(r, x) \/ PermanentDeleteFile(r, x)
        PROVE  /\ \A y \in Documents : FileExists(y)' => FileExists(y)
               /\ UNCHANGED folderRow
    BY <1>2, <2>4 DEF TrashFile, RestoreFile, PermanentDeleteFile, FileExists
  <2> QED BY <2>1, <2>2, <2>3, <2>4 DEF FolderExists, FileExists
<1> QED BY <1>1, <1>3, SameFolders, WriteEnds DEF KInv

LEMMA DeleteFileKnows == ASSUME KInv, TreeInv', NEW r \in Requests, DeleteNextFile(r) PROVE KInv'
<1>1. PICK q \in Request : q = req[r] BY DEF KInv, TreeInv, TreeTypeOK
<1>2. q.pc = "files" /\ (q.stale \/ Knows(q)) /\ q.out # <<>>
  BY <1>1 DEF DeleteNextFile, KInv, Knowing, Started, Collecting
<1>3. q.files \in Seq(Documents) BY DEF Request
<1>4. CASE Goto(r, Idle) BY <1>4, IdleType, GotoKnows DEF Knows, Collecting
<1>5. CASE q.files = <<>> /\ Goto(r, [q EXCEPT !.pc = "folders"])
  <2>1. PICK end : end = [q EXCEPT !.pc = "folders"] OBVIOUS
  <2>2. end \in Request /\ end.pc = "folders" /\ end.stale = q.stale /\ end.out = q.out
    BY <2>1 DEF Request, ReqPCs
  <2>3. end.stale \/ Knows(end) BY <1>2, <1>5, <2>2 DEF Knows
  <2> QED BY <1>2, <1>5, <2>1, <2>2, <2>3, GotoKnows
<1>6. CASE /\ q.files # <<>>
           /\ fileRow' = [fileRow EXCEPT ![Head(q.files)] = "gone"]
           /\ req' = AfterWrite(r, [q EXCEPT !.files = Tail(q.files)]) /\ raced' = Stains(r)
           /\ UNCHANGED <<parent, folderRow, home>>
  <2>1. PICK on, x : on = [q EXCEPT !.files = Tail(q.files)] /\ x = Head(q.files) OBVIOUS
  <2>2. Tail(q.files) \in Seq(Documents) /\ x \in Documents
    BY <1>3, <1>6, <2>1, HeadTailProperties
  <2>3. /\ on \in Request /\ on.pc = "files" /\ on.stale = q.stale /\ on.out = q.out
        /\ on.files = Tail(q.files)
    BY <1>2, <2>1, <2>2 DEF Request
  <2>4. req'[r] = on BY <1>6, <2>1 DEF AfterWrite
  <2>5. \A y \in Documents : fileRow'[y] = IF y = x THEN "gone" ELSE fileRow[y]
    BY <1>6, <2>1 DEF KInv, TreeInv, TreeTypeOK
  <2>6. \A y \in ToSet(q.files) : y = x \/ y \in ToSet(Tail(q.files))
    <3>1. ASSUME NEW i \in 1..Len(q.files), q.files[i] # x PROVE q.files[i] \in ToSet(Tail(q.files))
      <4>1. i # 1 /\ Len(q.files) \in Nat BY <1>3, <2>1, <3>1, HeadTailProperties, LenProperties
      <4>2. /\ Len(Tail(q.files)) = Len(q.files) - 1
            /\ \A k \in 1..(Len(q.files) - 1) : Tail(q.files)[k] = q.files[k + 1]
        BY <1>3, <1>6, HeadTailProperties
      <4>3. PICK k \in 1..(Len(q.files) - 1) : i = k + 1
        <5>1. i - 1 \in 1..(Len(q.files) - 1) /\ i = (i - 1) + 1 BY <4>1
        <5> QED BY <5>1
      <4>4. k \in 1..Len(Tail(q.files)) /\ Tail(q.files)[k] = q.files[i] BY <4>2, <4>3
      <4> QED BY <2>2, <4>4, Elements
    <3> QED BY <1>3, <3>1, Elements
  <2>7. on.stale \/ Knows(req[r])'
    <3> SUFFICES ASSUME Knows(q) PROVE Knows(req[r])' BY <1>2, <2>3
    <3>1. Below(q.out, Len(q.out)) /\ Listed(q.out, Len(q.out), q.files) BY <1>2 DEF Knows
    <3>2. Below(req[r].out, Len(req[r].out))'
      BY <1>6, <2>3, <2>4, <3>1 DEF Below, ChildFolders, FolderExists
    <3>3. Listed(req[r].out, Len(req[r].out), req[r].files)'
      <4>1. ASSUME NEW i \in 1..Len(q.out), NEW y \in Documents, FileExists(y)', home[y] = q.out[i]
            PROVE  y \in ToSet(Tail(q.files))
        <5>1. y # x /\ FileExists(y) BY <2>5, <4>1 DEF FileExists
        <5>2. y \in FilesIn(q.out[i]) BY <4>1, <5>1 DEF FilesIn
        <5> QED BY <2>6, <3>1, <5>1, <5>2 DEF Listed
      <4> QED BY <1>6, <2>3, <2>4, <4>1 DEF Listed, FilesIn
    <3> QED BY <2>3, <2>4, <3>2, <3>3 DEF Knows
  <2>8. NothingDangles'
    <3>1. \A y \in Documents : FileExists(y)' => FileExists(y) BY <2>5 DEF FileExists
    <3>2. \A f \in Folders : FolderExists(f)' <=> FolderExists(f) BY <1>6 DEF FolderExists
    <3>3. raced => raced' BY <1>6 DEF Stains
    <3> QED BY <1>6, <3>1, <3>2, <3>3, SameFolders
  <2> QED BY <1>2, <1>6, <2>1, <2>3, <2>7, <2>8, WriteKnows DEF KInv
<1> QED BY <1>1, <1>4, <1>5, <1>6 DEF DeleteNextFile

(* The last of the collected folders holds nothing any more.                *)
LEMMA DeleteFolderKnows ==
    ASSUME KInv, TreeInv', NEW r \in Requests, DeleteLastFolder(r) PROVE KInv'
<1>1. PICK q \in Request : q = req[r] BY DEF KInv, TreeInv, TreeTypeOK
<1>2. q.pc = "folders" /\ (q.stale \/ Knows(q)) /\ q.out # <<>>
  BY <1>1 DEF DeleteLastFolder, KInv, Knowing, Started, Collecting
<1>3. q.out \in Seq(Folders) BY DEF Request
<1>4. PICK L : L = Len(q.out) OBVIOUS
<1>5. PICK last : last = q.out[L] OBVIOUS
<1>6. L \in Nat /\ L >= 1 /\ last \in Folders /\ Last(q.out) = last
  BY <1>2, <1>3, <1>4, <1>5, LenProperties, EmptySeq, ElementOfSeq DEF Last
<1>7. /\ Front(q.out) \in Seq(Folders) /\ Len(Front(q.out)) = L - 1
      /\ \A i \in 1..(L - 1) : Front(q.out)[i] = q.out[i]
  BY <1>3, <1>4, <1>6, SubSeqProperties DEF Front
<1>8. PICK on : on = [q EXCEPT !.out = Front(q.out)] OBVIOUS
<1>9. PICK next : next = IF L = 1 THEN Idle ELSE on OBVIOUS
<1>10. /\ folderRow' = [folderRow EXCEPT ![last] = "gone"]
       /\ req' = AfterWrite(r, next) /\ (raced' <=> raced \/ q.stale)
       /\ UNCHANGED <<parent, home, fileRow>>
  BY <1>1, <1>4, <1>6, <1>8, <1>9 DEF DeleteLastFolder, Stains
<1>11. /\ on \in Request /\ on.pc = "folders" /\ on.stale = q.stale /\ on.out = Front(q.out)
  BY <1>2, <1>7, <1>8 DEF Request
<1>12. \A f \in Folders : folderRow'[f] = IF f = last THEN "gone" ELSE folderRow[f]
  BY <1>10 DEF KInv, TreeInv, TreeTypeOK
<1>13. req'[r] = next BY <1>10 DEF AfterWrite
<1>14. ASSUME Knows(q), L # 1 PROVE Knows(req[r])'
  <2>1. req'[r] = on BY <1>9, <1>13, <1>14
  <2>2. Below(q.out, L) /\ Listed(q.out, L, <<>>) BY <1>2, <1>4, <1>14 DEF Knows
  <2>3. Listed(req[r].out, Len(req[r].out), <<>>)'
    BY <1>6, <1>7, <1>10, <1>11, <2>1, <2>2 DEF Listed, FilesIn, FileExists
  <2>4. ASSUME NEW i \in 1..(L - 1), NEW c \in Folders, FolderExists(c)', parent[c] = q.out[i]
        PROVE  \E j \in (i + 1)..(L - 1) : q.out[j] = c
    <3>1. c # last /\ FolderExists(c) BY <1>12, <2>4 DEF FolderExists
    <3>2. c \in ChildFolders(q.out[i]) BY <2>4, <3>1 DEF ChildFolders
    <3>3. PICK j \in (i + 1)..L : q.out[j] = c
      <4>1. i \in 1..L BY <1>6
      <4> QED BY <1>4, <2>2, <3>2, <4>1 DEF Below
    <3>4. j # L BY <1>5, <3>1, <3>3
    <3> QED BY <1>6, <3>3, <3>4
  <2>5. Below(req[r].out, Len(req[r].out))'
    <3>1. \A i \in 1..(L - 1) : \A c \in Folders :
              FolderExists(c)' /\ parent[c] = q.out[i]
                  => \E j \in (i + 1)..(L - 1) : Front(q.out)[j] = c
      BY <1>6, <1>7, <2>4
    <3> QED BY <1>6, <1>7, <1>10, <1>11, <2>1, <3>1 DEF Below, ChildFolders
  <2> QED BY <1>11, <2>1, <2>3, <2>5 DEF Knows
<1>15. NothingDangles'
  <2> SUFFICES ASSUME ~raced, ~q.stale PROVE Reached'
    BY <1>10 DEF NothingDangles, Reached, Stands
  <2>1. Reached /\ Below(q.out, L) /\ Listed(q.out, L, <<>>)
    BY <1>2, <1>4 DEF Knows, KInv, NothingDangles, Reached, Stands
  <2>2. ChildFolders(last) = {} /\ FilesIn(last) = {}
    <3>1. L \in 1..L /\ (L + 1)..L = {} BY <1>6
    <3>2. \A c \in ChildFolders(last) : FALSE BY <1>4, <1>5, <2>1, <3>1 DEF Below
    <3>3. ToSet(<<>>) = {} BY DEF ToSet
    <3>4. FilesIn(last) \subseteq {} BY <1>5, <2>1, <3>1, <3>3 DEF Listed
    <3> QED BY <3>2, <3>4
  <2>3. /\ \A f \in Folders : FolderExists(f) => parent[f] # last
        /\ \A x \in Documents : FileExists(x) => home[x] # last
    BY <2>2 DEF ChildFolders, FilesIn
  <2>4. /\ \A f \in Folders : parent[f] \in Places
        /\ \A x \in Documents : home[x] \in Places
    BY DEF KInv, TreeInv, TreeTypeOK
  <2>5. \A p \in Places : Stands(p) /\ p # last => Stands(p)'
    BY <1>12 DEF Stands, FolderExists, Places
  <2>6. \A f \in Folders : FolderExists(f)' => FolderExists(f)
    BY <1>12 DEF FolderExists
  <2>7. ASSUME NEW f \in Folders, FolderExists(f)' PROVE Stands(parent[f])'
    <3>1. Stands(parent[f]) /\ parent[f] # last BY <2>1, <2>3, <2>6, <2>7 DEF Reached
    <3> QED BY <1>10, <1>12, <2>4, <3>1 DEF Stands, FolderExists, Places
  <2>8. ASSUME NEW x \in Documents, FileExists(x)' PROVE Stands(home[x])'
    <3>1. Stands(home[x]) /\ home[x] # last BY <1>10, <2>1, <2>3, <2>8 DEF Reached, FileExists
    <3> QED BY <1>10, <1>12, <2>4, <3>1 DEF Stands, FolderExists, Places
  <2> QED BY <2>7, <2>8 DEF Reached
<1>16. CASE L = 1
  BY <1>9, <1>10, <1>15, <1>16, WriteEnds DEF KInv
<1>17. CASE L # 1
  <2>1. Front(q.out) # <<>> BY <1>6, <1>7, <1>17, LenProperties, EmptySeq
  <2>2. next = on BY <1>9, <1>17
  <2>3. on.stale \/ Knows(req[r])' BY <1>2, <1>11, <1>14, <1>17
  <2> QED BY <1>10, <1>11, <1>15, <2>1, <2>2, <2>3, WriteKnows DEF KInv
<1> QED BY <1>16, <1>17

LEMMA NextKInv == ASSUME KInv, [TreeNext]_treeVars PROVE KInv'
<1>0. TreeInv' BY NextTree DEF KInv
<1>1. ASSUME NEW r \in Requests, TreeStep(r) PROVE KInv'
  BY <1>0, <1>1, OpsKnow, WalkKnows, PathKnows, CollectKnows, ListKnows, FailKnows, MovesKnow,
     InsertsKnow, SaveKnows, TrashKnows, DeleteFileKnows, DeleteFolderKnows
     DEF TreeStep
<1>2. CASE UNCHANGED treeVars
  <2> SUFFICES ASSUME NEW r \in Requests PROVE KInv'
    BY <1>0, <1>2 DEF KInv, Knowing, Started, NothingDangles, FolderExists, FileExists, treeVars
  <2>1. PICK q \in Request : q = req[r] BY DEF KInv, TreeInv, TreeTypeOK
  <2>2. req' = [req EXCEPT ![r] = q] /\ UNCHANGED <<rows, raced>>
    BY <1>2, <2>1 DEF treeVars, rows, KInv, TreeInv, TreeTypeOK
  <2>3. (q.stale \/ Knows(q)) /\ (q.pc \in Collecting => q.out # <<>>)
    BY <2>1 DEF KInv, Knowing, Started
  <2> QED BY <1>0, <2>2, <2>3, ReadKnows
<1> QED BY <1>1, <1>2 DEF TreeNext

(* What a request knows of the rows it has read stays true.                 *)
THEOREM KnowledgeHolds == TreeSpec => []KInv
<1>1. TreeInit => KInv
  <2> SUFFICES ASSUME TreeInit PROVE KInv OBVIOUS
  <2>1. Knowing /\ Started BY IdleType DEF TreeInit, Knowing, Started, Knows, Collecting
  <2>2. NothingDangles
    BY DEF TreeInit, NothingDangles, FolderExists, FileExists, FolderLive
  <2> QED BY <2>1, <2>2, InitTree DEF KInv
<1> QED BY <1>1, NextKInv, PTL DEF TreeSpec

(* Whatever is moved, trashed, restored or deleted, and wherever a deletion *)
(* stops: without a race no folder and no file is left in a folder whose    *)
(* row is gone.                                                             *)
THEOREM TreesStayReachable == TreeSpec => []NothingDangles
<1>1. KInv => NothingDangles BY DEF KInv
<1> QED BY KnowledgeHolds, <1>1, PTL

(* A trash that no other write came in between takes the whole subtree.     *)
THEOREM TrashTakesAll == TreeSpec => TrashTakesTheTree
<1> DEFINE Takes(r) ==
        /\ req[r].pc = "trash" /\ ~req[r].stale
        /\ req'[r].pc = "idle" /\ folderRow' # folderRow
        =>
        /\ \A f \in Folders : InSubtree(f, req[r].id) => folderRow'[f] # "live"
        /\ \A x \in Documents : home[x] \in Folders /\ InSubtree(home[x], req[r].id)
                                    => fileRow'[x] # "live"
<1>1. ASSUME KInv, [TreeNext]_treeVars, NEW r \in Requests PROVE Takes(r)
  <2> SUFFICES ASSUME req[r].pc = "trash", ~req[r].stale, req'[r].pc = "idle",
                      folderRow' # folderRow
               PROVE  /\ \A f \in Folders : InSubtree(f, req[r].id) => folderRow'[f] # "live"
                      /\ \A x \in Documents : home[x] \in Folders /\ InSubtree(home[x], req[r].id)
                                                  => fileRow'[x] # "live"
    OBVIOUS
  <2>1. PICK q \in Request : q = req[r] BY <1>1 DEF KInv, TreeInv, TreeTypeOK
  <2>2. Below(q.out, Len(q.out)) /\ q.id \in ToSet(q.out)
    BY <1>1, <2>1 DEF KInv, Knowing, Knows
  <2>3. q.out \in Seq(Folders) BY DEF Request
  <2>4. TrashFolder(r)
    <3>1. PICK s \in Requests : TreeStep(s) BY <1>1 DEF TreeNext, treeVars
    <3>2. s = r
      <4>1. SUFFICES ASSUME s # r PROVE FALSE OBVIOUS
      <4>2. CASE req' = AfterWrite(s, Idle) \/ \E p : req' = AfterWrite(s, p)
        <5>1. req'[r] = [req[r] EXCEPT !.stale = (req[r].pc # "idle")]
          BY <4>1, <4>2 DEF AfterWrite
        <5>2. req'[r].pc = req[r].pc BY <2>1, <5>1 DEF Request
        <5> QED BY <5>2
      <4> QED
        BY <3>1, <4>1, <4>2
           DEF TreeStep, BeginOp, BeginMoveFolder, BeginMoveFile, BeginCreateFolder, BeginUpload,
               BeginTree, Begin, Goto, Walk, MoveFolder, MoveFile, CreateFolder, InsertFolder,
               Insert, FindFolder, MissFolder, SaveFile, Collect, TrashFolder, ListFiles,
               DeleteNextFile, DeleteLastFolder, RenameFolder, RestoreFolder, TrashFile,
               RestoreFile, PermanentDeleteFile, AtOnce, Fail, rows
    <3> QED
      BY <3>1, <3>2
         DEF TreeStep, BeginOp, BeginMoveFolder, BeginMoveFile, BeginCreateFolder, BeginUpload,
             BeginTree, Begin, Walk, MoveFolder, MoveFile, CreateFolder, InsertFolder,
             FindFolder, MissFolder, SaveFile, Collect, ListFiles, DeleteNextFile,
             DeleteLastFolder, RenameFolder, RestoreFolder, TrashFile, RestoreFile,
             PermanentDeleteFile, AtOnce, Fail, rows
  <2>5. \A x \in Folders : InSubtree(x, q.id) => x \in ToSet(q.out)
    <3>1. ToSet(q.out) = {q.out[i] : i \in 1..Len(q.out)} BY <2>3, Elements
    <3>2. Len(q.out) \in Nat BY <2>3, LenProperties
    <3>3. \A g \in ToSet(q.out) : ChildFolders(g) \subseteq ToSet(q.out)
      <4>1. ASSUME NEW i \in 1..Len(q.out), NEW c \in ChildFolders(q.out[i])
            PROVE  c \in ToSet(q.out)
        <5>1. PICK j \in (i + 1)..Len(q.out) : q.out[j] = c BY <2>2 DEF Below
        <5>2. j \in 1..Len(q.out) BY <3>2
        <5> QED BY <3>1, <5>1, <5>2
      <4> QED BY <3>1, <4>1
    <3>4. ToSet(q.out) \in SUBSET Folders BY <2>3, <3>1, ElementOfSeq
    <3> QED BY <2>2, <3>3, <3>4 DEF InSubtree
  <2>6. /\ \A f \in ToSet(q.out) : f \in Folders => folderRow'[f] # "live"
        /\ \A x \in Documents : home[x] \in ToSet(q.out) => fileRow'[x] # "live"
    BY <2>1, <2>4 DEF TrashFolder, FolderExists
  <2> QED BY <2>1, <2>5, <2>6
<1>2. KInv /\ [TreeNext]_treeVars => \A r \in Requests : Takes(r) BY <1>1
<1> QED BY <1>2, KnowledgeHolds, PTL DEF TreeSpec, TrashTakesTheTree

=============================================================================

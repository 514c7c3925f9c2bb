----------------------------- MODULE MCMetadata -----------------------------
(***************************************************************************)
(* The tables of the drive side by side: the folder tree, a synced folder, *)
(* the shared links, and the accounts.  No statement of one touches the    *)
(* tables of another (what a link or a synced folder sees of the tree is a *)
(* choice inside its own module), so a behaviour moves one part and TLC    *)
(* adds the state spaces up instead of multiplying them.                   *)
(***************************************************************************)
EXTENDS DriveTree, SyncFolders, Shares, Accounts

CONSTANTS f1, f2, f3, name1, u1, u2, d1, d2

VARIABLE part   \* the part that moves

metadataVars == <<treeVars, syncVars, shareVars, accountVars, part>>

\* Ids are drawn in the order f1, f2, f3, and a folder is younger than its
\* parent: every tree, up to the names of its ids.
Age(f) == CASE f = Root -> 0 [] f = f1 -> 1 [] f = f2 -> 2 [] f = f3 -> 3
InOrder ==
    \A f \in Folders :
        /\ title[f] = name1
        /\ Age(parent[f]) < Age(f)
        /\ folderRow[f] = "unused" =>
               \A g \in Folders : Age(g) > Age(f) => folderRow[g] = "unused"
\* Ids that are drawn later come later in this order too; which of the unused
\* ones is drawn makes no difference to any module.
DrawnInOrder ==
    /\ \A f, g \in Folders : Age(g) > Age(f) /\ folderRow[f] = "unused" => folderRow[g] = "unused"
    /\ accounts # {u2}
    /\ device[d1] = NoDevice => device[d2] = NoDevice

NothingStored ==
    /\ folderRow = [f \in Folders |-> "unused"] /\ fileRow = [x \in Documents |-> "unused"]
    /\ parent = [f \in Folders |-> Root] /\ home = [x \in Documents |-> Root]
    /\ title = [f \in Folders |-> name1]

MetadataInit ==
    /\ part \in {"tree", "sync", "shares", "accounts"}
    /\ \/ part = "tree" /\ TreeInit /\ InOrder
       \/ part # "tree" /\ NothingStored /\ TreeInit
    /\ \/ part = "sync" /\ SyncInit
       \/ part # "sync" /\ disk = [p \in Paths |-> Absent] /\ SyncInit
    /\ SharesInit /\ AccountsInit

MetadataNext ==
    \/ part = "tree" /\ TreeNext /\ UNCHANGED <<syncVars, shareVars, accountVars, part>>
    \/ part = "sync" /\ SyncNext /\ UNCHANGED <<treeVars, shareVars, accountVars, part>>
    \/ part = "shares" /\ SharesNext /\ UNCHANGED <<treeVars, syncVars, accountVars, part>>
    \/ part = "accounts" /\ AccountsNext /\ UNCHANGED <<treeVars, syncVars, shareVars, part>>

MetadataSpec == MetadataInit /\ [][MetadataNext]_metadataVars

\* The type invariants of the four modules, each where its part can change.
MetadataTypeOK ==
    /\ part = "tree" => TreeTypeOK
    /\ part = "sync" => SyncTypeOK
    /\ part = "shares" => SharesTypeOK
    /\ part = "accounts" => AccountsTypeOK

=============================================================================

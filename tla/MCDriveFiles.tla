---------------------------- MODULE MCDriveFiles ----------------------------
(* Instances of DriveFiles for TLC.                                         *)
EXTENDS DriveFiles, TLC

CONSTANTS f1, f2, worker, request, r1, r2, c1, h1, h2

SameContent == [f \in Files |-> h1]

(* Only f1 lies in a folder the user syncs; f2 can only be uploaded.        *)
OneFolderInit == Init /\ source[f2] = "absent"
OneFolderSpec ==
    /\ OneFolderInit /\ [][Next]_vars
    /\ Fairness /\ \A p \in Passes : SF_vars(PassUpload(p))
=============================================================================

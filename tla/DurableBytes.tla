---------------------------- MODULE DurableBytes ----------------------------
(***************************************************************************)
(* What the drive promises about the bytes of an uploaded file: from the   *)
(* moment the upload is answered until the file is permanently deleted     *)
(* there is always a whole copy, in the local cache or on Telegram, and a  *)
(* new copy is only ever made from one that exists.                        *)
(***************************************************************************)
CONSTANT Files

VARIABLES
    status,  \* "new", "kept" or "gone"
    copies   \* where whole copies of the file are

Places == {"local", "cloud"}

TypeOK ==
    /\ status \in [Files -> {"new", "kept", "gone"}]
    /\ copies \in [Files -> SUBSET Places]

Init ==
    /\ status = [f \in Files |-> "new"]
    /\ copies = [f \in Files |-> {}]

(* The upload is answered: its bytes are in the cache.                      *)
Accept(f) ==
    /\ status[f] = "new"
    /\ status' = [status EXCEPT ![f] = "kept"]
    /\ copies' = [copies EXCEPT ![f] = {"local"}]

(* Synced to Telegram, or fetched back from it.                             *)
Copy(f, w) ==
    /\ status[f] = "kept" /\ copies[f] # {}
    /\ copies' = [copies EXCEPT ![f] = @ \cup {w}]
    /\ UNCHANGED status

(* Evicted, or truncated by a restore: never the last copy.                 *)
Drop(f, w) ==
    /\ status[f] = "kept" /\ copies[f] \ {w} # {}
    /\ copies' = [copies EXCEPT ![f] = @ \ {w}]
    /\ UNCHANGED status

(* Permanently deleted.                                                     *)
Discard(f) ==
    /\ status[f] = "kept"
    /\ status' = [status EXCEPT ![f] = "gone"]
    /\ copies' = [copies EXCEPT ![f] = {}]

Next == \E f \in Files : Accept(f) \/ Discard(f) \/ \E w \in Places : Copy(f, w) \/ Drop(f, w)

Spec == Init /\ [][Next]_<<status, copies>>
=============================================================================

---------------------------- MODULE MCTransfers ----------------------------
(***************************************************************************)
(* What is fetched from Telegram: the ranges that are streamed, and the    *)
(* files of the storage channel.  The two share no state, so a behaviour   *)
(* moves one of them and TLC adds the state spaces up.                     *)
(***************************************************************************)
EXTENDS ChunkCache, ChannelImport

VARIABLE transfer   \* the part that moves

transfersVars == <<chunkVars, importVars, transfer>>

TransfersInit == transfer \in {"ranges", "import"} /\ ChunkInit /\ ImportInit

TransfersNext ==
    \/ transfer = "ranges" /\ ChunkNext /\ UNCHANGED <<importVars, transfer>>
    \/ transfer = "import" /\ ImportNext /\ UNCHANGED <<chunkVars, transfer>>

TransfersSpec ==
    TransfersInit /\ [][TransfersNext]_transfersVars /\ ChunkFairness /\ ImportFairness

\* The type invariants of the two modules.
TransfersTypeOK == ChunkTypeOK /\ ImportTypeOK

=============================================================================

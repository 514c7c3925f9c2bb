----------------------------- MODULE MCServices -----------------------------
(***************************************************************************)
(* The agent's services side by side: the virtual drive's files, the mount *)
(* manager, the tunnel, and the login to Telegram.  They share no state,   *)
(* so a behaviour moves one of them and TLC adds the state spaces up.      *)
(***************************************************************************)
EXTENDS MountedDrive, Mounts, Tunnel, TelegramLogin

VARIABLE service   \* the part that moves

servicesVars == <<mountedVars, mountsVars, tunnelVars, loginVars, service>>

ServicesInit ==
    /\ service \in {"drive", "mounts", "tunnel", "login"}
    /\ MountedInit /\ MountsInit /\ TunnelInit /\ LoginInit

ServicesNext ==
    \/ service = "drive" /\ MountedNext
       /\ UNCHANGED <<mountsVars, tunnelVars, loginVars, service>>
    \/ service = "mounts" /\ MountsNext
       /\ UNCHANGED <<mountedVars, tunnelVars, loginVars, service>>
    \/ service = "tunnel" /\ TunnelNext
       /\ UNCHANGED <<mountedVars, mountsVars, loginVars, service>>
    \/ service = "login" /\ LoginNext
       /\ UNCHANGED <<mountedVars, mountsVars, tunnelVars, service>>

ServicesSpec ==
    ServicesInit /\ [][ServicesNext]_servicesVars /\ MountsFairness /\ LoginFairness

\* The type invariants of the four modules.
ServicesTypeOK == MountedTypeOK /\ MountsTypeOK /\ TunnelTypeOK /\ LoginTypeOK

=============================================================================

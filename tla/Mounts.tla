------------------------------- MODULE Mounts -------------------------------
(***************************************************************************)
(* The mount manager (internal/vfs/manager.go) and the FUSE mounter under  *)
(* it (fuseMounter in platform_fuse.go).  A mount is tried by a goroutine  *)
(* that stays in the host's Mount for as long as the drive is served; the  *)
(* request that asked for it polls a flag, and gives up after a deadline   *)
(* or with its client.  Pairing the desktop swaps the mounter meanwhile.   *)
(***************************************************************************)
EXTENDS Integers

CONSTANTS
    NumMounters,   \* bound of the model: mounters built, the first one included
    NumAttempts,   \* bound of the model: calls of Manager.Mount that get through
    MaxUnmounts    \* bound of the model: calls of Manager.Unmount

ASSUME MountsAssumption ==
    NumMounters \in Nat \ {0} /\ NumAttempts \in Nat /\ MaxUnmounts \in Nat

Mounters == 1..NumMounters
Attempts == 1..NumAttempts

VARIABLES
    flag,      \* fuseMounter.mounted, set before the host mounts
    hostUp,    \* the host serves the file system
    mounter,   \* Manager.mounter
    mounting,  \* Manager.mounting
    cancel,    \* Manager.cancel: the attempt whose context it ends, or 0
    attempt,   \* calls of Manager.Mount
    engine,    \* their goroutines, in fuseMounter.Mount
    ended,     \* attempts whose context is done
    unmount,   \* the call of Manager.Unmount in progress
    unmounts,
    switch     \* the call of Manager.SwitchBackend in progress

managerVars == <<mounter, mounting, cancel>>
mountsVars == <<flag, hostUp, mounter, mounting, cancel, attempt, engine, ended, unmount,
                unmounts, switch>>

MountsTypeOK ==
    /\ flag \in [Mounters -> BOOLEAN] /\ hostUp \in [Mounters -> BOOLEAN]
    /\ mounter \in Mounters /\ mounting \in BOOLEAN /\ cancel \in 0..NumAttempts
    /\ attempt \in [Attempts -> {"none", "waiting", "switching", "done"}]
    /\ engine \in [Attempts -> [pc : {"none", "spawned", "checked", "hosting", "serving", "returned"},
                                on : Mounters, watched : BOOLEAN]]
    /\ ended \in SUBSET Attempts
    /\ unmount \in 0..NumMounters /\ unmounts \in 0..MaxUnmounts
    /\ switch \in {"none", "unmount", "swap", "mount"}

MountsInit ==
    /\ flag = [m \in Mounters |-> FALSE] /\ hostUp = [m \in Mounters |-> FALSE]
    /\ mounter = 1 /\ mounting = FALSE /\ cancel = 0
    /\ attempt = [a \in Attempts |-> "none"]
    /\ engine = [a \in Attempts |-> [pc |-> "none", on |-> 1, watched |-> FALSE]]
    /\ ended = {} /\ unmount = 0 /\ unmounts = 0 /\ switch = "none"

(***************************************************************************)
(* Manager.Mount.                                                          *)
(***************************************************************************)
\* It refuses while another attempt runs or the drive is mounted.  The caller
\* is a client that may go away ("waiting") or SwitchBackend ("switching").
Admit(a, caller) ==
    /\ attempt[a] = "none" /\ \A b \in 1..(a - 1) : attempt[b] # "none"
    /\ ~mounting /\ ~flag[mounter]
    /\ mounting' = TRUE /\ cancel' = a
    /\ attempt' = [attempt EXCEPT ![a] = caller]
    /\ engine' = [engine EXCEPT ![a].pc = "spawned"]
    /\ UNCHANGED <<flag, hostUp, mounter, ended, unmount, unmounts>>

Mount(a) == Admit(a, "waiting") /\ UNCHANGED switch

Return(a) ==
    /\ attempt[a] \in {"waiting", "switching"}
    /\ attempt' = [attempt EXCEPT ![a] = "done"]
    /\ UNCHANGED <<flag, hostUp, mounter, cancel, engine, unmount, unmounts, switch>>

\* The poll sees the flag of whatever mounter the manager has by now, or the
\* goroutine has returned.
SeeResult(a) ==
    /\ flag[mounter] \/ engine[a].pc = "returned"
    /\ Return(a) /\ mounting' = FALSE /\ UNCHANGED ended

\* Seeded fault: this way out leaves the flag set.
DeadlineForgets(a) == Return(a) /\ UNCHANGED <<mounting, ended>>

\* Eight seconds are over; the goroutine goes on.
Deadline(a) == Return(a) /\ mounting' = FALSE /\ UNCHANGED ended

\* The client has gone away: its context ends the mount too.
ClientLeaves(a) ==
    attempt[a] = "waiting" /\ Return(a) /\ mounting' = FALSE /\ ended' = ended \cup {a}

(***************************************************************************)
(* fuseMounter.Mount.                                                      *)
(***************************************************************************)
Engine(a, from, fields) ==
    /\ engine[a].pc = from
    /\ engine' = [engine EXCEPT ![a] = fields]
    /\ UNCHANGED <<managerVars, attempt, ended, unmount, unmounts, switch>>

CheckFlag(a) ==
    /\ Engine(a, "spawned", [engine[a] EXCEPT !.on = mounter,
                                 !.pc = IF flag[mounter] THEN "returned" ELSE "checked"])
    /\ UNCHANGED <<flag, hostUp>>

SetFlag(a) ==
    /\ Engine(a, "checked", [engine[a] EXCEPT !.pc = "hosting", !.watched = TRUE])
    /\ flag' = [flag EXCEPT ![engine[a].on] = TRUE]
    /\ UNCHANGED hostUp

HostMounts(a) ==
    LET m == engine[a].on IN
    \/ /\ ~hostUp[m]
       /\ Engine(a, "hosting", [engine[a] EXCEPT !.pc = "serving"])
       /\ hostUp' = [hostUp EXCEPT ![m] = TRUE]
       /\ UNCHANGED flag
    \/ /\ Engine(a, "hosting", [engine[a] EXCEPT !.pc = "returned"])
       /\ flag' = [flag EXCEPT ![m] = FALSE]
       /\ UNCHANGED hostUp

HostReturns(a) ==
    /\ ~hostUp[engine[a].on]
    /\ Engine(a, "serving", [engine[a] EXCEPT !.pc = "returned"])
    /\ flag' = [flag EXCEPT ![engine[a].on] = FALSE]
    /\ UNCHANGED hostUp

\* The goroutine that waits for the context: it unmounts, or fails to where
\* the host has not mounted yet, and clears the flag.
ContextEnds(a) ==
    /\ a \in ended /\ engine[a].watched
    /\ engine' = [engine EXCEPT ![a].watched = FALSE]
    /\ hostUp' = [hostUp EXCEPT ![engine[a].on] = FALSE]
    /\ flag' = [flag EXCEPT ![engine[a].on] = FALSE]
    /\ UNCHANGED <<managerVars, attempt, ended, unmount, unmounts, switch>>

\* Ejected by the user, outside the agent.
Eject(m) ==
    /\ hostUp[m] /\ hostUp' = [hostUp EXCEPT ![m] = FALSE]
    /\ UNCHANGED <<flag, managerVars, attempt, engine, ended, unmount, unmounts, switch>>

(***************************************************************************)
(* Manager.Unmount and SwitchBackend.                                      *)
(***************************************************************************)
TakeCancel ==
    /\ unmount = 0 /\ unmounts < MaxUnmounts
    /\ unmount' = mounter /\ unmounts' = unmounts + 1
    /\ cancel' = 0 /\ ended' = ended \cup ({cancel} \ {0})
    /\ UNCHANGED <<flag, hostUp, mounter, mounting, attempt, engine>>

BeginUnmount == TakeCancel /\ UNCHANGED switch

\* fuseMounter.Unmount: no error if the flag is down, one if the host is.
FinishUnmount ==
    /\ unmount # 0 /\ unmount' = 0
    /\ flag' = [flag EXCEPT ![unmount] = @ /\ ~hostUp[unmount]]
    /\ hostUp' = [hostUp EXCEPT ![unmount] = @ /\ ~flag[unmount]]
    /\ switch' = IF switch = "unmount" THEN "swap" ELSE switch
    /\ UNCHANGED <<managerVars, attempt, engine, ended, unmounts>>

BeginSwitch ==
    /\ switch = "none"
    /\ \/ flag[mounter] /\ switch' = "unmount" /\ TakeCancel
       \/ ~flag[mounter] /\ switch' = "swap"
          /\ UNCHANGED <<flag, hostUp, managerVars, attempt, engine, ended, unmount, unmounts>>

\* The mounter is replaced whatever attempt is running on the old one.
SwapMounter ==
    /\ switch = "swap" /\ mounter < NumMounters
    /\ mounter' = mounter + 1 /\ switch' = "mount"
    /\ UNCHANGED <<flag, hostUp, mounting, cancel, attempt, engine, ended, unmount, unmounts>>

\* Manager.Mount of the new mounter, which may be refused.
SwitchMounts ==
    /\ switch = "mount" /\ switch' = "none"
    /\ \/ \E a \in Attempts : Admit(a, "switching")
       \/ /\ mounting \/ flag[mounter]
          /\ UNCHANGED <<flag, hostUp, managerVars, attempt, engine, ended, unmount, unmounts>>

AttemptStep(a) == SeeResult(a) \/ Deadline(a) \/ ClientLeaves(a)

EngineStep(a) ==
    CheckFlag(a) \/ SetFlag(a) \/ HostMounts(a) \/ HostReturns(a) \/ ContextEnds(a)

MountsNext ==
    \/ \E a \in Attempts : Mount(a) \/ AttemptStep(a) \/ EngineStep(a)
    \/ \E m \in Mounters : Eject(m)
    \/ BeginUnmount \/ FinishUnmount \/ BeginSwitch \/ SwapMounter \/ SwitchMounts

\* The timer of a waiting request fires and its goroutine is scheduled; of
\* the host nothing is assumed, its Mount may hang for ever.
MountsFairness == \A a \in Attempts : WF_mountsVars(Deadline(a))

MountsSpec == MountsInit /\ [][MountsNext]_mountsVars /\ MountsFairness

(***************************************************************************)
(* Properties.                                                             *)
(***************************************************************************)

\* The manager does not stay in "mounting", in which it would refuse every
\* later mount: each way out of an attempt takes the flag back, also when the
\* host hangs, the mounter was replaced or the client left.
MountEnds == mounting ~> ~mounting

=============================================================================

--------------------------- MODULE ServicesProofs ---------------------------
(***************************************************************************)
(* What the agent's services guarantee for any files, names, handles,      *)
(* mounts, processes and requests, and that running them side by side      *)
(* (MCServices) changes none of it.                                        *)
(***************************************************************************)
EXTENDS MCServices, SequenceTheorems, WellFoundedInduction, TLAPS

(***************************************************************************)
(* Tunnel.  While nobody starts a tunnel before the last one is over, no   *)
(* process but the current one has anything left to say.                   *)
(***************************************************************************)
\* Without haste every process but the current one is over.
OthersAreOver == hasty \/ \A p \in Processes : p = current \/ Over(p)

\* The drive's copy is the service's status, and its address the current one's.
CopyIsTrue == known = status /\ (hasty \/ (status.active => status.url \in {0, current}))

TunnelInv == TunnelTypeOK /\ OthersAreOver /\ CopyIsTrue /\ StatusTellsTheTruth

(* Nothing runs at first.                                                   *)
LEMMA InitTunnel == ASSUME TunnelInit PROVE TunnelInv
<1> USE TunnelAssumption DEF TunnelInit
<1>1. TunnelTypeOK
  <2>1. process \in [Processes -> {"none", "running", "dead", "reaped"}]
        /\ output \in [Processes -> {"none", "printed", "read", "closed"}]
        /\ current \in 0..NumProcesses /\ saves \in 0..MaxSaves
    OBVIOUS
  <2>2. status \in Status /\ known \in Status BY DEF Status
  <2>3. config \in Config /\ saving \in [busy : BOOLEAN, mode : Modes, healthy : BOOLEAN]
    BY DEF Config, Modes
  <2>4. hasty \in BOOLEAN BY Zenon
  <2> QED BY <2>1, <2>2, <2>3, <2>4 DEF TunnelTypeOK
<1>2. status.active = FALSE BY DEF TunnelInit
<1>3. OthersAreOver BY DEF OthersAreOver, Over
<1>4. CopyIsTrue BY <1>2 DEF CopyIsTrue
<1>5. StatusTellsTheTruth
  <2>1. \A p \in Processes : process[p] # "running" OBVIOUS
  <2> QED BY <1>2, <2>1 DEF StatusTellsTheTruth
<1> QED BY <1>1, <1>3, <1>4, <1>5 DEF TunnelInv

(* The links carry what the drive's copy says.                              *)
LEMMA LinksFollow ==
    ASSUME CopyIsTrue, ~hasty,
           ~status.active => \A p \in Processes : process[p] # "running",
           status.active => current # 0 /\ process[current] \in {"running", "dead"}
    PROVE StatusTellsTheTruth
  BY DEF CopyIsTrue, StatusTellsTheTruth, LinkHost

LEMMA StartTunnelKeeps == ASSUME TunnelInv, Start PROVE TunnelInv'
<1> USE TunnelAssumption DEF TunnelInv
<1>1. ASSUME NEW p \in Processes, process[p] = "none", ~status.active,
             hasty' = (hasty \/ \E q \in Processes : ~Over(q)),
             process' = [process EXCEPT ![p] = "running"], current' = p,
             Notify([active |-> TRUE, url |-> 0]), UNCHANGED <<output, configVars>>
      PROVE TunnelInv'
  <2>1. status' = [active |-> TRUE, url |-> 0] /\ known' = status' BY <1>1 DEF Notify
  <2>2. TunnelTypeOK'
    <3>1. status' \in Status /\ known' \in Status BY <2>1 DEF Status
    <3>2. p \in 0..NumProcesses BY DEF Processes
    <3>3. hasty' \in BOOLEAN BY <1>1, Zenon
    <3>4. process' \in [Processes -> {"none", "running", "dead", "reaped"}] BY <1>1 DEF TunnelTypeOK
    <3>5. UNCHANGED <<output, config, saving, saves>> BY <1>1 DEF configVars
    <3> QED BY <1>1, <3>1, <3>2, <3>3, <3>4, <3>5 DEF TunnelTypeOK
  <2>3. CopyIsTrue' BY <2>1 DEF CopyIsTrue
  <2>4. CASE hasty' BY <2>2, <2>3, <2>4 DEF OthersAreOver, StatusTellsTheTruth
  <2>5. CASE ~hasty'
    <3>1. \A q \in Processes : Over(q) BY <1>1, <2>5
    <3>2. \A q \in Processes : q = p \/ (process'[q] = process[q] /\ output'[q] = output[q])
      BY <1>1 DEF TunnelTypeOK
    <3>3. OthersAreOver' BY <1>1, <3>1, <3>2 DEF OthersAreOver, Over
    <3>4. p # 0 /\ process'[p] = "running" BY <1>1 DEF TunnelTypeOK, Processes
    <3>5. status'.active = TRUE BY <2>1
    <3>6. StatusTellsTheTruth' BY <1>1, <2>3, <3>4, <3>5, <2>5 DEF CopyIsTrue, StatusTellsTheTruth, LinkHost
    <3> QED BY <2>2, <2>3, <3>3, <3>6
  <2> QED BY <2>4, <2>5
<1>2. ASSUME ~status.active, Notify([active |-> FALSE, url |-> 0]), UNCHANGED <<processVars, configVars>>
      PROVE TunnelInv'
  <2>1. status' = [active |-> FALSE, url |-> 0] /\ known' = status' BY <1>2 DEF Notify
  <2>2. status' \in Status /\ status'.active = FALSE BY <2>1 DEF Status
  <2>3. UNCHANGED <<process, output, current, hasty, config, saving, saves>>
    BY <1>2 DEF processVars, configVars
  <2>4. TunnelTypeOK' BY <2>1, <2>2, <2>3 DEF TunnelTypeOK
  <2>5. OthersAreOver' BY <2>3 DEF OthersAreOver, Over
  <2>6. CopyIsTrue' BY <2>1, <2>2 DEF CopyIsTrue
  <2>7. StatusTellsTheTruth' BY <1>2, <2>2, <2>3 DEF StatusTellsTheTruth
  <2> QED BY <2>4, <2>5, <2>6, <2>7
<1> QED BY <1>1, <1>2 DEF Start

LEMMA StopTunnelKeeps == ASSUME TunnelInv, Stop PROVE TunnelInv'
<1> USE TunnelAssumption DEF TunnelInv
<1>1. /\ status.active /\ process' = Killed /\ UNCHANGED <<output, current, hasty, config, saving, saves>>
      /\ status' = [active |-> FALSE, url |-> 0] /\ known' = status'
  BY DEF Stop, Notify, configVars
<1>2. status' \in Status /\ status'.active = FALSE BY <1>1 DEF Status
<1>3. process' \in [Processes -> {"none", "running", "dead", "reaped"}]
      /\ \A p \in Processes : p # current => process'[p] = process[p]
  BY <1>1 DEF Killed, TunnelTypeOK
<1>4. TunnelTypeOK' BY <1>1, <1>2, <1>3 DEF TunnelTypeOK
<1>5. OthersAreOver' BY <1>1, <1>3 DEF OthersAreOver, Over
<1>6. CopyIsTrue' BY <1>1, <1>2 DEF CopyIsTrue
<1>7. StatusTellsTheTruth'
  <2>1. ~hasty => process'[current] # "running" \/ current \notin Processes
    BY <1>1 DEF Killed, TunnelTypeOK
  <2>2. ~hasty => \A p \in Processes : process'[p] # "running"
    BY <1>3, <2>1 DEF OthersAreOver, Over
  <2> QED BY <1>1, <1>2, <2>2 DEF StatusTellsTheTruth
<1> QED BY <1>4, <1>5, <1>6, <1>7

(* What a process and its goroutines do is about the current one, or there  *)
(* was haste.                                                               *)
LEMMA ProcessKeeps ==
    ASSUME TunnelInv, NEW p \in Processes,
           \/ PrintAddress(p) \/ ParseOutput(p) \/ CloseOutput(p) \/ Die(p) \/ WaitProcess(p)
    PROVE TunnelInv'
<1> USE TunnelAssumption DEF TunnelInv
<1>1. p \in 0..NumProcesses /\ p # 0 BY DEF Processes
<1>2. status.active \in BOOLEAN /\ status.url \in 0..NumProcesses BY DEF TunnelTypeOK, Status
<1>3. CASE PrintAddress(p) \/ CloseOutput(p)
  <2>1. /\ UNCHANGED <<process, current, status, known, hasty, config, saving, saves>>
        /\ \E o \in {"printed", "closed"} : output' = [output EXCEPT ![p] = o]
        /\ process[p] = "running" \/ output'[p] = "closed"
    BY <1>3 DEF PrintAddress, CloseOutput, configVars, TunnelTypeOK
  <2>2. TunnelTypeOK' BY <2>1 DEF TunnelTypeOK
  <2>3. OthersAreOver' BY <2>1 DEF OthersAreOver, Over, TunnelTypeOK
  <2>4. CopyIsTrue' BY <2>1 DEF CopyIsTrue
  <2>5. StatusTellsTheTruth' BY <2>1 DEF StatusTellsTheTruth, LinkHost
  <2> QED BY <2>2, <2>3, <2>4, <2>5
<1>4. CASE ParseOutput(p)
  <2>1. /\ output[p] = "printed" /\ output' = [output EXCEPT ![p] = "read"]
        /\ status' = [status EXCEPT !.url = p] /\ known' = status'
        /\ UNCHANGED <<process, current, hasty, config, saving, saves>>
    BY <1>4 DEF ParseOutput, Notify, configVars
  <2>2. status' \in Status /\ status'.active = status.active /\ status'.url = p
    BY <1>1, <2>1 DEF TunnelTypeOK, Status
  <2>3. TunnelTypeOK' BY <2>1, <2>2 DEF TunnelTypeOK
  <2>4. hasty \/ p = current BY <2>1 DEF OthersAreOver, Over
  <2>5. OthersAreOver' BY <2>1, <2>4 DEF OthersAreOver, Over, TunnelTypeOK
  <2>6. CopyIsTrue' BY <2>1, <2>2, <2>4 DEF CopyIsTrue
  <2>7. StatusTellsTheTruth' BY <2>1, <2>2, <2>4 DEF StatusTellsTheTruth, LinkHost
  <2> QED BY <2>3, <2>5, <2>6, <2>7
<1>5. CASE Die(p)
  <2>1. /\ process[p] = "running" /\ process' = [process EXCEPT ![p] = "dead"]
        /\ UNCHANGED <<output, current, status, known, hasty, config, saving, saves>>
    BY <1>5 DEF Die, configVars
  <2>2. TunnelTypeOK' BY <2>1 DEF TunnelTypeOK
  <2>3. hasty \/ p = current BY <2>1 DEF OthersAreOver, Over
  <2>4. OthersAreOver' BY <2>1, <2>3 DEF OthersAreOver, Over, TunnelTypeOK
  <2>5. CopyIsTrue' BY <2>1 DEF CopyIsTrue
  <2>6. StatusTellsTheTruth' BY <2>1 DEF StatusTellsTheTruth, LinkHost, TunnelTypeOK
  <2> QED BY <2>2, <2>4, <2>5, <2>6
<1>6. CASE WaitProcess(p)
  <2>1. /\ process[p] = "dead" /\ process' = [process EXCEPT ![p] = "reaped"]
        /\ status' = [status EXCEPT !.active = FALSE] /\ known' = status'
        /\ UNCHANGED <<output, current, hasty, config, saving, saves>>
    BY <1>6 DEF WaitProcess, Notify, configVars
  <2>2. status' = [active |-> FALSE, url |-> status.url] BY <2>1 DEF TunnelTypeOK, Status
  <2>3. status' \in Status /\ status'.active = FALSE BY <1>2, <2>2 DEF Status
  <2>4. TunnelTypeOK' BY <2>1, <2>3 DEF TunnelTypeOK
  <2>5. hasty \/ p = current BY <2>1 DEF OthersAreOver, Over
  <2>6. OthersAreOver' BY <2>1, <2>5 DEF OthersAreOver, Over, TunnelTypeOK
  <2>7. CopyIsTrue' BY <2>1, <2>3 DEF CopyIsTrue
  <2>8. hasty \/ \A q \in Processes : process'[q] # "running"
    BY <2>1, <2>5 DEF OthersAreOver, Over, TunnelTypeOK
  <2>9. StatusTellsTheTruth' BY <2>1, <2>3, <2>8 DEF StatusTellsTheTruth
  <2> QED BY <2>4, <2>6, <2>7, <2>9
<1> QED BY <1>3, <1>4, <1>5, <1>6

(* Saving the share settings touches no process.                            *)
LEMMA SettingsKeep ==
    ASSUME TunnelInv, (\E mode \in Modes : CheckShareHealth(mode)) \/ UpdateShareConfig PROVE TunnelInv'
<1> USE TunnelAssumption DEF TunnelInv
<1>1. UNCHANGED <<process, output, current, hasty, status, known>>
  BY DEF CheckShareHealth, UpdateShareConfig, processVars
<1>2. TunnelTypeOK'
  <2>1. ASSUME NEW mode \in Modes, CheckShareHealth(mode) PROVE TunnelTypeOK'
    <3>1. PICK ok \in BOOLEAN : saving' = [busy |-> TRUE, mode |-> mode, healthy |-> ok]
      BY <2>1 DEF CheckShareHealth
    <3>2. config' = config /\ saves' = saves + 1 /\ saves < MaxSaves
      BY <2>1 DEF CheckShareHealth
    <3> QED BY <1>1, <3>1, <3>2 DEF TunnelTypeOK
  <2>2. CASE UpdateShareConfig
    <3>1. /\ config' = [mode |-> saving.mode, healthy |-> saving.healthy]
          /\ saving' = [saving EXCEPT !.busy = FALSE] /\ saves' = saves
      BY <2>2 DEF UpdateShareConfig
    <3>2. config' \in Config BY <3>1 DEF Config, TunnelTypeOK
    <3>3. saving' \in [busy : BOOLEAN, mode : Modes, healthy : BOOLEAN]
      <4>1. \A b \in BOOLEAN : [saving EXCEPT !.busy = b]
                                   \in [busy : BOOLEAN, mode : Modes, healthy : BOOLEAN]
        BY DEF TunnelTypeOK
      <4> QED BY <3>1, <4>1, Zenon
    <3> QED BY <1>1, <3>1, <3>2, <3>3 DEF TunnelTypeOK
  <2> QED BY <2>1, <2>2
<1>3. OthersAreOver' /\ CopyIsTrue' BY <1>1 DEF OthersAreOver, Over, CopyIsTrue
<1>4. StatusTellsTheTruth'
  BY <1>1, <1>3 DEF StatusTellsTheTruth, CopyIsTrue, LinkHost
<1> QED BY <1>2, <1>3, <1>4

LEMMA NextTunnel == ASSUME TunnelInv, [TunnelNext]_tunnelVars PROVE TunnelInv'
<1>1. CASE UNCHANGED tunnelVars
  BY <1>1 DEF tunnelVars, TunnelInv, TunnelTypeOK, OthersAreOver, Over, CopyIsTrue, StatusTellsTheTruth,
       LinkHost
<1> QED BY <1>1, StartTunnelKeeps, StopTunnelKeeps, ProcessKeeps, SettingsKeep DEF TunnelNext

(* The inductive invariant of the tunnel holds.                             *)
THEOREM TunnelInvariantHolds == TunnelSpec => []TunnelInv
  BY InitTunnel, NextTunnel, PTL DEF TunnelSpec

(* The status, the processes and the settings keep their types.             *)
THEOREM TunnelTypeCorrect == TunnelSpec => []TunnelTypeOK
<1>1. TunnelInv => TunnelTypeOK BY DEF TunnelInv
<1> QED BY TunnelInvariantHolds, <1>1, PTL

(* Unless a tunnel is started before the last one is over, the status says  *)
(* whether a process runs and links carry the address of the current one.   *)
THEOREM StatusIsTrue == TunnelSpec => []StatusTellsTheTruth
<1>1. TunnelInv => StatusTellsTheTruth BY DEF TunnelInv
<1> QED BY TunnelInvariantHolds, <1>1, PTL

(***************************************************************************)
(* Mounts.  The types say which mounter an attempt or a call of Unmount is *)
(* about: one that was built.                                              *)
(***************************************************************************)
EngineRecord == [pc : {"none", "spawned", "checked", "hosting", "serving", "returned"},
                 on : Mounters, watched : BOOLEAN]

(* No attempt has been made yet.                                            *)
LEMMA InitMounts == ASSUME MountsInit PROVE MountsTypeOK
<1> USE MountsAssumption DEF MountsInit, Mounters
<1>1. [pc |-> "none", on |-> 1, watched |-> FALSE] \in EngineRecord BY DEF EngineRecord
<1>2. engine \in [Attempts -> EngineRecord] BY <1>1
<1>3. flag \in [Mounters -> BOOLEAN] /\ hostUp \in [Mounters -> BOOLEAN] /\ mounting \in BOOLEAN
  BY Zenon
<1>4. /\ mounter \in Mounters /\ cancel \in 0..NumAttempts
      /\ attempt \in [Attempts -> {"none", "waiting", "switching", "done"}]
      /\ ended \in SUBSET Attempts
      /\ unmount \in 0..NumMounters /\ unmounts \in 0..MaxUnmounts
      /\ switch \in {"none", "unmount", "swap", "mount"}
  OBVIOUS
<1> QED BY <1>2, <1>3, <1>4 DEF MountsTypeOK, EngineRecord

(* A goroutine that moves stays one of a mounter that was built.            *)
LEMMA EngineStays ==
    ASSUME MountsTypeOK, NEW a \in Attempts, NEW x \in EngineRecord,
           engine' = [engine EXCEPT ![a] = x]
    PROVE engine' \in [Attempts -> EngineRecord]
  BY DEF MountsTypeOK, EngineRecord

LEMMA EngineFields ==
    ASSUME MountsTypeOK, NEW a \in Attempts
    PROVE /\ engine[a].on \in Mounters
          /\ \A pc \in {"none", "spawned", "checked", "hosting", "serving", "returned"} :
                 /\ [engine[a] EXCEPT !.pc = pc] \in EngineRecord
                 /\ \A m \in Mounters : [engine[a] EXCEPT !.on = m, !.pc = pc] \in EngineRecord
                 /\ [engine[a] EXCEPT !.pc = pc, !.watched = TRUE] \in EngineRecord
          /\ [engine[a] EXCEPT !.watched = FALSE] \in EngineRecord
<1>1. engine[a] \in EngineRecord BY DEF MountsTypeOK, EngineRecord
<1> QED BY <1>1 DEF EngineRecord

LEMMA ManagerKeepsTypes ==
    ASSUME MountsTypeOK,
           \/ \E a \in Attempts : AttemptStep(a) \/ Mount(a)
           \/ BeginUnmount \/ FinishUnmount \/ BeginSwitch \/ SwapMounter \/ SwitchMounts
    PROVE MountsTypeOK'
<1> USE MountsAssumption DEF managerVars
<1>1. ASSUME NEW a \in Attempts, Return(a), mounting' = FALSE, ended' \in SUBSET Attempts
      PROVE MountsTypeOK'
  <2>1. mounting' \in BOOLEAN BY <1>1, Zenon
  <2> QED BY <1>1, <2>1 DEF Return, MountsTypeOK
<1>2. ASSUME NEW a \in Attempts, NEW caller \in {"waiting", "switching"}, Admit(a, caller),
             switch' \in {"none", "unmount", "swap", "mount"}
      PROVE MountsTypeOK'
  <2>1. engine' = [engine EXCEPT ![a] = [engine[a] EXCEPT !.pc = "spawned"]]
    BY <1>2 DEF Admit
  <2>2. engine' \in [Attempts -> EngineRecord] BY <2>1, EngineStays, EngineFields
  <2>3. mounting' \in BOOLEAN BY <1>2, Zenon DEF Admit
  <2>4. /\ cancel' = a /\ attempt' = [attempt EXCEPT ![a] = caller]
        /\ UNCHANGED <<flag, hostUp, mounter, ended, unmount, unmounts>>
    BY <1>2 DEF Admit
  <2>5. cancel' \in 0..NumAttempts BY <2>4 DEF Attempts
  <2> QED BY <1>2, <2>2, <2>3, <2>4, <2>5 DEF MountsTypeOK, EngineRecord
<1>3. ASSUME TakeCancel, switch' \in {"none", "unmount", "swap", "mount"} PROVE MountsTypeOK'
  <2>1. ended' \in SUBSET Attempts BY <1>3 DEF TakeCancel, MountsTypeOK, Attempts
  <2>2. unmount' \in 0..NumMounters BY <1>3 DEF TakeCancel, MountsTypeOK, Mounters
  <2> QED BY <1>3, <2>1, <2>2 DEF TakeCancel, MountsTypeOK
<1>4. CASE FinishUnmount
  <2>1. unmount \in Mounters BY <1>4 DEF FinishUnmount, MountsTypeOK, Mounters
  <2>2. flag' \in [Mounters -> BOOLEAN] /\ hostUp' \in [Mounters -> BOOLEAN]
    <3>1. (flag[unmount] /\ ~hostUp[unmount]) \in BOOLEAN /\ (hostUp[unmount] /\ ~flag[unmount]) \in BOOLEAN
      BY Zenon
    <3>2. /\ flag' = [flag EXCEPT ![unmount] = flag[unmount] /\ ~hostUp[unmount]]
          /\ hostUp' = [hostUp EXCEPT ![unmount] = hostUp[unmount] /\ ~flag[unmount]]
      BY <1>4, Zenon DEF FinishUnmount
    <3>3. flag \in [Mounters -> BOOLEAN] /\ hostUp \in [Mounters -> BOOLEAN] BY DEF MountsTypeOK
    <3> QED BY <3>1, <3>2, <3>3, Zenon
  <2> QED BY <1>4, <2>1, <2>2 DEF FinishUnmount, MountsTypeOK
<1>5. ASSUME UNCHANGED <<flag, hostUp, managerVars, attempt, engine, ended, unmount, unmounts>>,
             switch' \in {"none", "unmount", "swap", "mount"}
      PROVE MountsTypeOK'
  BY <1>5 DEF MountsTypeOK
<1>6. CASE SwapMounter
  <2>1. mounter' \in Mounters BY <1>6 DEF SwapMounter, MountsTypeOK, Mounters
  <2> QED BY <1>6, <2>1 DEF SwapMounter, MountsTypeOK
<1>7. switch \in {"none", "unmount", "swap", "mount"} /\ ended \in SUBSET Attempts
  BY DEF MountsTypeOK
<1>8. ASSUME NEW a \in Attempts, AttemptStep(a) PROVE MountsTypeOK'
  BY <1>1, <1>7, <1>8 DEF AttemptStep, SeeResult, Deadline, ClientLeaves
<1>9. ASSUME NEW a \in Attempts, Mount(a) PROVE MountsTypeOK'
  BY <1>2, <1>7, <1>9 DEF Mount
<1>10. CASE BeginUnmount BY <1>3, <1>7, <1>10 DEF BeginUnmount
<1>11. CASE BeginSwitch BY <1>3, <1>5, <1>11 DEF BeginSwitch
<1>12. CASE SwitchMounts BY <1>2, <1>5, <1>12 DEF SwitchMounts
<1> QED BY <1>4, <1>6, <1>8, <1>9, <1>10, <1>11, <1>12

LEMMA EngineKeepsTypes ==
    ASSUME MountsTypeOK, (\E a \in Attempts : EngineStep(a)) \/ (\E m \in Mounters : Eject(m))
    PROVE MountsTypeOK'
<1> USE DEF managerVars
<1>1. ASSUME NEW a \in Attempts, NEW x \in EngineRecord, engine' = [engine EXCEPT ![a] = x],
             flag' \in [Mounters -> BOOLEAN], hostUp' \in [Mounters -> BOOLEAN],
             UNCHANGED <<managerVars, attempt, ended, unmount, unmounts, switch>>
      PROVE MountsTypeOK'
  BY <1>1, EngineStays DEF MountsTypeOK, EngineRecord
<1>2. \A m \in Mounters, b \in BOOLEAN :
          [flag EXCEPT ![m] = b] \in [Mounters -> BOOLEAN] /\ [hostUp EXCEPT ![m] = b] \in [Mounters -> BOOLEAN]
  BY DEF MountsTypeOK
<1>3. \A m \in Mounters :
          /\ [flag EXCEPT ![m] = TRUE] \in [Mounters -> BOOLEAN]
          /\ [flag EXCEPT ![m] = FALSE] \in [Mounters -> BOOLEAN]
          /\ [hostUp EXCEPT ![m] = TRUE] \in [Mounters -> BOOLEAN]
          /\ [hostUp EXCEPT ![m] = FALSE] \in [Mounters -> BOOLEAN]
  BY <1>2, Zenon
<1>4. /\ flag \in [Mounters -> BOOLEAN] /\ hostUp \in [Mounters -> BOOLEAN] /\ mounter \in Mounters
  BY DEF MountsTypeOK
<1>5. ASSUME NEW a \in Attempts, CheckFlag(a) PROVE MountsTypeOK'
  <2> DEFINE pc == IF flag[mounter] THEN "returned" ELSE "checked"
             x == [engine[a] EXCEPT !.on = mounter, !.pc = pc]
  <2>1. x \in EngineRecord BY <1>4, EngineFields
  <2>2. engine' = [engine EXCEPT ![a] = x]
        /\ UNCHANGED <<flag, hostUp, managerVars, attempt, ended, unmount, unmounts, switch>>
    BY <1>5 DEF CheckFlag, Engine
  <2> QED BY <1>1, <1>4, <2>1, <2>2
<1>6. ASSUME NEW a \in Attempts, SetFlag(a) PROVE MountsTypeOK'
  <2> DEFINE x == [engine[a] EXCEPT !.pc = "hosting", !.watched = TRUE]
  <2>1. x \in EngineRecord BY EngineFields
  <2>2. /\ engine' = [engine EXCEPT ![a] = x] /\ flag' = [flag EXCEPT ![engine[a].on] = TRUE]
        /\ UNCHANGED <<hostUp, managerVars, attempt, ended, unmount, unmounts, switch>>
    BY <1>6 DEF SetFlag, Engine
  <2>3. flag' \in [Mounters -> BOOLEAN] BY <1>3, <2>2, EngineFields
  <2> QED BY <1>1, <1>4, <2>1, <2>2, <2>3
<1>7. ASSUME NEW a \in Attempts, HostMounts(a) PROVE MountsTypeOK'
  <2>1. ASSUME NEW pc \in {"serving", "returned"},
               Engine(a, "hosting", [engine[a] EXCEPT !.pc = pc]),
               flag' = flag \/ flag' = [flag EXCEPT ![engine[a].on] = FALSE],
               hostUp' = hostUp \/ hostUp' = [hostUp EXCEPT ![engine[a].on] = TRUE]
        PROVE MountsTypeOK'
    <3> DEFINE x == [engine[a] EXCEPT !.pc = pc]
    <3>1. x \in EngineRecord BY EngineFields
    <3>2. flag' \in [Mounters -> BOOLEAN] /\ hostUp' \in [Mounters -> BOOLEAN]
      BY <1>3, <1>4, <2>1, EngineFields
    <3> QED BY <1>1, <2>1, <3>1, <3>2 DEF Engine
  <2> QED BY <1>7, <2>1 DEF HostMounts
<1>8. ASSUME NEW a \in Attempts, HostReturns(a) PROVE MountsTypeOK'
  <2> DEFINE x == [engine[a] EXCEPT !.pc = "returned"]
  <2>1. x \in EngineRecord BY EngineFields
  <2>2. flag' \in [Mounters -> BOOLEAN] BY <1>3, <1>8, EngineFields DEF HostReturns
  <2> QED BY <1>1, <1>4, <1>8, <2>1, <2>2 DEF HostReturns, Engine
<1>9. ASSUME NEW a \in Attempts, ContextEnds(a) PROVE MountsTypeOK'
  <2> DEFINE x == [engine[a] EXCEPT !.watched = FALSE]
  <2>1. x \in EngineRecord BY EngineFields
  <2>2. engine' = [engine EXCEPT ![a] = x]
        /\ flag' \in [Mounters -> BOOLEAN] /\ hostUp' \in [Mounters -> BOOLEAN]
    BY <1>3, <1>9, EngineFields DEF ContextEnds
  <2> QED BY <1>1, <1>9, <2>1, <2>2 DEF ContextEnds
<1>10. ASSUME NEW m \in Mounters, Eject(m) PROVE MountsTypeOK'
  <2>1. hostUp' \in [Mounters -> BOOLEAN] BY <1>3, <1>10 DEF Eject
  <2> QED BY <1>10, <2>1 DEF Eject, MountsTypeOK
<1> QED BY <1>5, <1>6, <1>7, <1>8, <1>9, <1>10 DEF EngineStep

LEMMA NextMounts == ASSUME MountsTypeOK, [MountsNext]_mountsVars PROVE MountsTypeOK'
<1>1. CASE UNCHANGED mountsVars BY <1>1 DEF mountsVars, MountsTypeOK
<1> QED BY <1>1, ManagerKeepsTypes, EngineKeepsTypes DEF MountsNext

(* Attempts, goroutines and calls of Unmount are about mounters that exist. *)
THEOREM MountsTypeCorrect == MountsSpec => []MountsTypeOK
  BY InitMounts, NextMounts, PTL DEF MountsSpec

(***************************************************************************)
(* TelegramLogin.                                                          *)
(***************************************************************************)
LoginRecord == [pc : {"none", "auth", "password", "check", "leave", "done"}, state : QRStates,
                shown : BOOLEAN, stopped : BOOLEAN, password : BOOLEAN]
AskerRecord == [pc : {"idle", "await", "install", "poll"}, then : {"return", "install"},
                waits : 0..NumLogins]

(* Nobody has asked for a session.                                          *)
LEMMA InitLogin == ASSUME LoginInit PROVE LoginTypeOK
<1> USE LoginAssumption DEF LoginInit
<1>1. NoLogin \in LoginRecord BY DEF NoLogin, LoginRecord, QRStates
<1>2. NoAsker \in AskerRecord BY DEF NoAsker, AskerRecord
<1> QED BY <1>1, <1>2 DEF LoginTypeOK, LoginRecord, AskerRecord

(* What a session's fields may become.                                      *)
LEMMA SessionFields ==
    ASSUME LoginTypeOK, NEW q \in Logins
    PROVE /\ [login[q] EXCEPT !.stopped = TRUE] \in LoginRecord
          /\ [login[q] EXCEPT !.password = TRUE] \in LoginRecord
          /\ \A pc \in {"none", "auth", "password", "check", "leave", "done"} :
                 /\ [login[q] EXCEPT !.pc = pc] \in LoginRecord
                 /\ [login[q] EXCEPT !.pc = pc, !.password = FALSE] \in LoginRecord
                 /\ \A state \in QRStates :
                        [login[q] EXCEPT !.pc = pc, !.state = state] \in LoginRecord
          /\ [login[q] EXCEPT !.shown = TRUE, !.state = "pending"] \in LoginRecord
<1>1. login[q] \in LoginRecord BY DEF LoginTypeOK, LoginRecord
<1>2. "pending" \in QRStates BY DEF QRStates
<1> QED BY <1>1, <1>2 DEF LoginRecord

LEMMA SessionStays ==
    ASSUME LoginTypeOK, NEW q \in Logins, NEW x \in LoginRecord, login' = [login EXCEPT ![q] = x]
    PROVE login' \in [Logins -> LoginRecord]
  BY DEF LoginTypeOK, LoginRecord

LEMMA AskerStays ==
    ASSUME LoginTypeOK, NEW c \in Askers, NEW x \in AskerRecord, asker' = [asker EXCEPT ![c] = x]
    PROVE asker' \in [Askers -> AskerRecord]
  BY DEF LoginTypeOK, AskerRecord

LEMMA RequestsKeepTypes ==
    ASSUME LoginTypeOK, NEW c \in Askers,
           \/ \E then \in {"return", "install"} : CancelQR(c, then)
           \/ SeeDone(c) \/ StopPolling(c) \/ SubmitQRPassword(c)
           \/ \E q \in Logins : InstallQR(c, q)
    PROVE LoginTypeOK'
<1> USE LoginAssumption
<1>1. ASSUME login' \in [Logins -> LoginRecord], asker' \in [Askers -> AskerRecord],
             qr' \in 0..NumLogins
      PROVE LoginTypeOK'
  BY <1>1 DEF LoginTypeOK, LoginRecord, AskerRecord
<1>2. /\ login \in [Logins -> LoginRecord] /\ asker \in [Askers -> AskerRecord]
      /\ qr \in 0..NumLogins
  BY DEF LoginTypeOK, LoginRecord, AskerRecord
<1>3. \A pc \in {"idle", "await", "install", "poll"} : [NoAsker EXCEPT !.pc = pc] \in AskerRecord
  BY DEF NoAsker, AskerRecord
<1>4. NoAsker \in AskerRecord BY DEF NoAsker, AskerRecord
<1>5. ASSUME NEW then \in {"return", "install"}, CancelQR(c, then) PROVE LoginTypeOK'
  <2>1. login' \in [Logins -> LoginRecord]
    BY <1>2, <1>5, SessionFields DEF CancelQR
  <2>2. asker' \in [Askers -> AskerRecord]
    <3> DEFINE x == IF qr # 0 THEN [pc |-> "await", then |-> then, waits |-> qr]
                    ELSE [NoAsker EXCEPT !.pc = IF then = "return" THEN "idle" ELSE "install"]
    <3>1. x \in AskerRecord
      <4>1. [pc |-> "await", then |-> then, waits |-> qr] \in AskerRecord
        BY <1>2 DEF AskerRecord
      <4> QED BY <1>3, <4>1
    <3>2. asker' = [asker EXCEPT ![c] = x] BY <1>5 DEF CancelQR
    <3> HIDE DEF x
    <3> QED BY <3>1, <3>2, AskerStays
  <2>3. qr' \in 0..NumLogins BY <1>5 DEF CancelQR
  <2> QED BY <1>1, <2>1, <2>2, <2>3
<1>6. CASE SeeDone(c)
  <2> DEFINE x == [NoAsker EXCEPT !.pc = IF asker[c].then = "return" THEN "idle" ELSE "install"]
  <2>1. x \in AskerRecord BY <1>3
  <2>2. asker' = [asker EXCEPT ![c] = x] /\ UNCHANGED <<qr, login>> BY <1>6 DEF SeeDone
  <2> HIDE DEF x
  <2>3. asker' \in [Askers -> AskerRecord] BY <2>1, <2>2, AskerStays
  <2> QED BY <1>1, <1>2, <2>2, <2>3
<1>7. CASE StopPolling(c)
  <2>1. asker' \in [Askers -> AskerRecord] BY <1>4, <1>7, AskerStays DEF StopPolling
  <2> QED BY <1>1, <1>2, <1>7, <2>1 DEF StopPolling
<1>8. CASE SubmitQRPassword(c)
  <2>1. qr \in Logins BY <1>2, <1>8 DEF SubmitQRPassword, Logins
  <2>2. login' = [login EXCEPT ![qr] = [login[qr] EXCEPT !.password = TRUE]]
        /\ UNCHANGED <<qr, asker>>
    BY <1>8 DEF SubmitQRPassword
  <2>3. login' \in [Logins -> LoginRecord] BY <2>1, <2>2, SessionFields, SessionStays
  <2> QED BY <1>1, <1>2, <2>2, <2>3
<1>9. ASSUME NEW q \in Logins, InstallQR(c, q) PROVE LoginTypeOK'
  <2>1. login' = [login EXCEPT ![q] = [login[q] EXCEPT !.pc = "auth"]] /\ qr' = q
        /\ asker' = [asker EXCEPT ![c] = [NoAsker EXCEPT !.pc = "poll"]]
    BY <1>9 DEF InstallQR
  <2>2. login' \in [Logins -> LoginRecord] BY <2>1, SessionFields, SessionStays
  <2>3. asker' \in [Askers -> AskerRecord] BY <1>3, <2>1, AskerStays
  <2>4. qr' \in 0..NumLogins BY <2>1 DEF Logins
  <2> QED BY <1>1, <2>2, <2>3, <2>4
<1> QED BY <1>5, <1>6, <1>7, <1>8, <1>9

LEMMA SessionKeepsTypes ==
    ASSUME LoginTypeOK, NEW q \in Logins,
           \/ ShowToken(q) \/ AskPassword(q) \/ TakePassword(q) \/ Authorize(q) \/ Refused(q)
           \/ SeeStopped(q) \/ CloseDone(q)
    PROVE LoginTypeOK'
<1>1. ASSUME NEW x \in LoginRecord, login' = [login EXCEPT ![q] = x], UNCHANGED <<qr, asker>>
      PROVE LoginTypeOK'
  <2>1. login' \in [Logins -> LoginRecord] BY <1>1, SessionStays
  <2> QED BY <1>1, <2>1 DEF LoginTypeOK, LoginRecord
<1>2. ASSUME NEW from, NEW x \in LoginRecord, LoginStep(q, from, x) PROVE LoginTypeOK'
  BY <1>1, <1>2 DEF LoginStep
<1>3. {"idle", "awaiting_password", "authorized", "error", "expired"} \subseteq QRStates
  BY DEF QRStates
<1>4. CASE ShowToken(q) BY <1>2, <1>4, SessionFields DEF ShowToken
<1>5. CASE AskPassword(q) BY <1>2, <1>3, <1>5, SessionFields DEF AskPassword
<1>6. CASE TakePassword(q) BY <1>2, <1>6, SessionFields DEF TakePassword
<1>7. CASE Authorize(q) BY <1>2, <1>3, <1>7, SessionFields DEF Authorize
<1>8. CASE Refused(q) BY <1>2, <1>3, <1>8, SessionFields DEF Refused
<1>9. CASE SeeStopped(q) BY <1>2, <1>3, <1>9, SessionFields DEF SeeStopped
<1>10. CASE CloseDone(q) BY <1>2, <1>10, SessionFields DEF CloseDone
<1> QED BY <1>4, <1>5, <1>6, <1>7, <1>8, <1>9, <1>10

LEMMA NextLogin == ASSUME LoginTypeOK, [LoginNext]_loginVars PROVE LoginTypeOK'
<1>1. CASE UNCHANGED loginVars BY <1>1 DEF loginVars, LoginTypeOK
<1> QED BY <1>1, RequestsKeepTypes, SessionKeepsTypes DEF LoginNext

(* Requests wait for sessions that were started, or for none.               *)
THEOREM LoginTypeCorrect == LoginSpec => []LoginTypeOK
  BY InitLogin, NextLogin, PTL DEF LoginSpec

(***************************************************************************)
(* MountedDrive.  A handle that met no other of its name has its temporary *)
(* file to itself: no other handle that works writes to that file, and     *)
(* what failed to be saved is what the kept name still names.  So the file *)
(* holds what the handle was given, and the save copies that.              *)
(***************************************************************************)
HandleRecord == [pc : {"none", "open", "saving", "storing", "saved", "failed", "stranded", "lost"},
                 kind : {"fuse", "dav", "tus"}, at : Spots, file : 0..NumHandles,
                 offset : 0..NumBlocks, copied : Bytes]
RowRecord == [by : Handles, at : Spots, bytes : Bytes, live : BOOLEAN]

Working(h) == handle[h].pc \in {"open", "saving", "storing"}
\* The bytes of a handle that works, or was left behind, are in its temporary file.
Holds(h) == Working(h) \/ handle[h].pc = "stranded"
IsFuse(h) == handle[h].kind = "fuse"

\* A handle writes to a temporary file of its own, over FUSE to one that was
\* made for its leaf.
FilesStand ==
    \A h \in Handles : handle[h].pc # "none" =>
        /\ handle[h].file \in Handles /\ handle[handle[h].file].pc # "none"
        /\ ~IsFuse(h) => handle[h].file = h
        /\ IsFuse(h) => /\ IsFuse(handle[h].file)
                        /\ handle[handle[h].file].at.leaf = handle[h].at.leaf
        /\ handle[h].pc = "stranded" => IsFuse(h)

NamedFor(m, n) == handle[m].pc # "none" /\ IsFuse(m) /\ handle[m].at.leaf = n

\* A name in the temporary folder is of a file made for it, and of one only.
NamesStand ==
    \A n \in Leaves :
        /\ tempName[n] # 0 => NamedFor(tempName[n], n)
        /\ unsaved[n] # 0 => NamedFor(unsaved[n], n) /\ unsaved[n] # tempName[n]

\* Nothing was written for a handle that was not opened.
FreshIsEmpty ==
    \A h \in Handles : handle[h].pc = "none" => given[h] = NoBytes /\ inode[h] = NoBytes

\* A rename in progress is of a row that exists.
RowStands == renaming.pc # "none" => \E i \in DOMAIN listing : listing[i].by = renaming.row

\* A handle that did not meet another has its temporary file to itself.
Alone(h) ==
    IsFuse(h) =>
        /\ Holds(h) => /\ tempName[handle[h].at.leaf] = handle[h].file
                       /\ Sharing(handle[h].at.leaf) \subseteq {h}
        /\ handle[h].pc = "failed" =>
               \A k \in Handles : IsFuse(k) /\ Working(k) => handle[k].file # handle[h].file

\* It holds what the handle was given, and so does what was copied of it.
Whole(h) ==
    /\ Holds(h) \/ (handle[h].pc = "failed" /\ handle[h].kind # "dav")
           => inode[handle[h].file] = given[h]
    /\ handle[h].pc = "storing" => handle[h].offset = NumBlocks
    /\ handle[h].pc \in {"saving", "storing"} =>
           \A b \in Blocks : b <= handle[h].offset => handle[h].copied[b] = given[h][b]

\* What failed to be saved is kept, what was saved is the content of a row.
Stored(h) ==
    /\ handle[h].pc = "failed" /\ IsFuse(h) => unsaved[handle[h].at.leaf] = handle[h].file
    /\ handle[h].pc = "saved" => \E i \in DOMAIN listing : listing[i].bytes = given[h]

Standing == MountedTypeOK /\ FilesStand /\ NamesStand /\ FreshIsEmpty /\ RowStands
DriveInv == Standing /\ \A h \in Handles \ clash : Alone(h) /\ Whole(h) /\ Stored(h)

(* A step in which no handle is opened: each keeps its kind, place and      *)
(* file, and none goes back to work.                                        *)
Goes ==
    \A h \in Handles :
        /\ handle'[h].kind = handle[h].kind /\ handle'[h].at = handle[h].at
        /\ handle'[h].file = handle[h].file
        /\ handle'[h].pc = "none" <=> handle[h].pc = "none"
        /\ Working(h)' => Working(h)
        /\ handle'[h].pc = "failed" => Working(h) \/ handle[h].pc = "failed"
        /\ handle'[h].pc = "stranded" =>
               handle[h].pc = "stranded" \/ (Working(h) /\ IsFuse(h))

\* Every row has its bytes still, at whatever place.
RowsKept ==
    \A i \in DOMAIN listing : \E j \in DOMAIN listing' :
        listing'[j].by = listing[i].by /\ listing'[j].bytes = listing[i].bytes

(* The records of the model.                                                *)
LEMMA SomeSpot == (CHOOSE p \in Spots : TRUE) \in Spots
<1>1. \E p \in Spots : TRUE
  <2>1. PICK d \in Dirs, n \in Leaves : TRUE BY MountedAssumption
  <2>2. [dir |-> d, leaf |-> n] \in Spots BY DEF Spots
  <2> QED BY <2>2
<1> QED BY <1>1

LEMMA EmptyBytes == NoBytes \in Bytes
  BY MountedAssumption DEF NoBytes, Bytes

LEMMA FreshRecords ==
    /\ NoHandle \in HandleRecord /\ NoHandle.pc = "none" /\ NoHandle.kind = "fuse"
    /\ NoRename \in [pc : {"none", "trash", "rename", "move"}, row : 0..NumHandles, to : Spots]
    /\ NoRename.pc = "none"
  BY SomeSpot, EmptyBytes, MountedAssumption DEF NoHandle, NoRename, HandleRecord

LEMMA HandleTypes ==
    ASSUME MountedTypeOK, NEW h \in Handles
    PROVE /\ handle[h] \in HandleRecord
          /\ handle[h].pc \in {"none", "open", "saving", "storing", "saved", "failed",
                               "stranded", "lost"}
          /\ handle[h].kind \in {"fuse", "dav", "tus"}
          /\ handle[h].at \in Spots /\ handle[h].at.leaf \in Leaves
          /\ handle[h].file \in 0..NumHandles
          /\ handle[h].offset \in 0..NumBlocks /\ handle[h].copied \in Bytes
          /\ given[h] \in Bytes /\ inode[h] \in Bytes
<1>1. handle[h] \in HandleRecord BY DEF MountedTypeOK, HandleRecord
<1>2. given[h] \in Bytes /\ inode[h] \in Bytes BY DEF MountedTypeOK
<1>3. handle[h].at \in Spots BY <1>1 DEF HandleRecord
<1>4. handle[h].at.leaf \in Leaves BY <1>3 DEF Spots
<1> QED BY <1>1, <1>2, <1>3, <1>4 DEF HandleRecord

(* One handle changes.                                                      *)
LEMMA OneMoves ==
    ASSUME MountedTypeOK, NEW h \in Handles, NEW x \in HandleRecord,
           handle' = [handle EXCEPT ![h] = x]
    PROVE /\ handle' \in [Handles -> HandleRecord] /\ handle'[h] = x
          /\ \A k \in Handles : k # h => handle'[k] = handle[k]
  BY DEF MountedTypeOK, HandleRecord

(* The types, once the parts are known.                                     *)
LEMMA TypesFollow ==
    ASSUME handle' \in [Handles -> HandleRecord],
           inode' \in [Handles -> Bytes],
           tempName' \in [Leaves -> 0..NumHandles], unsaved' \in [Leaves -> 0..NumHandles],
           pending' \in [Spots -> 0..NumHandles],
           listing' \in Seq(RowRecord),
           renaming' \in [pc : {"none", "trash", "rename", "move"}, row : 0..NumHandles, to : Spots],
           renames' \in 0..MaxRenames,
           given' \in [Handles -> Bytes], clash' \in SUBSET Handles
    PROVE MountedTypeOK'
  BY DEF MountedTypeOK, HandleRecord, RowRecord

(* While no handle is opened, files and names stay what they are.           *)
LEMMA GoesStand ==
    ASSUME Standing, Goes
    PROVE /\ FilesStand'
          /\ \A m \in Handles, n \in Leaves : NamedFor(m, n)' <=> NamedFor(m, n)
          /\ \A n \in Leaves : Sharing(n)' \subseteq Sharing(n)
<1>1. FilesStand' BY DEF Standing, FilesStand, Goes, IsFuse
<1>2. \A m \in Handles, n \in Leaves : NamedFor(m, n)' <=> NamedFor(m, n)
  BY DEF Goes, NamedFor, IsFuse
<1>3. \A n \in Leaves : Sharing(n)' \subseteq Sharing(n) BY DEF Goes, Sharing, Working
<1> QED BY <1>1, <1>2, <1>3

(* Two handles that write to one file, one of them alone: they are one.     *)
LEMMA Private ==
    ASSUME DriveInv, NEW k \in Handles \ clash, Holds(k) \/ handle[k].pc = "failed",
           NEW h \in Handles, h # k, handle[h].pc # "none", Working(h) \/ ~IsFuse(h)
    PROVE handle[k].file # handle[h].file
<1> USE DEF DriveInv, Standing
<1>1. handle[k].pc # "none" BY DEF Holds, Working
<1>2. CASE ~IsFuse(k) \/ ~IsFuse(h) BY <1>1, <1>2 DEF FilesStand, IsFuse
<1>3. CASE IsFuse(k) /\ IsFuse(h)
  <2>1. SUFFICES ASSUME handle[k].file = handle[h].file PROVE FALSE OBVIOUS
  <2>2. Alone(k) OBVIOUS
  <2>3. Working(h) BY <1>3
  <2>4. handle[k].pc # "failed" BY <1>3, <2>1, <2>2, <2>3 DEF Alone
  <2>5. Holds(k) BY <2>4
  <2>6. handle[h].at.leaf = handle[k].at.leaf BY <1>1, <1>3, <2>1 DEF FilesStand
  <2>7. h \in Sharing(handle[k].at.leaf) BY <1>3, <2>3, <2>6 DEF Sharing, Working, IsFuse
  <2> QED BY <1>3, <2>2, <2>5, <2>7 DEF Alone
<1> QED BY <1>2, <1>3

(* A handle that stays alone while others go on.                            *)
LEMMA StaysAlone ==
    ASSUME DriveInv, Goes, NEW k \in Handles \ clash,
           IsFuse(k) /\ Holds(k)' => tempName'[handle[k].at.leaf] = tempName[handle[k].at.leaf]
    PROVE Alone(k)'
<1> USE DEF DriveInv, Standing
<1>1. SUFFICES ASSUME IsFuse(k)'
               PROVE /\ Holds(k)' => /\ tempName'[handle'[k].at.leaf] = handle'[k].file
                                     /\ Sharing(handle[k].at.leaf)' \subseteq {k}
                     /\ handle'[k].pc = "failed" =>
                            \A h \in Handles : IsFuse(h)' /\ Working(h)' => handle'[h].file # handle'[k].file
  BY DEF Alone, Goes, Sharing
<1>2. IsFuse(k) /\ handle'[k].at = handle[k].at /\ handle'[k].file = handle[k].file
  BY <1>1 DEF Goes, IsFuse
<1>3. handle[k].at.leaf \in Leaves BY HandleTypes
<1>4. Alone(k) OBVIOUS
<1>5. ASSUME Holds(k)'
      PROVE tempName'[handle'[k].at.leaf] = handle'[k].file /\ Sharing(handle[k].at.leaf)' \subseteq {k}
  <2>1. Holds(k) BY <1>5 DEF Goes, Holds
  <2>2. PICK n \in Leaves : n = handle[k].at.leaf BY <1>3
  <2>3. n = handle'[k].at.leaf BY <1>2, <2>2
  <2>4. Sharing(n)' \subseteq Sharing(n) BY GoesStand
  <2>5. Sharing(n) \subseteq {k} /\ tempName[n] = handle[k].file BY <1>2, <1>4, <2>1, <2>2 DEF Alone
  <2> QED BY <1>2, <1>5, <2>1, <2>2, <2>3, <2>4, <2>5 DEF Sharing
<1>6. ASSUME handle'[k].pc = "failed", NEW h \in Handles, IsFuse(h)', Working(h)'
      PROVE handle'[h].file # handle'[k].file
  <2>1. Holds(k) \/ handle[k].pc = "failed" BY <1>6 DEF Goes, Holds
  <2>2. Working(h) /\ handle'[h].file = handle[h].file BY <1>6 DEF Goes
  <2>3. h # k BY <1>6 DEF Working
  <2>4. handle[h].pc # "none" BY <2>2 DEF Working
  <2> QED BY <1>2, <2>1, <2>2, <2>3, <2>4, Private
<1> QED BY <1>5, <1>6

(* A handle that a step of another one passes by.                           *)
LEMMA BystanderKeeps ==
    ASSUME DriveInv, Goes, RowsKept, NEW k \in Handles \ clash, handle'[k] = handle[k],
           given'[k] = given[k],
           Holds(k) \/ handle[k].pc = "failed" => inode'[handle[k].file] = inode[handle[k].file],
           IsFuse(k) /\ Holds(k) => tempName'[handle[k].at.leaf] = tempName[handle[k].at.leaf],
           IsFuse(k) /\ handle[k].pc = "failed" => unsaved'[handle[k].at.leaf] = unsaved[handle[k].at.leaf]
    PROVE Alone(k)' /\ Whole(k)' /\ Stored(k)'
<1> USE DEF DriveInv
<1>1. Whole(k) /\ Stored(k) OBVIOUS
<1>2. (Working(k)' <=> Working(k)) /\ (Holds(k)' <=> Holds(k)) BY DEF Holds, Working
<1>3. Alone(k)' BY <1>2, StaysAlone
<1>4. Whole(k)' BY <1>1, <1>2 DEF Whole, Working
<1>5. Stored(k)'
  <2>1. handle[k].pc = "saved" =>
            \E j \in DOMAIN listing' : listing'[j].bytes = given'[k]
    BY <1>1 DEF Stored, RowsKept
  <2> QED BY <1>1, <2>1 DEF Stored, IsFuse
<1> QED BY <1>3, <1>4, <1>5

(* Before anything is opened.                                               *)
LEMMA InitDrive == ASSUME MountedInit PROVE DriveInv
<1> USE MountedAssumption DEF MountedInit
<1>1. MountedTypeOK
  <2>1. handle \in [Handles -> HandleRecord] BY FreshRecords
  <2>2. inode \in [Handles -> Bytes] /\ given \in [Handles -> Bytes] BY EmptyBytes
  <2>3. listing \in Seq(RowRecord) BY EmptySeq
  <2>4. tempName \in [Leaves -> 0..NumHandles] /\ unsaved \in [Leaves -> 0..NumHandles]
        /\ pending \in [Spots -> 0..NumHandles]
    OBVIOUS
  <2>5. renaming \in [pc : {"none", "trash", "rename", "move"}, row : 0..NumHandles, to : Spots]
    BY FreshRecords
  <2> QED BY <2>1, <2>2, <2>3, <2>4, <2>5 DEF MountedTypeOK, HandleRecord, RowRecord
<1>2. \A h \in Handles : handle[h].pc = "none" /\ handle[h].kind = "fuse" BY FreshRecords
<1>3. FilesStand /\ FreshIsEmpty BY <1>2 DEF FilesStand, FreshIsEmpty
<1>4. NamesStand BY DEF NamesStand
<1>5. RowStands BY FreshRecords DEF RowStands
<1>6. \A h \in Handles : Alone(h) /\ Whole(h) /\ Stored(h)
  BY <1>2 DEF Alone, Whole, Stored, Holds, Working
<1> QED BY <1>1, <1>3, <1>4, <1>5, <1>6 DEF DriveInv, Standing

(* A file opened over FUSE takes over the temporary file of its leaf: who   *)
(* works with it is recorded, who failed with it no longer names it so.     *)
LEMMA CreateKeeps ==
    ASSUME DriveInv, NEW h \in Handles, NEW p \in Spots, Create(h, p)
    PROVE DriveInv'
<1> USE DEF DriveInv, Standing
<1>1. PICK mine : mine = IF tempName[p.leaf] = 0 THEN h ELSE tempName[p.leaf] OBVIOUS
<1>2. PICK x : x = [NoHandle EXCEPT !.pc = "open", !.at = p, !.file = mine] OBVIOUS
<1>3. /\ handle[h].pc = "none"
      /\ handle' = [handle EXCEPT ![h] = x]
      /\ inode' = [inode EXCEPT ![mine] = NoBytes]
      /\ tempName' = [tempName EXCEPT ![p.leaf] = mine]
      /\ pending' = [pending EXCEPT ![p] = h]
      /\ clash' = clash \cup Stranded(p.leaf)
                   \cup (IF Sharing(p.leaf) = {} THEN {} ELSE Sharing(p.leaf) \cup {h})
      /\ UNCHANGED <<unsaved, listing, renaming, renames, given>>
  BY <1>1, <1>2 DEF Create, IsNext, treeSide
<1>4. p.leaf \in Leaves BY DEF Spots
<1>5. tempName[p.leaf] \in 0..NumHandles BY <1>4 DEF MountedTypeOK
<1>6. mine \in Handles
  <2>1. \A m \in 0..NumHandles : m # 0 => m \in 1..NumHandles BY MountedAssumption
  <2> QED BY <1>1, <1>5, <2>1 DEF Handles
<1>7. x \in HandleRecord /\ x.pc = "open" /\ x.kind = "fuse" /\ x.at = p /\ x.file = mine
  <2>1. mine \in 0..NumHandles BY <1>6, MountedAssumption DEF Handles
  <2> QED BY <1>2, <2>1, FreshRecords DEF HandleRecord, NoHandle
<1>8. /\ handle' \in [Handles -> HandleRecord] /\ handle'[h] = x
      /\ \A k \in Handles : k # h => handle'[k] = handle[k]
  BY <1>3, <1>7, OneMoves
<1>9. mine # h => NamedFor(mine, p.leaf) /\ mine = tempName[p.leaf]
  BY <1>1, <1>4 DEF NamesStand
<1>10. clash \subseteq clash' BY <1>3
<1>11. Sharing(p.leaf) \subseteq Handles /\ Stranded(p.leaf) \subseteq Handles
  BY DEF Sharing, Stranded
<1>12. MountedTypeOK'
  <2>1. inode' \in [Handles -> Bytes] BY <1>3, EmptyBytes DEF MountedTypeOK
  <2>2. tempName' \in [Leaves -> 0..NumHandles]
    <3>1. mine \in 0..NumHandles BY <1>6, MountedAssumption DEF Handles
    <3> QED BY <1>3, <3>1 DEF MountedTypeOK
  <2>3. pending' \in [Spots -> 0..NumHandles]
    <3>1. h \in 0..NumHandles BY MountedAssumption DEF Handles
    <3> QED BY <1>3, <3>1 DEF MountedTypeOK
  <2>4. clash' \in SUBSET Handles BY <1>3, <1>11 DEF MountedTypeOK
  <2>5. /\ unsaved' \in [Leaves -> 0..NumHandles] /\ listing' \in Seq(RowRecord)
        /\ renaming' \in [pc : {"none", "trash", "rename", "move"}, row : 0..NumHandles, to : Spots]
        /\ renames' \in 0..MaxRenames /\ given' \in [Handles -> Bytes]
    BY <1>3 DEF MountedTypeOK, RowRecord
  <2> QED BY <1>8, <2>1, <2>2, <2>3, <2>4, <2>5, TypesFollow
<1>13. \A m \in Handles, n \in Leaves : NamedFor(m, n) => m # h /\ NamedFor(m, n)'
  BY <1>3, <1>8 DEF NamedFor, IsFuse
<1>14. NamedFor(mine, p.leaf)' BY <1>4, <1>6, <1>7, <1>8, <1>9, <1>13 DEF NamedFor, IsFuse
<1>15. FilesStand'
  <2>1. ASSUME NEW k \in Handles, handle'[k].pc # "none"
        PROVE /\ handle'[k].file \in Handles /\ handle'[handle'[k].file].pc # "none"
              /\ ~IsFuse(k)' => handle'[k].file = k
              /\ IsFuse(k)' => handle'[handle'[k].file].kind = "fuse"
                               /\ handle'[handle'[k].file].at.leaf = handle'[k].at.leaf
              /\ handle'[k].pc = "stranded" => IsFuse(k)'
    <3>1. CASE k = h BY <1>6, <1>7, <1>8, <1>14, <3>1 DEF NamedFor, IsFuse
    <3>2. CASE k # h
      <4>1. handle'[k] = handle[k] /\ handle[k].file \in Handles /\ handle[handle[k].file].pc # "none"
        BY <1>8, <2>1, <3>2 DEF FilesStand
      <4>2. handle'[handle[k].file] = handle[handle[k].file] BY <1>3, <1>8, <4>1
      <4> QED BY <2>1, <4>1, <4>2 DEF FilesStand, IsFuse
    <3> QED BY <3>1, <3>2
  <2> QED BY <2>1 DEF FilesStand, IsFuse
<1>16. NamesStand'
  <2>1. ASSUME NEW n \in Leaves
        PROVE /\ tempName'[n] # 0 => NamedFor(tempName[n], n)' \/ n = p.leaf
              /\ unsaved[n] # 0 => NamedFor(unsaved[n], n)' /\ unsaved[n] # tempName'[n]
    <3>1. tempName[n] \in 0..NumHandles /\ unsaved[n] \in 0..NumHandles BY DEF MountedTypeOK
    <3>2. \A m \in 0..NumHandles : m # 0 => m \in Handles BY MountedAssumption DEF Handles
    <3>3. tempName'[n] = IF n = p.leaf THEN mine ELSE tempName[n] BY <1>3 DEF MountedTypeOK
    <3>4. ASSUME unsaved[n] # 0 PROVE NamedFor(unsaved[n], n)' /\ unsaved[n] # tempName'[n]
      <4>1. NamedFor(unsaved[n], n) /\ unsaved[n] # tempName[n] BY <3>4 DEF NamesStand
      <4>2. unsaved[n] # h BY <1>3, <4>1 DEF NamedFor
      <4>3. unsaved[n] # tempName'[n] BY <1>9, <3>3, <4>1, <4>2
      <4>4. PICK m \in Handles : m = unsaved[n] BY <3>1, <3>2, <3>4
      <4>5. NamedFor(m, n)' BY <1>13, <4>1, <4>4
      <4> QED BY <1>3, <4>3, <4>4, <4>5 DEF NamedFor, IsFuse
    <3>5. ASSUME tempName'[n] # 0, n # p.leaf PROVE NamedFor(tempName[n], n)'
      <4>1. PICK m \in Handles : m = tempName[n] BY <3>1, <3>2, <3>3, <3>5
      <4>2. NamedFor(m, n) BY <3>3, <3>5, <4>1 DEF NamesStand
      <4>3. NamedFor(m, n)' BY <1>13, <4>2
      <4>4. m = tempName'[n] BY <3>3, <3>5, <4>1
      <4> QED BY <4>3, <4>4 DEF NamedFor, IsFuse
    <3> QED BY <3>4, <3>5
  <2> QED BY <1>3, <1>4, <1>14, <2>1 DEF NamesStand, NamedFor, IsFuse, MountedTypeOK
<1>17. FreshIsEmpty'
  <2>1. ASSUME NEW k \in Handles, handle'[k].pc = "none"
        PROVE given'[k] = NoBytes /\ inode'[k] = NoBytes
    <3>1. k # h /\ handle[k].pc = "none" BY <1>7, <1>8, <2>1
    <3>2. k # mine BY <1>9, <3>1 DEF NamedFor
    <3> QED BY <1>3, <3>1, <3>2 DEF FreshIsEmpty, MountedTypeOK
  <2> QED BY <2>1 DEF FreshIsEmpty
<1>18. RowStands' BY <1>3 DEF RowStands
<1>19. ASSUME NEW k \in Handles, k \notin clash', k # h
       PROVE Alone(k)' /\ Whole(k)' /\ Stored(k)'
  <2>1. k \notin clash /\ Alone(k) /\ Whole(k) /\ Stored(k) BY <1>10, <1>19
  <2>2. handle'[k] = handle[k] BY <1>8, <1>19
  <2>3. PICK n \in Leaves : n = handle[k].at.leaf BY HandleTypes
  <2>4. IsFuse(k) /\ Holds(k) => n # p.leaf
    <3>1. SUFFICES ASSUME IsFuse(k), Holds(k), n = p.leaf PROVE FALSE OBVIOUS
    <3>2. k \in Sharing(p.leaf) \/ k \in Stranded(p.leaf)
      BY <2>3, <3>1 DEF Sharing, Stranded, Holds, Working, IsFuse
    <3> QED BY <1>3, <1>19, <3>2
  <2>5. ASSUME IsFuse(k), handle[k].pc = "failed" PROVE handle[k].file # mine
    <3>1. handle[k].file \in Handles /\ handle[handle[k].file].pc # "none"
          /\ handle[handle[k].file].at.leaf = n
      BY <2>3, <2>5 DEF FilesStand
    <3>2. CASE mine = h BY <1>3, <3>1, <3>2
    <3>3. CASE mine # h
      <4>1. SUFFICES ASSUME handle[k].file = mine PROVE FALSE OBVIOUS
      <4>2. n = p.leaf BY <1>9, <3>1, <3>3, <4>1 DEF NamedFor
      <4>3. unsaved[n] = mine BY <2>1, <2>3, <2>5, <4>1 DEF Stored
      <4>4. mine # 0 BY <1>6 DEF Handles
      <4> QED BY <1>9, <3>3, <4>2, <4>3, <4>4 DEF NamesStand
    <3> QED BY <3>2, <3>3
  <2>6. ASSUME Holds(k) \/ handle[k].pc = "failed" PROVE handle[k].file # mine
    <3>1. handle[k].pc # "none" BY <2>6 DEF Holds, Working
    <3>2. CASE ~IsFuse(k) BY <1>9, <1>19, <3>1, <3>2 DEF FilesStand, NamedFor
    <3>3. CASE IsFuse(k) /\ Holds(k)
      <4>1. handle[k].file \in Handles /\ handle[handle[k].file].pc # "none"
            /\ handle[handle[k].file].at.leaf = n
        BY <2>3, <3>1, <3>3 DEF FilesStand
      <4> QED BY <1>3, <1>9, <2>4, <3>3, <4>1 DEF NamedFor
    <3> QED BY <2>5, <2>6, <3>2, <3>3
  <2>7. Alone(k)'
    <3>1. ASSUME IsFuse(k), Holds(k)
          PROVE tempName'[n] = handle[k].file /\ Sharing(n)' \subseteq {k}
      <4>1. tempName[n] = handle[k].file /\ Sharing(n) \subseteq {k} BY <2>1, <2>3, <3>1 DEF Alone
      <4>2. tempName'[n] = tempName[n] BY <1>3, <2>4, <3>1 DEF MountedTypeOK
      <4>3. h \notin Sharing(n)' BY <1>7, <1>8, <2>4, <3>1 DEF Sharing
      <4>4. \A g \in Handles : g # h /\ g \in Sharing(n)' => g \in Sharing(n) BY <1>8 DEF Sharing
      <4>5. Sharing(n)' \subseteq Handles BY DEF Sharing
      <4> QED BY <4>1, <4>2, <4>3, <4>4, <4>5
    <3>2. ASSUME IsFuse(k), handle[k].pc = "failed", NEW g \in Handles, IsFuse(g)', Working(g)'
          PROVE handle'[g].file # handle[k].file
      <4>1. CASE g = h BY <1>7, <1>8, <2>5, <3>2, <4>1
      <4>2. CASE g # h
        <5>1. handle'[g] = handle[g] /\ IsFuse(g) /\ Working(g)
          BY <1>8, <3>2, <4>2 DEF IsFuse, Working
        <5> QED BY <2>1, <3>2, <5>1 DEF Alone
      <4> QED BY <4>1, <4>2
    <3>3. (IsFuse(k)' <=> IsFuse(k)) /\ (Holds(k)' <=> Holds(k)) BY <2>2 DEF IsFuse, Holds, Working
    <3>4. n = handle'[k].at.leaf BY <2>2, <2>3
    <3> QED BY <2>2, <2>3, <3>1, <3>2, <3>3, <3>4 DEF Alone, Sharing
  <2>8. Whole(k)'
    <3>1. Holds(k) \/ handle[k].pc = "failed" => inode'[handle[k].file] = inode[handle[k].file]
      <4>1. \A f \in Handles : f # mine => inode'[f] = inode[f] BY <1>3 DEF MountedTypeOK
      <4>2. handle[k].pc # "none" => handle[k].file \in Handles BY DEF FilesStand
      <4> QED BY <2>6, <4>1, <4>2 DEF Holds, Working
    <3> QED BY <1>3, <2>1, <2>2, <3>1 DEF Whole, Holds, Working
  <2>9. Stored(k)' BY <1>3, <2>1, <2>2 DEF Stored, IsFuse
  <2> QED BY <2>7, <2>8, <2>9
<1>20. ASSUME h \notin clash' PROVE Alone(h)' /\ Whole(h)' /\ Stored(h)'
  <2>1. Sharing(p.leaf) = {} BY <1>3, <1>20
  <2>2. Sharing(p.leaf)' \subseteq {h}
    <3>1. \A g \in Handles : g # h /\ g \in Sharing(p.leaf)' => g \in Sharing(p.leaf)
      BY <1>8 DEF Sharing
    <3>2. Sharing(p.leaf)' \subseteq Handles BY DEF Sharing
    <3> QED BY <2>1, <3>1, <3>2
  <2>3. tempName'[p.leaf] = mine BY <1>3, <1>4 DEF MountedTypeOK
  <2>4. handle'[h].at.leaf = p.leaf /\ handle'[h].file = mine /\ handle'[h].pc = "open"
    BY <1>7, <1>8
  <2>5. Alone(h)' BY <2>2, <2>3, <2>4 DEF Alone, Sharing
  <2>6. inode'[mine] = given'[h] BY <1>3, <1>6 DEF FreshIsEmpty, MountedTypeOK
  <2>7. Whole(h)' BY <2>4, <2>6 DEF Whole
  <2>8. Stored(h)' BY <2>4 DEF Stored
  <2> QED BY <2>5, <2>7, <2>8
<1> QED BY <1>12, <1>15, <1>16, <1>17, <1>18, <1>19, <1>20

(* A file of its own is nobody else's.                                      *)
LEMMA OpenOwnKeeps ==
    ASSUME DriveInv, NEW h \in Handles, NEW p \in Spots, NEW kind \in {"dav", "tus"},
           OpenOwn(h, p, kind)
    PROVE DriveInv'
<1> USE DEF DriveInv, Standing
<1>1. PICK x : x = [NoHandle EXCEPT !.pc = "open", !.kind = kind, !.at = p, !.file = h] OBVIOUS
<1>2. /\ handle[h].pc = "none"
      /\ handle' = [handle EXCEPT ![h] = x]
      /\ UNCHANGED <<inode, tempName, unsaved, pending, listing, renaming, renames, given, clash>>
  BY <1>1 DEF OpenOwn, IsNext, tempVars, treeSide
<1>3. x \in HandleRecord /\ x.pc = "open" /\ x.kind = kind /\ x.at = p /\ x.file = h
  <2>1. h \in 0..NumHandles BY MountedAssumption DEF Handles
  <2> QED BY <1>1, <2>1, FreshRecords DEF HandleRecord, NoHandle
<1>4. /\ handle' \in [Handles -> HandleRecord] /\ handle'[h] = x
      /\ \A k \in Handles : k # h => handle'[k] = handle[k]
  BY <1>2, <1>3, OneMoves
<1>5. MountedTypeOK' BY <1>2, <1>4 DEF MountedTypeOK, HandleRecord
<1>6. \A m \in Handles, n \in Leaves : NamedFor(m, n) => m # h /\ NamedFor(m, n)'
  BY <1>2, <1>4 DEF NamedFor, IsFuse
<1>7. FilesStand'
  <2>1. ASSUME NEW k \in Handles, handle'[k].pc # "none"
        PROVE /\ handle'[k].file \in Handles /\ handle'[handle'[k].file].pc # "none"
              /\ ~IsFuse(k)' => handle'[k].file = k
              /\ IsFuse(k)' => handle'[handle'[k].file].kind = "fuse"
                               /\ handle'[handle'[k].file].at.leaf = handle'[k].at.leaf
              /\ handle'[k].pc = "stranded" => IsFuse(k)'
    <3>1. CASE k = h BY <1>3, <1>4, <3>1 DEF IsFuse
    <3>2. CASE k # h
      <4>1. handle'[k] = handle[k] /\ handle[k].file \in Handles /\ handle[handle[k].file].pc # "none"
        BY <1>4, <2>1, <3>2 DEF FilesStand
      <4>2. handle'[handle[k].file] = handle[handle[k].file] BY <1>2, <1>4, <4>1
      <4> QED BY <2>1, <4>1, <4>2 DEF FilesStand, IsFuse
    <3> QED BY <3>1, <3>2
  <2> QED BY <2>1 DEF FilesStand, IsFuse
<1>8. NamesStand'
  <2>1. \A m \in 0..NumHandles : m # 0 => m \in Handles BY MountedAssumption DEF Handles
  <2>2. ASSUME NEW n \in Leaves
        PROVE /\ tempName[n] # 0 => NamedFor(tempName[n], n)'
              /\ unsaved[n] # 0 => NamedFor(unsaved[n], n)' /\ unsaved[n] # tempName[n]
    <3>1. PICK t \in 0..NumHandles, u \in 0..NumHandles : t = tempName[n] /\ u = unsaved[n]
      BY DEF MountedTypeOK
    <3>2. t # 0 => NamedFor(t, n) BY <3>1 DEF NamesStand
    <3>3. u # 0 => NamedFor(u, n) /\ u # t BY <3>1 DEF NamesStand
    <3>4. t # 0 => NamedFor(t, n)' BY <1>6, <2>1, <3>2
    <3>5. u # 0 => NamedFor(u, n)' BY <1>6, <2>1, <3>3
    <3>6. t = tempName'[n] /\ u = unsaved'[n] BY <1>2, <3>1
    <3> QED BY <3>1, <3>3, <3>4, <3>5, <3>6 DEF NamedFor, IsFuse
  <2> QED BY <1>2, <2>2 DEF NamesStand, NamedFor, IsFuse
<1>9. FreshIsEmpty' BY <1>2, <1>3, <1>4 DEF FreshIsEmpty
<1>10. RowStands' BY <1>2 DEF RowStands
<1>11. ~IsFuse(h)' BY <1>3, <1>4 DEF IsFuse
<1>12. \A n \in Leaves : Sharing(n)' \subseteq Sharing(n)
  <2>1. ASSUME NEW n \in Leaves, NEW g \in Handles, g \in Sharing(n)' PROVE g \in Sharing(n)
    <3>1. g # h BY <1>11, <2>1 DEF Sharing, IsFuse
    <3> QED BY <1>4, <2>1, <3>1 DEF Sharing
  <2> QED BY <2>1 DEF Sharing
<1>13. ASSUME NEW k \in Handles, k \notin clash', k # h PROVE Alone(k)' /\ Whole(k)' /\ Stored(k)'
  <2>1. k \notin clash /\ Alone(k) /\ Whole(k) /\ Stored(k) BY <1>2, <1>13
  <2>2. handle'[k] = handle[k] BY <1>4, <1>13
  <2>3. PICK n \in Leaves : n = handle[k].at.leaf BY HandleTypes
  <2>4. Alone(k)'
    <3>1. IsFuse(k) /\ Holds(k) => tempName[n] = handle[k].file /\ Sharing(n)' \subseteq {k}
      BY <1>12, <2>1, <2>3 DEF Alone
    <3>2. ASSUME IsFuse(k), handle[k].pc = "failed", NEW g \in Handles, IsFuse(g)', Working(g)'
          PROVE handle'[g].file # handle[k].file
      <4>1. g # h BY <1>11, <3>2
      <4>2. handle'[g] = handle[g] /\ IsFuse(g) /\ Working(g)
        BY <1>4, <3>2, <4>1 DEF IsFuse, Working
      <4> QED BY <2>1, <3>2, <4>2 DEF Alone
    <3>3. (IsFuse(k)' <=> IsFuse(k)) /\ (Holds(k)' <=> Holds(k)) BY <2>2 DEF IsFuse, Holds, Working
    <3> QED BY <1>2, <2>2, <2>3, <3>1, <3>2, <3>3 DEF Alone, Sharing
  <2>5. Whole(k)' BY <1>2, <2>1, <2>2 DEF Whole, Holds, Working
  <2>6. Stored(k)' BY <1>2, <2>1, <2>2 DEF Stored, IsFuse
  <2> QED BY <2>4, <2>5, <2>6
<1>14. Alone(h)' BY <1>11 DEF Alone
<1>15. Whole(h)' BY <1>2, <1>3, <1>4 DEF Whole, FreshIsEmpty
<1>16. Stored(h)' BY <1>3, <1>4 DEF Stored
<1> QED BY <1>5, <1>7, <1>8, <1>9, <1>10, <1>13, <1>14, <1>15, <1>16

(* Where no handle is opened and names are only removed or kept, the parts  *)
(* that do not speak of bytes stand.                                        *)
LEMMA GoesOn ==
    ASSUME Standing, Goes, MountedTypeOK',
           \A n \in Leaves : /\ tempName'[n] \in {tempName[n], 0}
                             /\ \/ unsaved'[n] = unsaved[n]
                                \/ unsaved'[n] = tempName[n] /\ tempName'[n] = 0,
           \A k \in Handles : handle[k].pc = "none" => given'[k] = given[k] /\ inode'[k] = inode[k],
           RowStands'
    PROVE Standing'
<1> USE DEF Standing
<1>1. FilesStand' BY GoesStand
<1>2. NamesStand'
  <2>1. \A m \in 0..NumHandles : m # 0 => m \in Handles BY MountedAssumption DEF Handles
  <2>2. \A m \in Handles, n \in Leaves : NamedFor(m, n)' <=> NamedFor(m, n) BY GoesStand
  <2>3. ASSUME NEW n \in Leaves
        PROVE /\ tempName'[n] # 0 => NamedFor(tempName[n], n)'
              /\ unsaved'[n] # 0 => NamedFor(unsaved[n], n)' /\ unsaved'[n] # tempName'[n]
    <3>1. PICK t \in 0..NumHandles, u \in 0..NumHandles : t = tempName[n] /\ u = unsaved[n]
      BY DEF MountedTypeOK
    <3>2. t # 0 => NamedFor(t, n) BY <3>1 DEF NamesStand
    <3>3. u # 0 => NamedFor(u, n) /\ u # t BY <3>1 DEF NamesStand
    <3>4. PICK v \in 0..NumHandles, w \in 0..NumHandles : v = tempName'[n] /\ w = unsaved'[n]
      BY DEF MountedTypeOK
    <3>5. v # 0 => v = t /\ NamedFor(v, n)' BY <2>1, <2>2, <3>1, <3>2, <3>4
    <3>6. w # 0 => NamedFor(w, n)' /\ w # v
      <4>1. CASE w = u /\ v \in {t, 0} BY <2>1, <2>2, <3>3, <4>1
      <4>2. CASE w = t /\ v = 0 BY <2>1, <2>2, <3>2, <4>2
      <4> QED BY <3>1, <3>4, <4>1, <4>2
    <3> QED BY <3>4, <3>5, <3>6 DEF NamedFor, IsFuse
  <2> QED BY <2>3 DEF NamesStand, NamedFor, IsFuse
<1>3. FreshIsEmpty' BY DEF FreshIsEmpty, Goes
<1> QED BY <1>1, <1>2, <1>3

(* One handle goes on.                                                      *)
LEMMA OneGoes ==
    ASSUME MountedTypeOK, NEW h \in Handles, NEW x \in HandleRecord,
           handle' = [handle EXCEPT ![h] = x], handle[h].pc # "none", x.pc # "none",
           x.kind = handle[h].kind, x.at = handle[h].at, x.file = handle[h].file,
           x.pc \in {"open", "saving", "storing", "failed", "stranded"} =>
               Working(h) \/ (x.pc = "failed" /\ handle[h].pc = "failed"),
           x.pc = "stranded" => IsFuse(h)
    PROVE /\ Goes /\ handle' \in [Handles -> HandleRecord] /\ handle'[h] = x
          /\ \A k \in Handles : k # h => handle'[k] = handle[k]
<1>1. /\ handle' \in [Handles -> HandleRecord] /\ handle'[h] = x
      /\ \A k \in Handles : k # h => handle'[k] = handle[k]
  BY OneMoves
<1>2. ASSUME NEW k \in Handles
      PROVE /\ handle'[k].kind = handle[k].kind /\ handle'[k].at = handle[k].at
            /\ handle'[k].file = handle[k].file
            /\ handle'[k].pc = "none" <=> handle[k].pc = "none"
            /\ Working(k)' => Working(k)
            /\ handle'[k].pc = "failed" => Working(k) \/ handle[k].pc = "failed"
            /\ handle'[k].pc = "stranded" =>
                   handle[k].pc = "stranded" \/ (Working(k) /\ IsFuse(k))
  <2>1. CASE k = h BY <1>1, <2>1 DEF Working
  <2>2. CASE k # h BY <1>1, <2>2 DEF Working
  <2> QED BY <2>1, <2>2
<1> QED BY <1>1, <1>2 DEF Goes

LEMMA SameRows == ASSUME listing' = listing PROVE RowsKept
  BY DEF RowsKept

(* What is written for a handle is written to its file, and to that of no   *)
(* other one that is alone.                                                 *)
LEMMA WriteKeeps ==
    ASSUME DriveInv, NEW h \in Handles, handle[h].pc = "open", NEW x \in HandleRecord,
           handle' = [handle EXCEPT ![h] = x], x.pc = "open", x.kind = handle[h].kind,
           x.at = handle[h].at, x.file = handle[h].file,
           NEW y \in Bytes, NEW z \in Bytes,
           inode' = [inode EXCEPT ![handle[h].file] = y], given' = [given EXCEPT ![h] = z],
           inode[handle[h].file] = given[h] => y = z,
           UNCHANGED <<tempName, unsaved, pending, treeSide, clash>>
    PROVE DriveInv'
<1> USE DEF DriveInv, Standing, treeSide
<1>1. /\ Goes /\ handle' \in [Handles -> HandleRecord] /\ handle'[h] = x
      /\ \A k \in Handles : k # h => handle'[k] = handle[k]
  BY OneGoes DEF Working
<1>2. handle[h].file \in Handles /\ handle[handle[h].file].pc # "none" BY DEF FilesStand
<1>3. /\ inode' \in [Handles -> Bytes] /\ inode'[handle[h].file] = y
      /\ \A f \in Handles : f # handle[h].file => inode'[f] = inode[f]
  BY <1>2 DEF MountedTypeOK
<1>4. /\ given' \in [Handles -> Bytes] /\ given'[h] = z
      /\ \A k \in Handles : k # h => given'[k] = given[k]
  BY DEF MountedTypeOK
<1>5. MountedTypeOK' BY <1>1, <1>3, <1>4 DEF MountedTypeOK, HandleRecord
<1>6. Standing'
  <2>1. \A k \in Handles : handle[k].pc = "none" => given'[k] = given[k] /\ inode'[k] = inode[k]
    BY <1>2, <1>3, <1>4
  <2>2. RowStands' BY DEF RowStands
  <2>3. \A n \in Leaves : /\ tempName'[n] \in {tempName[n], 0}
                          /\ \/ unsaved'[n] = unsaved[n]
                             \/ unsaved'[n] = tempName[n] /\ tempName'[n] = 0
    OBVIOUS
  <2> QED BY <1>1, <1>5, <2>1, <2>2, <2>3, GoesOn
<1>7. ASSUME NEW k \in Handles \ clash, k # h PROVE Alone(k)' /\ Whole(k)' /\ Stored(k)'
  <2>1. Holds(k) \/ handle[k].pc = "failed" => inode'[handle[k].file] = inode[handle[k].file]
    <3>1. SUFFICES ASSUME Holds(k) \/ handle[k].pc = "failed"
                   PROVE inode'[handle[k].file] = inode[handle[k].file]
      OBVIOUS
    <3>2. handle[k].file # handle[h].file BY <1>7, <3>1, Private DEF Working
    <3>3. handle[k].file \in Handles BY <3>1 DEF FilesStand, Holds, Working
    <3> QED BY <1>3, <3>2, <3>3
  <2>2. handle'[k] = handle[k] /\ given'[k] = given[k] BY <1>1, <1>4, <1>7
  <2> QED BY <1>1, <2>1, <2>2, SameRows, BystanderKeeps
<1>8. ASSUME h \notin clash PROVE Alone(h)' /\ Whole(h)' /\ Stored(h)'
  <2>1. Alone(h)' BY <1>1, <1>8, StaysAlone
  <2>2. Whole(h) BY <1>8
  <2>3. inode'[handle'[h].file] = given'[h] BY <1>1, <1>3, <1>4, <2>2 DEF Whole, Holds, Working
  <2>4. Whole(h)' BY <1>1, <2>3 DEF Whole
  <2>5. Stored(h)' BY <1>1 DEF Stored
  <2> QED BY <2>1, <2>4, <2>5
<1> QED BY <1>6, <1>7, <1>8

LEMMA WritingKeeps ==
    ASSUME DriveInv, NEW h \in Handles,
           \/ \E b \in Blocks, d \in Data : WriteAt(h, b, d)
           \/ \E d \in Data : Write(h, d)
           \/ \E n \in 0..(NumBlocks - 1) : Truncate(h, n)
    PROVE DriveInv'
<1> USE DEF DriveInv, Standing
<1>1. handle[h] \in HandleRecord /\ given[h] \in Bytes /\ inode[h] \in Bytes BY HandleTypes
<1>2. handle = [handle EXCEPT ![h] = handle[h]] BY DEF MountedTypeOK
<1>3. ASSUME handle[h].pc = "open"
      PROVE handle[h].file \in Handles /\ inode[handle[h].file] \in Bytes
  <2>1. handle[h].file \in Handles BY <1>3 DEF FilesStand
  <2> QED BY <2>1 DEF MountedTypeOK
<1>4. \A s \in Bytes, b \in Blocks, d \in Data : [s EXCEPT ![b] = d] \in Bytes
  BY DEF Bytes
<1>5. ASSUME NEW b \in Blocks, NEW d \in Data, WriteAt(h, b, d) PROVE DriveInv'
  <2>1. /\ handle[h].pc = "open" /\ handle' = handle
        /\ inode' = [inode EXCEPT ![handle[h].file] = [inode[handle[h].file] EXCEPT ![b] = d]]
        /\ given' = [given EXCEPT ![h] = [given[h] EXCEPT ![b] = d]]
        /\ UNCHANGED <<tempName, unsaved, pending, treeSide, clash>>
    BY <1>5 DEF WriteAt, PutBytes
  <2>2. /\ [inode[handle[h].file] EXCEPT ![b] = d] \in Bytes /\ [given[h] EXCEPT ![b] = d] \in Bytes
    BY <1>1, <1>3, <1>4, <2>1
  <2> HIDE DEF DriveInv
  <2> QED BY <1>1, <1>2, <2>1, <2>2, WriteKeeps
<1>6. ASSUME NEW d \in Data, Write(h, d) PROVE DriveInv'
  <2>1. PICK b : b = handle[h].offset + 1 OBVIOUS
  <2>2. /\ handle[h].pc = "open" /\ handle[h].offset < NumBlocks
        /\ handle' = [handle EXCEPT ![h] = [handle[h] EXCEPT !.offset = b]]
        /\ inode' = [inode EXCEPT ![handle[h].file] = [inode[handle[h].file] EXCEPT ![b] = d]]
        /\ given' = [given EXCEPT ![h] = [given[h] EXCEPT ![b] = d]]
        /\ UNCHANGED <<tempName, unsaved, pending, treeSide, clash>>
    BY <1>6, <2>1 DEF Write, PutBytes
  <2>3. b \in Blocks /\ b \in 0..NumBlocks
    <3>1. handle[h].offset \in 0..NumBlocks BY HandleTypes
    <3> QED BY <2>1, <2>2, <3>1, MountedAssumption DEF Blocks
  <2>4. /\ [inode[handle[h].file] EXCEPT ![b] = d] \in Bytes /\ [given[h] EXCEPT ![b] = d] \in Bytes
    BY <1>1, <1>3, <1>4, <2>2, <2>3
  <2>5. PICK x : x = [handle[h] EXCEPT !.offset = b] OBVIOUS
  <2>6. x \in HandleRecord /\ x.pc = "open" /\ x.kind = handle[h].kind /\ x.at = handle[h].at
        /\ x.file = handle[h].file
    BY <1>1, <2>2, <2>3, <2>5 DEF HandleRecord
  <2> HIDE DEF DriveInv
  <2> QED BY <2>2, <2>4, <2>5, <2>6, WriteKeeps
<1>7. ASSUME NEW m \in 0..(NumBlocks - 1), Truncate(h, m) PROVE DriveInv'
  <2>1. PICK y, z : /\ y = [b \in Blocks |-> IF b > m THEN Hole ELSE inode[handle[h].file][b]]
                    /\ z = [b \in Blocks |-> IF b > m THEN Hole ELSE given[h][b]]
    OBVIOUS
  <2>2. /\ handle[h].pc = "open" /\ handle' = handle
        /\ inode' = [inode EXCEPT ![handle[h].file] = y] /\ given' = [given EXCEPT ![h] = z]
        /\ UNCHANGED <<tempName, unsaved, pending, treeSide, clash>>
    BY <1>7, <2>1 DEF Truncate
  <2>3. y \in Bytes /\ z \in Bytes BY <1>1, <1>3, <2>1, <2>2 DEF Bytes
  <2>4. inode[handle[h].file] = given[h] => y = z BY <2>1
  <2> HIDE DEF DriveInv
  <2> QED BY <1>1, <1>2, <2>2, <2>3, <2>4, WriteKeeps
<1> QED BY <1>5, <1>6, <1>7

(* The janitor takes a file no other handle writes to.                      *)
LEMMA SweepKeeps == ASSUME DriveInv, NEW h \in Handles, Sweep(h) PROVE DriveInv'
<1> USE DEF DriveInv, Standing, treeSide
<1>1. PICK x : x = [handle[h] EXCEPT !.pc = "lost"] OBVIOUS
<1>2. /\ handle[h].kind = "tus" /\ handle[h].pc \in {"open", "failed"}
      /\ handle' = [handle EXCEPT ![h] = x]
      /\ inode' = [inode EXCEPT ![handle[h].file] = NoBytes]
      /\ UNCHANGED <<tempName, unsaved, pending, listing, renaming, renames, given, clash>>
  BY <1>1 DEF Sweep
<1>3. x \in HandleRecord /\ x.pc = "lost" /\ x.kind = handle[h].kind /\ x.at = handle[h].at
      /\ x.file = handle[h].file
  BY <1>1, HandleTypes DEF HandleRecord
<1>4. /\ Goes /\ handle' \in [Handles -> HandleRecord] /\ handle'[h] = x
      /\ \A k \in Handles : k # h => handle'[k] = handle[k]
  BY <1>2, <1>3, OneGoes DEF Working
<1>5. handle[h].file = h BY <1>2 DEF FilesStand, IsFuse
<1>6. inode' \in [Handles -> Bytes] /\ \A f \in Handles : f # h => inode'[f] = inode[f]
  BY <1>2, <1>5, EmptyBytes DEF MountedTypeOK
<1>7. MountedTypeOK' BY <1>2, <1>4, <1>6 DEF MountedTypeOK, HandleRecord
<1>8. Standing'
  <2>1. \A k \in Handles : handle[k].pc = "none" => given'[k] = given[k] /\ inode'[k] = inode[k]
    BY <1>2, <1>6
  <2>2. RowStands' BY <1>2 DEF RowStands
  <2>3. \A n \in Leaves : /\ tempName'[n] \in {tempName[n], 0}
                          /\ \/ unsaved'[n] = unsaved[n]
                             \/ unsaved'[n] = tempName[n] /\ tempName'[n] = 0
    BY <1>2
  <2> QED BY <1>4, <1>7, <2>1, <2>2, <2>3, GoesOn
<1>9. ASSUME NEW k \in Handles \ clash, k # h PROVE Alone(k)' /\ Whole(k)' /\ Stored(k)'
  <2>1. Holds(k) \/ handle[k].pc = "failed" => inode'[handle[k].file] = inode[handle[k].file]
    <3>1. SUFFICES ASSUME Holds(k) \/ handle[k].pc = "failed"
                   PROVE inode'[handle[k].file] = inode[handle[k].file]
      OBVIOUS
    <3>2. ~IsFuse(h) /\ handle[h].pc # "none" BY <1>2 DEF IsFuse
    <3>3. handle[k].file # handle[h].file BY <1>9, <3>1, <3>2, Private
    <3>4. handle[k].file \in Handles BY <3>1 DEF FilesStand, Holds, Working
    <3> QED BY <1>5, <1>6, <3>3, <3>4
  <2>2. handle'[k] = handle[k] /\ given'[k] = given[k] BY <1>2, <1>4, <1>9
  <2> QED BY <1>2, <1>4, <2>1, <2>2, SameRows, BystanderKeeps
<1>10. Alone(h)' /\ Whole(h)' /\ Stored(h)'
  BY <1>2, <1>3, <1>4 DEF Alone, Whole, Stored, IsFuse, Holds, Working
<1> QED BY <1>2, <1>8, <1>9, <1>10

(* Closing a file, also where it fails, and copying it touch neither files  *)
(* nor names.                                                               *)
LEMMA ClosingKeeps ==
    ASSUME DriveInv, NEW h \in Handles, Close(h) \/ CloseFails(h) \/ CopyBlock(h) \/ SaveUnknown(h)
    PROVE DriveInv'
<1> USE DEF DriveInv, Standing, treeSide, tempVars
<1>1. ASSUME NEW x \in HandleRecord, handle' = [handle EXCEPT ![h] = x],
             x.pc \in {"saving", "storing", "failed", "stranded"},
             x.pc = "failed" => ~IsFuse(h), x.pc = "stranded" => IsFuse(h),
             x.pc = "storing" => x.offset = NumBlocks,
             x.kind = handle[h].kind, x.at = handle[h].at, x.file = handle[h].file, Working(h),
             pending' \in [Spots -> 0..NumHandles],
             UNCHANGED <<inode, tempName, unsaved, treeSide, given, clash>>,
             h \notin clash /\ x.pc \in {"saving", "storing"} =>
                 \A b \in Blocks : b <= x.offset => x.copied[b] = given[h][b]
      PROVE DriveInv'
  <2>1. handle[h].pc # "none" BY <1>1 DEF Working
  <2>2. /\ Goes /\ handle' \in [Handles -> HandleRecord] /\ handle'[h] = x
        /\ \A k \in Handles : k # h => handle'[k] = handle[k]
    BY <1>1, <2>1, OneGoes
  <2>3. MountedTypeOK' BY <1>1, <2>2 DEF MountedTypeOK, HandleRecord
  <2>4. Standing'
    <3>1. RowStands' BY <1>1 DEF RowStands
    <3>2. \A k \in Handles : handle[k].pc = "none" => given'[k] = given[k] /\ inode'[k] = inode[k]
      BY <1>1
    <3>3. \A n \in Leaves : /\ tempName'[n] \in {tempName[n], 0}
                            /\ \/ unsaved'[n] = unsaved[n]
                               \/ unsaved'[n] = tempName[n] /\ tempName'[n] = 0
      BY <1>1
    <3> QED BY <2>2, <2>3, <3>1, <3>2, <3>3, GoesOn
  <2>5. ASSUME NEW k \in Handles \ clash, k # h PROVE Alone(k)' /\ Whole(k)' /\ Stored(k)'
    <3>1. handle'[k] = handle[k] BY <2>2, <2>5
    <3> QED BY <1>1, <2>2, <3>1, SameRows, BystanderKeeps
  <2>6. ASSUME h \notin clash PROVE Alone(h)' /\ Whole(h)' /\ Stored(h)'
    <3>1. Alone(h)' BY <1>1, <2>2, <2>6, StaysAlone
    <3>2. Whole(h) BY <2>6
    <3>3. Whole(h)' BY <1>1, <2>2, <2>6, <3>2 DEF Whole, Holds
    <3>4. Stored(h)' BY <1>1, <2>2 DEF Stored, IsFuse
    <3> QED BY <3>1, <3>3, <3>4
  <2> QED BY <1>1, <2>4, <2>5, <2>6
<1>2. handle[h] \in HandleRecord BY HandleTypes
<1>3. CASE Close(h)
  <2>1. PICK x : x = [handle[h] EXCEPT !.pc = "saving", !.offset = 0] OBVIOUS
  <2>2. /\ handle' = [handle EXCEPT ![h] = x] /\ handle[h].pc = "open"
        /\ UNCHANGED <<inode, tempName, unsaved, treeSide, given, clash>>
    BY <1>3, <2>1 DEF Close, MountedTypeOK
  <2>3. x \in HandleRecord /\ x.pc = "saving" /\ x.kind = handle[h].kind /\ x.at = handle[h].at
        /\ x.file = handle[h].file /\ x.offset = 0
    <3>1. 0 \in 0..NumBlocks BY MountedAssumption
    <3> QED BY <1>2, <2>1, <3>1 DEF HandleRecord
  <2>4. pending' \in [Spots -> 0..NumHandles]
    <3>1. 0 \in 0..NumHandles BY MountedAssumption
    <3> QED BY <1>3, <3>1, HandleTypes DEF Close, MountedTypeOK
  <2>5. \A b \in Blocks : ~(b <= x.offset) BY <2>3, MountedAssumption DEF Blocks
  <2> HIDE DEF DriveInv
  <2> QED BY <1>1, <2>2, <2>3, <2>4, <2>5 DEF Working
<1>4. CASE CopyBlock(h)
  <2>1. PICK b, c : /\ b = handle[h].offset + 1
                    /\ c = [handle[h].copied EXCEPT ![b] = inode[handle[h].file][b]]
    OBVIOUS
  <2>2. PICK x : x = [handle[h] EXCEPT !.offset = b, !.copied = c] OBVIOUS
  <2>3. /\ handle' = [handle EXCEPT ![h] = x] /\ handle[h].pc = "saving" /\ b \in Blocks
        /\ UNCHANGED <<inode, tempName, unsaved, pending, treeSide, given, clash>>
    BY <1>4, <2>1, <2>2 DEF CopyBlock, MountedTypeOK
  <2>4. handle[h].file \in Handles BY <2>3 DEF FilesStand
  <2>5. handle[h].copied \in Bytes /\ inode[handle[h].file] \in Bytes /\ handle[h].offset \in 0..NumBlocks
    BY <2>4, HandleTypes DEF MountedTypeOK
  <2>6. c \in Bytes /\ b \in 0..NumBlocks
    BY <2>1, <2>3, <2>5, MountedAssumption DEF Bytes, Blocks
  <2>7. x \in HandleRecord /\ x.pc = "saving" /\ x.kind = handle[h].kind /\ x.at = handle[h].at
        /\ x.file = handle[h].file /\ x.offset = b /\ x.copied = c
    BY <1>2, <2>2, <2>3, <2>6 DEF HandleRecord
  <2>8. pending' \in [Spots -> 0..NumHandles] BY <2>3 DEF MountedTypeOK
  <2>9. ASSUME h \notin clash, NEW d \in Blocks, d <= x.offset PROVE x.copied[d] = given[h][d]
    <3>1. Whole(h) BY <2>9
    <3>2. inode[handle[h].file] = given[h]
          /\ \A e \in Blocks : e <= handle[h].offset => handle[h].copied[e] = given[h][e]
      BY <2>3, <3>1 DEF Whole, Holds, Working
    <3>3. c[d] = IF d = b THEN inode[handle[h].file][b] ELSE handle[h].copied[d]
      BY <2>1, <2>5 DEF Bytes
    <3>4. d = b \/ d <= handle[h].offset BY <2>1, <2>5, <2>7, <2>9, MountedAssumption DEF Blocks
    <3> QED BY <2>7, <3>2, <3>3, <3>4
  <2> HIDE DEF DriveInv
  <2> QED BY <1>1, <2>3, <2>7, <2>8, <2>9 DEF Working
<1>5. CASE CloseFails(h)
  <2>1. PICK x : x = [handle[h] EXCEPT !.pc = IF IsFuse(h) THEN "stranded" ELSE "failed"] OBVIOUS
  <2>2. /\ handle' = [handle EXCEPT ![h] = x] /\ handle[h].pc = "open"
        /\ UNCHANGED <<inode, tempName, unsaved, treeSide, given, clash>>
    BY <1>5, <2>1 DEF CloseFails, MountedTypeOK, IsFuse
  <2>3. x \in HandleRecord /\ x.pc = (IF IsFuse(h) THEN "stranded" ELSE "failed")
        /\ x.kind = handle[h].kind /\ x.at = handle[h].at /\ x.file = handle[h].file
    BY <1>2, <2>1 DEF HandleRecord
  <2>4. pending' \in [Spots -> 0..NumHandles]
    <3>1. 0 \in 0..NumHandles BY MountedAssumption
    <3> QED BY <1>5, <3>1, HandleTypes DEF CloseFails, MountedTypeOK
  <2>5. x.pc \in {"failed", "stranded"} /\ (x.pc = "failed" <=> ~IsFuse(h)) BY <2>3
  <2> HIDE DEF DriveInv
  <2> QED BY <1>1, <2>2, <2>3, <2>4, <2>5 DEF Working
<1>6. CASE SaveUnknown(h)
  <2>1. PICK x : x = [handle[h] EXCEPT !.pc = "storing"] OBVIOUS
  <2>2. /\ handle' = [handle EXCEPT ![h] = x] /\ handle[h].pc = "saving"
        /\ handle[h].offset = NumBlocks
        /\ UNCHANGED <<inode, tempName, unsaved, pending, treeSide, given, clash>>
    BY <1>6, <2>1 DEF SaveUnknown, MountedTypeOK
  <2>3. x \in HandleRecord /\ x.pc = "storing" /\ x.kind = handle[h].kind /\ x.at = handle[h].at
        /\ x.file = handle[h].file /\ x.offset = NumBlocks /\ x.copied = handle[h].copied
    BY <1>2, <2>1, <2>2 DEF HandleRecord
  <2>4. pending' \in [Spots -> 0..NumHandles] BY <2>2 DEF MountedTypeOK
  <2>5. h \notin clash => \A b \in Blocks : b <= x.offset => x.copied[b] = given[h][b]
    BY <2>2, <2>3 DEF Whole
  <2> HIDE DEF DriveInv
  <2> QED BY <1>1, <2>2, <2>3, <2>4, <2>5 DEF Working
<1> QED BY <1>3, <1>4, <1>5, <1>6

(* A row is added for the handle, or none: no other row is touched.         *)
LEMMA NewRowTypes ==
    ASSUME MountedTypeOK, NEW h \in Handles
    PROVE /\ NewRow(h) \in RowRecord /\ NewRow(h).by = h /\ NewRow(h).bytes = handle[h].copied
          /\ Append(listing, NewRow(h)) \in Seq(RowRecord)
          /\ listing' = Append(listing, NewRow(h)) =>
                 RowsKept /\ \E i \in DOMAIN listing' : listing'[i].bytes = handle[h].copied
<1>1. NewRow(h) \in RowRecord /\ NewRow(h).by = h /\ NewRow(h).bytes = handle[h].copied
  BY HandleTypes DEF NewRow, RowRecord
<1>2. listing \in Seq(RowRecord) BY DEF MountedTypeOK, RowRecord
<1>3. Append(listing, NewRow(h)) \in Seq(RowRecord) BY <1>1, <1>2, AppendProperties
<1>4. ASSUME listing' = Append(listing, NewRow(h))
      PROVE RowsKept /\ \E i \in DOMAIN listing' : listing'[i].bytes = handle[h].copied
  <2>1. /\ Len(listing) \in Nat /\ DOMAIN listing = 1..Len(listing)
        /\ Len(listing') = Len(listing) + 1
        /\ \A i \in 1..Len(listing) : listing'[i] = listing[i]
        /\ listing'[Len(listing) + 1] = NewRow(h)
    BY <1>1, <1>2, <1>4, AppendProperties, LenProperties
  <2>2. DOMAIN listing' = 1..(Len(listing) + 1) BY <1>3, <1>4, <2>1, LenProperties
  <2>3. RowsKept BY <2>1, <2>2 DEF RowsKept
  <2>4. Len(listing) + 1 \in DOMAIN listing' BY <2>1, <2>2
  <2> QED BY <1>1, <2>1, <2>3, <2>4
<1> QED BY <1>1, <1>3, <1>4

LEMMA RowStandsOn ==
    ASSUME RowsKept, RowStands, UNCHANGED renaming PROVE RowStands'
  BY DEF RowsKept, RowStands

(* The name of the handle's file is taken away; that of a bystander, which  *)
(* is alone, is another one.                                                *)
LEMMA RemovedNames ==
    ASSUME DriveInv, NEW h \in Handles, handle[h].pc \in {"saving", "storing"}, tempName' = Removed(h)
    PROVE /\ tempName' \in [Leaves -> 0..NumHandles]
          /\ \A n \in Leaves : tempName'[n] \in {tempName[n], 0}
          /\ \A k \in Handles \ clash : k # h /\ IsFuse(k) /\ Holds(k) =>
                 tempName'[handle[k].at.leaf] = tempName[handle[k].at.leaf]
          /\ IsFuse(h) => tempName'[handle[h].at.leaf] = 0
<1> USE DEF DriveInv, Standing
<1>1. handle[h].at.leaf \in Leaves /\ tempName \in [Leaves -> 0..NumHandles]
  BY HandleTypes DEF MountedTypeOK
<1>2. /\ tempName' \in [Leaves -> 0..NumHandles]
      /\ \A n \in Leaves : tempName'[n] =
             IF IsFuse(h) /\ n = handle[h].at.leaf THEN 0 ELSE tempName[n]
  BY <1>1, MountedAssumption DEF Removed, IsFuse
<1>3. ASSUME NEW k \in Handles \ clash, k # h, IsFuse(k), Holds(k)
      PROVE tempName'[handle[k].at.leaf] = tempName[handle[k].at.leaf]
  <2>1. handle[k].at.leaf \in Leaves BY HandleTypes
  <2>2. ~(IsFuse(h) /\ handle[k].at.leaf = handle[h].at.leaf)
    <3>1. SUFFICES ASSUME IsFuse(h), handle[k].at.leaf = handle[h].at.leaf PROVE FALSE OBVIOUS
    <3>2. h \in Sharing(handle[k].at.leaf) BY <3>1 DEF Sharing, IsFuse
    <3>3. Alone(k) OBVIOUS
    <3> QED BY <1>3, <3>2, <3>3 DEF Alone
  <2> QED BY <1>2, <2>1, <2>2
<1> QED BY <1>1, <1>2, <1>3

(* A save that succeeds: a row has what was copied, made now or before.     *)
LEMMA SavedKeeps ==
    ASSUME DriveInv, NEW h \in Handles, handle[h].pc \in {"saving", "storing"},
           handle[h].offset = NumBlocks \/ handle[h].pc = "storing",
           handle' = [handle EXCEPT ![h] = [handle[h] EXCEPT !.pc = "saved", !.copied = NoBytes]],
           tempName' = Removed(h), RowsKept, listing' \in Seq(RowRecord),
           \E i \in DOMAIN listing' : listing'[i].bytes = handle[h].copied,
           UNCHANGED <<inode, unsaved, pending, renaming, renames, given, clash>>
    PROVE DriveInv'
<1> USE DEF DriveInv, Standing
<1>1. PICK x : x = [handle[h] EXCEPT !.pc = "saved", !.copied = NoBytes] OBVIOUS
<1>2. handle' = [handle EXCEPT ![h] = x] BY <1>1
<1>3. x \in HandleRecord /\ x.pc = "saved" /\ x.kind = handle[h].kind /\ x.at = handle[h].at
      /\ x.file = handle[h].file
  BY <1>1, HandleTypes, EmptyBytes DEF HandleRecord
<1>4. /\ Goes /\ handle' \in [Handles -> HandleRecord] /\ handle'[h] = x
      /\ \A k \in Handles : k # h => handle'[k] = handle[k]
  BY <1>2, <1>3, OneGoes
<1>5. MountedTypeOK' BY <1>4, RemovedNames DEF MountedTypeOK, HandleRecord, RowRecord
<1>6. Standing'
  <2>1. RowStands' BY RowStandsOn
  <2>2. \A n \in Leaves : /\ tempName'[n] \in {tempName[n], 0}
                          /\ \/ unsaved'[n] = unsaved[n]
                             \/ unsaved'[n] = tempName[n] /\ tempName'[n] = 0
    BY RemovedNames
  <2> QED BY <1>4, <1>5, <2>1, <2>2, GoesOn
<1>7. ASSUME NEW k \in Handles \ clash, k # h PROVE Alone(k)' /\ Whole(k)' /\ Stored(k)'
  <2>1. handle'[k] = handle[k] BY <1>4, <1>7
  <2>2. IsFuse(k) /\ Holds(k) => tempName'[handle[k].at.leaf] = tempName[handle[k].at.leaf]
    BY <1>7, RemovedNames
  <2> QED BY <1>4, <1>7, <2>1, <2>2, BystanderKeeps
<1>8. ASSUME h \notin clash PROVE Alone(h)' /\ Whole(h)' /\ Stored(h)'
  <2>1. Whole(h) BY <1>8
  <2>2. \A b \in Blocks : handle[h].copied[b] = given[h][b]
    BY <2>1, MountedAssumption DEF Whole, Blocks
  <2>3. handle[h].copied = given[h] BY <2>2, HandleTypes DEF Bytes
  <2> QED BY <1>3, <1>4, <2>3 DEF Alone, Whole, Stored, Holds, Working
<1> QED BY <1>6, <1>7, <1>8

LEMMA SaveKeepsBytes ==
    ASSUME DriveInv, NEW h \in Handles, SaveKnown(h) \/ SaveStreamFile(h) PROVE DriveInv'
<1>1. MountedTypeOK BY DEF DriveInv, Standing
<1>2. listing \in Seq(RowRecord) BY <1>1 DEF MountedTypeOK, RowRecord
<1>3. [handle EXCEPT ![h].pc = "saved", ![h].copied = NoBytes]
          = [handle EXCEPT ![h] = [handle[h] EXCEPT !.pc = "saved", !.copied = NoBytes]]
  BY <1>1 DEF MountedTypeOK
<1>4. CASE SaveKnown(h)
  <2>1. /\ handle[h].pc = "saving" /\ handle[h].offset = NumBlocks /\ tempName' = Removed(h)
        /\ handle' = [handle EXCEPT ![h] = [handle[h] EXCEPT !.pc = "saved", !.copied = NoBytes]]
        /\ listing' = listing
        /\ UNCHANGED <<inode, unsaved, pending, renaming, renames, given, clash>>
    BY <1>3, <1>4 DEF SaveKnown, treeSide
  <2>2. \E i \in DOMAIN listing' : listing'[i].bytes = handle[h].copied
    BY <1>4, <2>1 DEF SaveKnown, Known
  <2> QED BY <1>2, <2>1, <2>2, SameRows, SavedKeeps
<1>5. CASE SaveStreamFile(h)
  <2>1. /\ handle[h].pc = "storing" /\ tempName' = Removed(h)
        /\ handle' = [handle EXCEPT ![h] = [handle[h] EXCEPT !.pc = "saved", !.copied = NoBytes]]
        /\ listing' = Append(listing, NewRow(h))
        /\ UNCHANGED <<inode, unsaved, pending, renaming, renames, given, clash>>
    BY <1>3, <1>5 DEF SaveStreamFile
  <2>2. RowsKept /\ listing' \in Seq(RowRecord)
        /\ \E i \in DOMAIN listing' : listing'[i].bytes = handle[h].copied
    BY <1>1, <2>1, NewRowTypes
  <2> QED BY <2>1, <2>2, SavedKeeps
<1> QED BY <1>4, <1>5

(* The temporary file is renamed over the one kept before, whose handle is  *)
(* recorded.                                                                *)
LEMMA SaveFailsKeeps == ASSUME DriveInv, NEW h \in Handles, SaveFails(h) PROVE DriveInv'
<1> USE DEF DriveInv, Standing
<1>1. PICK x : x = [handle[h] EXCEPT !.pc = "failed", !.copied = NoBytes] OBVIOUS
<1>2. PICK leaf \in Leaves : leaf = handle[h].at.leaf BY HandleTypes
<1>3. PICK keeps \in BOOLEAN : keeps <=> IsFuse(h) /\ tempName[leaf] # 0 OBVIOUS
<1>4. /\ handle[h].pc \in {"saving", "storing"} /\ handle' = [handle EXCEPT ![h] = x]
      /\ tempName' = Removed(h)
      /\ unsaved' = IF keeps THEN [unsaved EXCEPT ![leaf] = tempName[leaf]] ELSE unsaved
      /\ clash' = IF keeps THEN clash \cup Kept(leaf) ELSE clash
      /\ listing' = listing \/ listing' = Append(listing, NewRow(h))
      /\ UNCHANGED <<inode, pending, renaming, renames, given>>
  BY <1>1, <1>2, <1>3 DEF SaveFails, IsFuse, MountedTypeOK
<1>5. x \in HandleRecord /\ x.pc = "failed" /\ x.kind = handle[h].kind /\ x.at = handle[h].at
      /\ x.file = handle[h].file
  BY <1>1, HandleTypes, EmptyBytes DEF HandleRecord
<1>6. /\ Goes /\ handle' \in [Handles -> HandleRecord] /\ handle'[h] = x
      /\ \A k \in Handles : k # h => handle'[k] = handle[k]
  BY <1>4, <1>5, OneGoes DEF Working
<1>7. listing \in Seq(RowRecord) BY DEF MountedTypeOK, RowRecord
<1>8. RowsKept /\ listing' \in Seq(RowRecord) BY <1>4, <1>7, NewRowTypes, SameRows
<1>9. /\ unsaved' \in [Leaves -> 0..NumHandles]
      /\ \A n \in Leaves : unsaved'[n] = IF keeps /\ n = leaf THEN tempName[leaf] ELSE unsaved[n]
  BY <1>4 DEF MountedTypeOK
<1>10. Kept(leaf) \subseteq Handles BY DEF Kept
<1>11. MountedTypeOK'
  BY <1>4, <1>6, <1>8, <1>9, <1>10, RemovedNames DEF MountedTypeOK, HandleRecord, RowRecord
<1>12. Standing'
  <2>1. RowStands' BY <1>4, <1>8, RowStandsOn
  <2>2. \A k \in Handles : handle[k].pc = "none" => given'[k] = given[k] /\ inode'[k] = inode[k]
    BY <1>4
  <2>3. \A n \in Leaves : /\ tempName'[n] \in {tempName[n], 0}
                          /\ \/ unsaved'[n] = unsaved[n]
                             \/ unsaved'[n] = tempName[n] /\ tempName'[n] = 0
    BY <1>2, <1>3, <1>4, <1>9, RemovedNames
  <2> QED BY <1>6, <1>11, <2>1, <2>2, <2>3, GoesOn
<1>13. clash \subseteq clash' BY <1>4
<1>14. ASSUME NEW k \in Handles, k \notin clash', k # h PROVE Alone(k)' /\ Whole(k)' /\ Stored(k)'
  <2>1. k \in Handles \ clash BY <1>13, <1>14
  <2>2. handle'[k] = handle[k] BY <1>6, <1>14
  <2>3. IsFuse(k) /\ Holds(k) => tempName'[handle[k].at.leaf] = tempName[handle[k].at.leaf]
    BY <1>4, <1>14, <2>1, RemovedNames
  <2>4. IsFuse(k) /\ handle[k].pc = "failed" => unsaved'[handle[k].at.leaf] = unsaved[handle[k].at.leaf]
    <3>1. handle[k].at.leaf \in Leaves BY HandleTypes
    <3>2. IsFuse(k) /\ handle[k].pc = "failed" /\ keeps => handle[k].at.leaf # leaf
      BY <1>4, <1>14 DEF Kept, IsFuse
    <3> QED BY <1>9, <3>1, <3>2
  <2> QED BY <1>4, <1>6, <1>8, <2>1, <2>2, <2>3, <2>4, BystanderKeeps
<1>15. ASSUME h \notin clash' PROVE Alone(h)' /\ Whole(h)' /\ Stored(h)'
  <2>1. h \in Handles \ clash /\ Whole(h) /\ Alone(h) BY <1>13, <1>15
  <2>2. Alone(h)' BY <1>5, <1>6, <2>1, StaysAlone DEF Holds, Working
  <2>3. Whole(h)' BY <1>4, <1>5, <1>6, <2>1 DEF Whole, Holds, Working
  <2>4. IsFuse(h) => unsaved'[leaf] = handle[h].file
    <3>1. SUFFICES ASSUME IsFuse(h) PROVE unsaved'[leaf] = handle[h].file OBVIOUS
    <3>2. tempName[leaf] = handle[h].file BY <1>2, <1>4, <2>1, <3>1 DEF Alone, Holds, Working
    <3>3. handle[h].file \in Handles BY <1>4 DEF FilesStand
    <3>4. handle[h].file # 0 BY <3>3 DEF Handles
    <3> QED BY <1>3, <1>9, <3>1, <3>2, <3>4
  <2>5. Stored(h)' BY <1>2, <1>5, <1>6, <2>4 DEF Stored, IsFuse
  <2> QED BY <2>2, <2>3, <2>5
<1> QED BY <1>12, <1>14, <1>15

(* Every set of numbers has a least one.                                    *)
LEMMA LeastNumber ==
    ASSUME NEW S \in SUBSET Nat, S # {}
    PROVE  \E x \in S : \A y \in S : x <= y
<1>1. PICK R : R = OpToRel(<, Nat) OBVIOUS
<1>2. \A y, x \in Nat : y < x => <<y, x>> \in R BY <1>1 DEF OpToRel
<1>3. IsWellFoundedOn(R, Nat) BY <1>1, NatLessThanWellFounded
<1>4. PICK x \in S : \A y \in S : ~ (<<y, x>> \in R) BY <1>3, WFMin
<1>5. \A y \in S : ~(y < x) BY <1>2, <1>4
<1>6. \A y \in S : x <= y BY <1>5
<1> QED BY <1>6

(* The row that is touched goes to the end, the others close up.            *)
LEMMA Removing ==
    ASSUME NEW S, NEW s \in Seq(S), NEW i \in 1..Len(s)
    PROVE /\ RemoveAt(s, i) \in Seq(S) /\ Len(RemoveAt(s, i)) = Len(s) - 1
          /\ \A m \in 1..Len(s) : /\ m < i => RemoveAt(s, i)[m] = s[m]
                                  /\ m > i => RemoveAt(s, i)[m - 1] = s[m]
<1>1. Len(s) \in Nat /\ \A m \in 1..Len(s) : s[m] \in S BY LenProperties
<1>2. PICK n \in Nat : n = Len(s) BY <1>1
<1>3. i \in 1..n BY <1>2
<1>4. PICK a, b : a = SubSeq(s, 1, i - 1) /\ b = SubSeq(s, i + 1, n) OBVIOUS
<1>5. /\ a \in Seq(S) /\ Len(a) = i - 1
      /\ \A m \in 1..(i - 1) : a[m] = s[m]
  <2>1. 1 \in Int /\ i - 1 \in Int BY <1>3
  <2>2. \A m \in 1..(i - 1) : s[m] \in S BY <1>1, <1>2, <1>3
  <2>3. /\ SubSeq(s, 1, i - 1) \in Seq(S)
        /\ Len(SubSeq(s, 1, i - 1)) = IF 1 <= i - 1 THEN (i - 1) - 1 + 1 ELSE 0
        /\ \A m \in 1..((i - 1) - 1 + 1) : SubSeq(s, 1, i - 1)[m] = s[1 + m - 1]
    BY <2>1, <2>2, SubSeqProperties
  <2> QED BY <1>3, <1>4, <2>3
<1>6. /\ b \in Seq(S) /\ Len(b) = n - i
      /\ \A m \in 1..(n - i) : b[m] = s[m + i]
  <2>1. i + 1 \in Int /\ n \in Int BY <1>3
  <2>2. \A m \in (i + 1)..n : s[m] \in S BY <1>1, <1>2, <1>3
  <2>3. /\ SubSeq(s, i + 1, n) \in Seq(S)
        /\ Len(SubSeq(s, i + 1, n)) = IF i + 1 <= n THEN n - (i + 1) + 1 ELSE 0
        /\ \A m \in 1..(n - (i + 1) + 1) : SubSeq(s, i + 1, n)[m] = s[(i + 1) + m - 1]
    BY <2>1, <2>2, SubSeqProperties
  <2>4. /\ n - (i + 1) + 1 = n - i /\ i + 1 <= n <=> n - i # 0
        /\ \A m \in 1..(n - i) : (i + 1) + m - 1 = m + i
    BY <1>3
  <2>5. Len(b) = n - i BY <1>3, <1>4, <2>3, <2>4
  <2> QED BY <1>4, <2>3, <2>4, <2>5
<1>7. RemoveAt(s, i) = a \o b BY <1>2, <1>4 DEF RemoveAt
<1>8. /\ a \o b \in Seq(S) /\ Len(a \o b) = Len(a) + Len(b)
      /\ \A m \in 1..(Len(a) + Len(b)) : (a \o b)[m] = IF m <= Len(a) THEN a[m] ELSE b[m - Len(a)]
  BY <1>5, <1>6, ConcatProperties
<1>9. Len(a \o b) = n - 1 BY <1>3, <1>5, <1>6, <1>8
<1>10. ASSUME NEW m \in 1..n, m < i PROVE (a \o b)[m] = s[m]
  BY <1>3, <1>5, <1>6, <1>8, <1>10
<1>11. ASSUME NEW m \in 1..n, m > i PROVE (a \o b)[m - 1] = s[m]
  <2>1. m - 1 \in 1..(Len(a) + Len(b)) /\ ~(m - 1 <= Len(a)) /\ (m - 1) - Len(a) = m - i
        /\ m - i \in 1..(n - i)
    BY <1>3, <1>5, <1>6, <1>11
  <2>2. (a \o b)[m - 1] = b[m - i] BY <1>8, <2>1
  <2>3. b[m - i] = s[(m - i) + i] BY <1>6, <2>1
  <2>4. (m - i) + i = m BY <1>3
  <2> QED BY <2>2, <2>3, <2>4
<1> QED BY <1>2, <1>7, <1>8, <1>9, <1>10, <1>11

LEMMA TouchKeeps ==
    ASSUME MountedTypeOK, RowStands, renaming.pc # "none", NEW fields,
           \A i \in DOMAIN listing : /\ fields[i] \in RowRecord /\ fields[i].by = listing[i].by
                                     /\ fields[i].bytes = listing[i].bytes,
           listing' = Touch(renaming.row, fields)
    PROVE listing' \in Seq(RowRecord) /\ RowsKept
<1>1. listing \in Seq(RowRecord) BY DEF MountedTypeOK, RowRecord
<1>2. PICK i : i = CHOOSE j \in DOMAIN listing : listing[j].by = renaming.row OBVIOUS
<1>3. i \in DOMAIN listing BY <1>2 DEF RowStands
<1>4. listing' = Append(RemoveAt(listing, i), fields[i]) BY <1>2 DEF Touch
<1>5. PICK n \in Nat : n = Len(listing) BY <1>1, LenProperties
<1>6. i \in 1..n /\ DOMAIN listing = 1..n BY <1>1, <1>3, <1>5, LenProperties
<1>7. PICK s : s = RemoveAt(listing, i) OBVIOUS
<1>8. /\ s \in Seq(RowRecord) /\ Len(s) = n - 1
      /\ \A m \in 1..n : (m < i => s[m] = listing[m]) /\ (m > i => s[m - 1] = listing[m])
  BY <1>1, <1>5, <1>6, <1>7, Removing
<1>9. fields[i] \in RowRecord BY <1>3
<1>10. /\ listing' \in Seq(RowRecord) /\ Len(listing') = n
       /\ \A m \in 1..(n - 1) : listing'[m] = s[m]
       /\ listing'[n] = fields[i]
  <2>1. /\ Append(s, fields[i]) \in Seq(RowRecord) /\ Len(Append(s, fields[i])) = Len(s) + 1
        /\ \A m \in 1..Len(s) : Append(s, fields[i])[m] = s[m]
        /\ Append(s, fields[i])[Len(s) + 1] = fields[i]
    BY <1>8, <1>9, AppendProperties
  <2>2. Len(s) + 1 = n BY <1>5, <1>8
  <2> QED BY <1>4, <1>7, <1>8, <2>1, <2>2
<1>11. DOMAIN listing' = 1..n BY <1>10, LenProperties
<1>12. ASSUME NEW m \in 1..n
       PROVE \E j \in 1..n : /\ listing'[j].by = listing[m].by
                             /\ listing'[j].bytes = listing[m].bytes
  <2>1. CASE m < i
    <3>1. m \in 1..(n - 1) BY <1>6, <2>1
    <3>2. listing'[m] = listing[m] BY <1>8, <1>10, <2>1, <3>1
    <3> QED BY <3>2
  <2>2. CASE m > i
    <3>1. m - 1 \in 1..(n - 1) /\ m - 1 \in 1..n BY <1>6, <2>2
    <3>2. listing'[m - 1] = listing[m] BY <1>8, <1>10, <2>2, <3>1
    <3> QED BY <3>1, <3>2
  <2>3. CASE m = i
    <3>1. n \in 1..n BY <1>6
    <3>2. listing'[n].by = listing[m].by /\ listing'[n].bytes = listing[m].bytes
      BY <1>3, <1>10, <2>3
    <3> QED BY <3>1, <3>2
  <2> QED BY <1>6, <2>1, <2>2, <2>3
<1> QED BY <1>6, <1>10, <1>11, <1>12 DEF RowsKept

(* A path is that of no row or of one that exists.                          *)
LEMMA Resolves ==
    ASSUME MountedTypeOK, NEW p \in Spots, Resolved(p) # 0
    PROVE Resolved(p) \in Handles /\ \E i \in DOMAIN listing : listing[i].by = Resolved(p)
<1>1. listing \in Seq(RowRecord) BY DEF MountedTypeOK, RowRecord
<1>2. PICK n \in Nat : n = Len(listing) /\ DOMAIN listing = 1..n BY <1>1, LenProperties
<1>3. PICK hits : hits = {i \in DOMAIN listing : listing[i].live /\ listing[i].at = p} OBVIOUS
<1>4. hits # {} BY <1>3 DEF Resolved
<1>5. hits \subseteq 1..n BY <1>2, <1>3
<1>6. \E i \in hits : \A j \in hits : j <= i
  <2>1. PICK bounds : bounds = {m \in Nat : \A j \in hits : j <= m} OBVIOUS
  <2>2. n \in bounds BY <1>5, <2>1
  <2>3. PICK m \in bounds : \A k \in bounds : m <= k
    <3>1. bounds \in SUBSET Nat /\ bounds # {} BY <2>1, <2>2
    <3> QED BY <3>1, LeastNumber
  <2>4. m \in Nat /\ \A j \in hits : j <= m BY <2>1
  <2>5. m \in hits
    <3>1. SUFFICES ASSUME m \notin hits PROVE FALSE OBVIOUS
    <3>2. \A j \in hits : j \in Nat /\ 1 <= j /\ j <= m - 1 BY <1>5, <2>4, <3>1
    <3>3. m - 1 \in Nat BY <1>4, <2>4, <3>2
    <3>4. m - 1 \in bounds BY <2>1, <3>2, <3>3
    <3>5. m <= m - 1 BY <2>3, <3>4
    <3> QED BY <2>4, <3>5
  <2> QED BY <2>4, <2>5
<1>7. PICK i : i = CHOOSE k \in hits : \A j \in hits : j <= k OBVIOUS
<1>8. i \in hits BY <1>6, <1>7
<1>9. Resolved(p) = listing[i].by BY <1>3, <1>4, <1>7 DEF Resolved
<1>10. listing[i] \in RowRecord BY <1>1, <1>2, <1>5, <1>8, ElementOfSeq
<1> QED BY <1>3, <1>8, <1>9, <1>10 DEF RowRecord

(* What happens to rows only: their bytes stay, and so does all that is     *)
(* said of handles and files.                                               *)
LEMMA RowsMove ==
    ASSUME DriveInv, UNCHANGED <<handle, tempVars, given, clash>>, listing' \in Seq(RowRecord),
           RowsKept, RowStands', renames' \in 0..MaxRenames,
           renaming' \in [pc : {"none", "trash", "rename", "move"}, row : 0..NumHandles, to : Spots]
    PROVE DriveInv'
<1> USE DEF DriveInv, Standing, tempVars
<1>1. Goes BY DEF Goes, Working
<1>2. MountedTypeOK' BY DEF MountedTypeOK, RowRecord
<1>3. Standing' BY <1>1, <1>2, GoesOn
<1>4. ASSUME NEW k \in Handles \ clash PROVE Alone(k)' /\ Whole(k)' /\ Stored(k)'
  BY <1>1, <1>4, BystanderKeeps
<1> QED BY <1>3, <1>4

LEMMA RenamingKeeps ==
    ASSUME DriveInv,
           \/ \E p \in Spots : BeginUnlink(p)
           \/ \E p, q \in Spots : BeginRename(p, q)
           \/ Unlink \/ RenameLeaf \/ MoveToDir \/ RenameFails
    PROVE DriveInv'
<1> USE DEF treeSide
<1>1. MountedTypeOK /\ RowStands BY DEF DriveInv, Standing
<1>2. listing \in Seq(RowRecord) /\ renames \in 0..MaxRenames BY <1>1 DEF MountedTypeOK, RowRecord
<1>3. renaming \in [pc : {"none", "trash", "rename", "move"}, row : 0..NumHandles, to : Spots]
  BY <1>1 DEF MountedTypeOK
<1>4. \A i \in DOMAIN listing : listing[i] \in RowRecord
  <2>1. DOMAIN listing = 1..Len(listing) BY <1>2, LenProperties
  <2> QED BY <1>2, <2>1, ElementOfSeq
<1>5. ASSUME NEW pc \in {"trash", "rename", "move"}, NEW p \in Spots, NEW q \in Spots,
             Resolve(pc, p, q)
      PROVE DriveInv'
  <2>1. /\ Resolved(p) # 0 /\ renames < MaxRenames
        /\ renaming' = [pc |-> pc, row |-> Resolved(p), to |-> q] /\ renames' = renames + 1
        /\ UNCHANGED <<handle, tempVars, listing, given, clash>>
    BY <1>5 DEF Resolve
  <2>2. Resolved(p) \in Handles /\ \E i \in DOMAIN listing : listing[i].by = Resolved(p)
    BY <1>1, <2>1, Resolves
  <2>3. Resolved(p) \in 0..NumHandles BY <2>2, MountedAssumption DEF Handles
  <2>4. renaming' \in [pc : {"none", "trash", "rename", "move"}, row : 0..NumHandles, to : Spots]
    BY <2>1, <2>3
  <2>5. RowStands' BY <2>1, <2>2 DEF RowStands
  <2>6. renames' \in 0..MaxRenames BY <1>2, <2>1, MountedAssumption
  <2> QED BY <1>2, <2>1, <2>4, <2>5, <2>6, SameRows, RowsMove
<1>6. ASSUME renaming.pc # "none", NEW fields, NEW pc \in {"none", "move"}, RowStep(fields, pc),
             \A i \in DOMAIN listing : /\ fields[i] \in RowRecord /\ fields[i].by = listing[i].by
                                       /\ fields[i].bytes = listing[i].bytes
      PROVE DriveInv'
  <2>1. PICK rows : rows = [i \in DOMAIN listing |-> fields[i]] OBVIOUS
  <2>2. \A i \in DOMAIN listing : /\ rows[i] \in RowRecord /\ rows[i].by = listing[i].by
                                  /\ rows[i].bytes = listing[i].bytes
    BY <1>6, <2>1
  <2>3. /\ listing' = Touch(renaming.row, rows)
        /\ renaming' = IF pc = "none" THEN NoRename ELSE [renaming EXCEPT !.pc = pc]
        /\ UNCHANGED <<handle, tempVars, renames, given, clash>>
    BY <1>6, <2>1 DEF RowStep
  <2>4. listing' \in Seq(RowRecord) /\ RowsKept BY <1>1, <1>6, <2>2, <2>3, TouchKeeps
  <2>5. renaming' \in [pc : {"none", "trash", "rename", "move"}, row : 0..NumHandles, to : Spots]
        /\ (renaming'.pc # "none" => renaming'.row = renaming.row)
    BY <1>3, <2>3, FreshRecords
  <2>6. RowStands' BY <1>1, <1>6, <2>4, <2>5 DEF RowStands, RowsKept
  <2> QED BY <1>2, <2>3, <2>4, <2>5, <2>6, RowsMove
<1>7. CASE Unlink
  <2>1. PICK fields : fields = [i \in DOMAIN listing |-> [listing[i] EXCEPT !.live = FALSE]] OBVIOUS
  <2>2. \A i \in DOMAIN listing : /\ fields[i] \in RowRecord /\ fields[i].by = listing[i].by
                                  /\ fields[i].bytes = listing[i].bytes
    BY <1>4, <2>1 DEF RowRecord
  <2> QED BY <1>6, <1>7, <2>1, <2>2 DEF Unlink
<1>8. CASE RenameLeaf
  <2>1. PICK fields : fields = [i \in DOMAIN listing |-> [listing[i] EXCEPT !.at.leaf = renaming.to.leaf]]
    OBVIOUS
  <2>2. \A i \in DOMAIN listing : /\ fields[i] \in RowRecord /\ fields[i].by = listing[i].by
                                  /\ fields[i].bytes = listing[i].bytes
    BY <1>3, <1>4, <2>1 DEF RowRecord, Spots
  <2>3. PICK pc \in {"none", "move"} : RowStep(fields, pc) BY <1>8, <2>1 DEF RenameLeaf
  <2> QED BY <1>6, <1>8, <2>2, <2>3 DEF RenameLeaf
<1>9. CASE MoveToDir
  <2>1. PICK fields : fields = [i \in DOMAIN listing |-> [listing[i] EXCEPT !.at.dir = renaming.to.dir]]
    OBVIOUS
  <2>2. \A i \in DOMAIN listing : /\ fields[i] \in RowRecord /\ fields[i].by = listing[i].by
                                  /\ fields[i].bytes = listing[i].bytes
    BY <1>3, <1>4, <2>1 DEF RowRecord, Spots
  <2> QED BY <1>6, <1>9, <2>1, <2>2 DEF MoveToDir
<1>10. CASE RenameFails
  <2>1. renaming' = NoRename /\ UNCHANGED <<handle, tempVars, listing, renames, given, clash>>
    BY <1>10 DEF RenameFails
  <2>2. RowStands' BY <2>1, FreshRecords DEF RowStands
  <2> QED BY <1>2, <2>1, <2>2, FreshRecords, SameRows, RowsMove
<1> QED BY <1>5, <1>7, <1>8, <1>9, <1>10 DEF BeginUnlink, BeginRename

(* The agent stops: nobody works any more but who sends chunks.             *)
LEMMA CrashKeeps == ASSUME DriveInv, Crash PROVE DriveInv'
<1> USE DEF DriveInv, Standing
<1>1. /\ \A h \in Handles : handle'[h] = AfterCrash(handle[h])
      /\ handle' = [h \in Handles |-> AfterCrash(handle[h])]
      /\ pending' = [p \in Spots |-> 0] /\ renaming' = NoRename
      /\ UNCHANGED <<inode, tempName, unsaved, listing, renames, given, clash>>
  BY DEF Crash
<1>2. ASSUME NEW h \in Handles
      PROVE /\ handle'[h] \in HandleRecord
            /\ handle'[h].kind = handle[h].kind /\ handle'[h].at = handle[h].at
            /\ handle'[h].file = handle[h].file
            /\ \/ handle'[h] = handle[h] /\ (Working(h) => handle[h].kind = "tus" /\ handle[h].pc = "open")
               \/ handle'[h].pc = "stranded" /\ Working(h) /\ handle[h].kind = "fuse"
               \/ handle'[h].pc = "failed" /\ Working(h) /\ handle[h].kind = "tus"
               \/ handle'[h].pc = "lost" /\ Working(h)
  <2>1. handle[h] \in HandleRecord BY HandleTypes
  <2>2. CASE Working(h) /\ ~(handle[h].pc = "open" /\ handle[h].kind = "tus")
    <3>1. PICK pc : pc = CASE handle[h].kind = "fuse" -> "stranded"
                           [] handle[h].kind = "tus" -> "failed"
                           [] handle[h].kind = "dav" -> "lost"
      OBVIOUS
    <3>2. handle'[h] = [handle[h] EXCEPT !.copied = NoBytes, !.pc = pc]
      BY <1>1, <2>2, <3>1 DEF AfterCrash, Working
    <3>3. handle[h].kind \in {"fuse", "dav", "tus"} BY HandleTypes
    <3>4. \/ pc = "stranded" /\ handle[h].kind = "fuse"
          \/ pc = "failed" /\ handle[h].kind = "tus"
          \/ pc = "lost"
      BY <3>1, <3>3
    <3> QED BY <2>1, <2>2, <3>2, <3>4, EmptyBytes DEF HandleRecord
  <2>3. CASE ~Working(h) \/ (handle[h].pc = "open" /\ handle[h].kind = "tus")
    BY <1>1, <2>1, <2>3 DEF AfterCrash, Working
  <2> QED BY <2>2, <2>3
<1>3. Goes BY <1>2 DEF Goes, Working, IsFuse
<1>4. MountedTypeOK'
  <2>1. handle' \in [Handles -> HandleRecord] BY <1>1, <1>2
  <2>2. pending' \in [Spots -> 0..NumHandles] BY <1>1, MountedAssumption
  <2> QED BY <1>1, <2>1, <2>2, FreshRecords DEF MountedTypeOK, HandleRecord
<1>5. Standing'
  <2>1. RowStands' BY <1>1, FreshRecords DEF RowStands
  <2> QED BY <1>1, <1>3, <1>4, <2>1, GoesOn
<1>6. ASSUME NEW k \in Handles \ clash PROVE Alone(k)' /\ Whole(k)' /\ Stored(k)'
  <2>1. CASE handle'[k] = handle[k]
    BY <1>1, <1>3, <1>6, <2>1, SameRows, BystanderKeeps
  <2>2. CASE handle'[k].pc = "stranded" /\ Working(k) /\ handle[k].kind = "fuse"
    <3>1. Whole(k) BY <1>6
    <3>2. Alone(k)' BY <1>1, <1>3, <1>6, StaysAlone
    <3>3. Whole(k)' BY <1>1, <1>2, <2>2, <3>1 DEF Whole, Holds, Working
    <3> QED BY <2>2, <3>2, <3>3 DEF Stored
  <2>3. CASE handle'[k].pc = "failed" /\ Working(k) /\ handle[k].kind = "tus"
    <3>1. Whole(k) BY <1>6
    <3>2. ~IsFuse(k)' BY <1>2, <2>3 DEF IsFuse
    <3> QED BY <1>1, <1>2, <2>3, <3>1, <3>2 DEF Alone, Whole, Stored, Holds, Working
  <2>4. CASE handle'[k].pc = "lost" BY <2>4 DEF Alone, Whole, Stored, Holds, Working
  <2> QED BY <1>2, <1>6, <2>1, <2>2, <2>3, <2>4
<1> QED BY <1>1, <1>5, <1>6

LEMMA NextDrive == ASSUME DriveInv, [MountedNext]_mountedVars PROVE DriveInv'
<1>1. ASSUME NEW h \in Handles, HandleStep(h) PROVE DriveInv'
  <2>1. \A p \in Spots : (Create(h, p) \/ OpenFile(h, p) \/ CreateUpload(h, p)) => DriveInv'
    BY CreateKeeps, OpenOwnKeeps DEF OpenFile, CreateUpload
  <2> QED
    BY <1>1, <2>1, WritingKeeps, ClosingKeeps, SaveKeepsBytes, SaveFailsKeeps, SweepKeeps
       DEF HandleStep
<1>2. CASE UNCHANGED mountedVars
  <2>1. UNCHANGED <<handle, tempVars, given, clash, listing, renaming, renames>>
    BY <1>2 DEF mountedVars, tempVars
  <2>2. listing \in Seq(RowRecord) /\ renames \in 0..MaxRenames /\ RowStands
        /\ renaming \in [pc : {"none", "trash", "rename", "move"}, row : 0..NumHandles, to : Spots]
    BY DEF DriveInv, Standing, MountedTypeOK, RowRecord
  <2>3. RowStands' BY <2>1, <2>2 DEF RowStands
  <2> QED BY <2>1, <2>2, <2>3, SameRows, RowsMove
<1> QED BY <1>1, <1>2, RenamingKeeps, CrashKeeps DEF MountedNext

(* The inductive invariant of the mounted drive holds.                      *)
THEOREM DriveInvariantHolds == MountedSpec => []DriveInv
  BY InitDrive, NextDrive, PTL DEF MountedSpec

(* Handles, names and rows keep their types, for any folders, names, files, *)
(* sizes and renames.                                                       *)
THEOREM DriveTypeCorrect == MountedSpec => []MountedTypeOK
<1>1. DriveInv => MountedTypeOK BY DEF DriveInv, Standing
<1> QED BY DriveInvariantHolds, <1>1, PTL

(* However many files are written, closed, renamed and removed at a time,   *)
(* what one was given and closed is the content of a row, or is kept: under *)
(* its kept name or in the upload when the save fails, under its temporary  *)
(* name when the agent stops over it; unless it met another of its name.    *)
THEOREM NothingWrittenIsLost == MountedSpec => []SavedOrKept
<1>1. ASSUME DriveInv PROVE SavedOrKept
  <2>1. ASSUME NEW h \in Handles \ clash
        PROVE /\ handle[h].pc = "saved" => \E i \in DOMAIN listing : listing[i].bytes = given[h]
              /\ handle[h].pc = "failed" /\ handle[h].kind = "fuse" =>
                     /\ unsaved[handle[h].at.leaf] = handle[h].file
                     /\ inode[handle[h].file] = given[h]
              /\ handle[h].pc = "failed" /\ handle[h].kind = "tus" => inode[handle[h].file] = given[h]
              /\ handle[h].pc = "stranded" =>
                     /\ tempName[handle[h].at.leaf] = handle[h].file
                     /\ inode[handle[h].file] = given[h]
    <3>1. Alone(h) /\ Whole(h) /\ Stored(h) BY <1>1, <2>1 DEF DriveInv
    <3>2. handle[h].pc = "stranded" => IsFuse(h)
      BY <1>1 DEF DriveInv, Standing, FilesStand
    <3> QED BY <3>1, <3>2 DEF Alone, Whole, Stored, Holds, IsFuse
  <2> QED BY <2>1 DEF SavedOrKept
<1> QED BY DriveInvariantHolds, <1>1, PTL

(***************************************************************************)
(* The services side by side.  Every behaviour of the composition is one   *)
(* of each module, so each keeps what was proved of it alone.              *)
(***************************************************************************)
LEMMA DriveOfServices == ServicesSpec => MountedSpec
<1>1. ServicesInit => MountedInit BY DEF ServicesInit
<1>2. [ServicesNext]_servicesVars => [MountedNext]_mountedVars
  BY DEF ServicesNext, servicesVars
<1> QED BY <1>1, <1>2, PTL DEF ServicesSpec, MountedSpec

LEMMA MountsOfServices == ServicesSpec => MountsSpec
<1>1. ServicesInit => MountsInit BY DEF ServicesInit
<1>2. [ServicesNext]_servicesVars => [MountsNext]_mountsVars
  BY DEF ServicesNext, servicesVars
<1> QED BY <1>1, <1>2, PTL DEF ServicesSpec, MountsSpec

LEMMA TunnelOfServices == ServicesSpec => TunnelSpec
<1>1. ServicesInit => TunnelInit BY DEF ServicesInit
<1>2. [ServicesNext]_servicesVars => [TunnelNext]_tunnelVars
  BY DEF ServicesNext, servicesVars
<1> QED BY <1>1, <1>2, PTL DEF ServicesSpec, TunnelSpec

LEMMA LoginOfServices == ServicesSpec => LoginSpec
<1>1. ServicesInit => LoginInit BY DEF ServicesInit
<1>2. [ServicesNext]_servicesVars => [LoginNext]_loginVars
  BY DEF ServicesNext, servicesVars
<1> QED BY <1>1, <1>2, PTL DEF ServicesSpec, LoginSpec

(* The services keep their types, whichever of them moves.                  *)
THEOREM ServicesTypeCorrect == ServicesSpec => []ServicesTypeOK
<1>1. MountedTypeOK /\ MountsTypeOK /\ TunnelTypeOK /\ LoginTypeOK => ServicesTypeOK
  BY DEF ServicesTypeOK
<1> QED
  BY <1>1, DriveOfServices, MountsOfServices, TunnelOfServices, LoginOfServices,
     DriveTypeCorrect, MountsTypeCorrect, TunnelTypeCorrect, LoginTypeCorrect, PTL

(* What a run of the composition checks of its parts holds of it for every  *)
(* value of the constants: no written file is lost, no status lies.         *)
THEOREM ServicesAreSound == ServicesSpec => [](SavedOrKept /\ StatusTellsTheTruth)
  BY DriveOfServices, TunnelOfServices, NothingWrittenIsLost, StatusIsTrue, PTL

=============================================================================

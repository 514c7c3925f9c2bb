------------------------------- MODULE Tunnel -------------------------------
(***************************************************************************)
(* The public tunnel (internal/tunnel/tunnel.go): the cloudflared process, *)
(* the goroutines that read its output and wait for its end, the status    *)
(* they share, and the copy of it the drive keeps for the links it hands   *)
(* out (SetTunnelStatus and internal/drive/share_config.go).               *)
(***************************************************************************)
EXTENDS Integers

CONSTANTS
    NumProcesses,  \* bound of the model: processes started
    MaxSaves       \* bound of the model: updates of the share settings

ASSUME TunnelAssumption == NumProcesses \in Nat /\ MaxSaves \in Nat

Processes == 1..NumProcesses
Modes == {"lan", "domain", "tunnel"}

VARIABLES
    process,  \* "none", "running", "dead", "reaped"
    output,   \* an address the process printed: "none", "printed", "read", "closed"
    current,  \* Service.cmd, or 0
    status,   \* Service.status: active, and the process whose address is its URL
    known,    \* tunnelActive and tunnelURL of the drive service
    config,   \* the row of share_config
    saving,   \* UpdateShareConfig in progress
    saves,
    hasty     \* history: a tunnel was started before the last one was over

tunnelVars == <<process, output, current, status, known, config, saving, saves, hasty>>
processVars == <<process, output, current, hasty>>
configVars == <<config, saving, saves>>

Status == [active : BOOLEAN, url : 0..NumProcesses]
Config == [mode : Modes, healthy : BOOLEAN]

TunnelTypeOK ==
    /\ process \in [Processes -> {"none", "running", "dead", "reaped"}]
    /\ output \in [Processes -> {"none", "printed", "read", "closed"}]
    /\ current \in 0..NumProcesses
    /\ status \in Status /\ known \in Status
    /\ config \in Config
    /\ saving \in [busy : BOOLEAN, mode : Modes, healthy : BOOLEAN]
    /\ saves \in 0..MaxSaves /\ hasty \in BOOLEAN

TunnelInit ==
    /\ process = [p \in Processes |-> "none"] /\ output = [p \in Processes |-> "none"]
    /\ current = 0
    /\ status = [active |-> FALSE, url |-> 0] /\ known = status
    /\ config = [mode |-> "lan", healthy |-> FALSE]
    /\ saving = [busy |-> FALSE, mode |-> "lan", healthy |-> FALSE] /\ saves = 0
    /\ hasty = FALSE

Over(p) == process[p] \in {"none", "reaped"} /\ output[p] \in {"none", "closed"}

\* notify, under Service.mu: the drive's copy follows each change.
Notify(new) == status' = new /\ known' = new

\* Seeded fault: the address of the tunnel before is not forgotten.
StartKeepsURL ==
    \/ \E p \in Processes :
         /\ process[p] = "none" /\ \A q \in 1..(p - 1) : process[q] # "none"
         /\ ~status.active
         /\ hasty' = (hasty \/ \E q \in Processes : ~Over(q))
         /\ process' = [process EXCEPT ![p] = "running"]
         /\ current' = p
         /\ Notify([active |-> TRUE, url |-> status.url])
         /\ UNCHANGED <<output, configVars>>
    \/ /\ ~status.active
       /\ Notify([active |-> FALSE, url |-> 0])
       /\ UNCHANGED <<processVars, configVars>>

\* cloudflared is started, or is not there.
Start ==
    \/ \E p \in Processes :
         /\ process[p] = "none" /\ \A q \in 1..(p - 1) : process[q] # "none"
         /\ ~status.active
         /\ hasty' = (hasty \/ \E q \in Processes : ~Over(q))
         /\ process' = [process EXCEPT ![p] = "running"]
         /\ current' = p
         /\ Notify([active |-> TRUE, url |-> 0])
         /\ UNCHANGED <<output, configVars>>
    \/ /\ ~status.active
       /\ Notify([active |-> FALSE, url |-> 0])
       /\ UNCHANGED <<processVars, configVars>>

Killed == IF process[current] = "running" THEN [process EXCEPT ![current] = "dead"] ELSE process

Stop ==
    /\ status.active
    /\ process' = Killed
    /\ Notify([active |-> FALSE, url |-> 0])
    /\ UNCHANGED <<output, current, hasty, configVars>>

(***************************************************************************)
(* The process and its goroutines.                                         *)
(***************************************************************************)
PrintAddress(p) ==
    /\ process[p] = "running" /\ output[p] = "none"
    /\ output' = [output EXCEPT ![p] = "printed"]
    /\ UNCHANGED <<process, current, status, known, hasty, configVars>>

\* parseOutput takes the line whenever it gets to it.
ParseOutput(p) ==
    /\ output[p] = "printed"
    /\ output' = [output EXCEPT ![p] = "read"]
    /\ Notify([status EXCEPT !.url = p])
    /\ UNCHANGED <<process, current, hasty, configVars>>

\* The pipe is closed behind a process that has ended.
CloseOutput(p) ==
    /\ process[p] \in {"dead", "reaped"} /\ output[p] # "closed"
    /\ output' = [output EXCEPT ![p] = "closed"]
    /\ UNCHANGED <<process, current, status, known, hasty, configVars>>

Die(p) ==
    /\ process[p] = "running"
    /\ process' = [process EXCEPT ![p] = "dead"]
    /\ UNCHANGED <<output, current, status, known, hasty, configVars>>

\* waitProcess marks the tunnel inactive, whichever process runs by now, and
\* leaves the URL as it is.
WaitProcess(p) ==
    /\ process[p] = "dead"
    /\ process' = [process EXCEPT ![p] = "reaped"]
    /\ Notify([status EXCEPT !.active = FALSE])
    /\ UNCHANGED <<output, current, hasty, configVars>>

(***************************************************************************)
(* UpdateShareConfig: the health of a tunnel is that of the URL known when *)
(* it is asked, which may take long, and is written afterwards.            *)
(***************************************************************************)
CheckShareHealth(mode) ==
    /\ ~saving.busy /\ saves < MaxSaves
    /\ \E ok \in BOOLEAN :
           /\ mode = "lan" => ok
           /\ mode = "tunnel" => (ok <=> known.url # 0)
           /\ saving' = [busy |-> TRUE, mode |-> mode, healthy |-> ok]
    /\ saves' = saves + 1
    /\ UNCHANGED <<processVars, status, known, config>>

UpdateShareConfig ==
    /\ saving.busy
    /\ config' = [mode |-> saving.mode, healthy |-> saving.healthy]
    /\ saving' = [saving EXCEPT !.busy = FALSE]
    /\ UNCHANGED <<processVars, status, known, saves>>

\* GetShareConfig and ShareLink: the tunnel whose address links carry, or 0.
LinkHost == IF config.mode = "tunnel" THEN known.url ELSE 0

TunnelNext ==
    \/ Start \/ Stop
    \/ \E p \in Processes :
           PrintAddress(p) \/ ParseOutput(p) \/ CloseOutput(p) \/ Die(p) \/ WaitProcess(p)
    \/ (\E mode \in Modes : CheckShareHealth(mode)) \/ UpdateShareConfig

TunnelSpec == TunnelInit /\ [][TunnelNext]_tunnelVars

(***************************************************************************)
(* Properties.                                                             *)
(***************************************************************************)

\* As long as no tunnel is started before the last one is over (reaped and its
\* output read to the end), an inactive status means that no process runs, an
\* active one that the latest was not reaped yet, and the links that are
\* handed out while it is active carry the address of that one.
StatusTellsTheTruth ==
    hasty \/ /\ ~status.active => \A p \in Processes : process[p] # "running"
             /\ status.active => current # 0 /\ process[current] \in {"running", "dead"}
             /\ status.active => LinkHost \in {0, current}

=============================================================================

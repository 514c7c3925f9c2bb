------------------------------ MODULE Accounts ------------------------------
(***************************************************************************)
(* Who may use the agent: the account made at set-up and its sessions      *)
(* (internal/users), the devices paired with a code and the API tokens     *)
(* (internal/devices), the fixed-window limiter in front of the guesses    *)
(* (internal/api/ratelimit.go) and the gate that turns a request into a    *)
(* user (withAuth).                                                        *)
(*                                                                         *)
(* Registration and pairing read first and write later in one transaction. *)
(* The connections are SQLite's in WAL mode: a transaction reads from the  *)
(* snapshot of its first statement, takes the one write lock with its      *)
(* first INSERT, and is refused there if anybody has committed since.      *)
(***************************************************************************)
EXTENDS Integers

CONSTANTS
    Users, Sessions, Codes, Devices,   \* ids and tokens that can be drawn
    NoCode,       \* the device was made for an API token
    Guests,       \* slots for requests with a transaction
    Nobody,       \* the write lock is free; a token that was not issued
    Clients,      \* keys of the limiter
    Burst,        \* requests of one key per window (20)
    Window,       \* length of a window (one minute)
    CodeTTL, SessionTTL,
    LastSecond    \* bound of the model: the clock

ASSUME AccountsAssumption ==
    /\ NoCode \notin Codes /\ Nobody \notin Guests \cup Users
    /\ Burst \in Nat \ {0} /\ Window \in Nat \ {0}
    /\ CodeTTL \in Nat /\ SessionTTL \in Nat /\ LastSecond \in Nat

VARIABLES
    second,      \* time.Now().Unix()
    accounts,    \* rows of users
    session,     \* rows of user_sessions
    code,        \* rows of pairing_codes
    device,      \* rows of devices
    token,       \* devices that have a row in device_tokens
    guest,       \* the transaction each slot is running
    writer,      \* holder of SQLite's write lock
    bucket,      \* rateLimiter.buckets
    lastCleanup, \* rateLimiter.lastCleanup
    passed       \* history: requests of a key let through up to each second

userVars == <<accounts, session>>
deviceVars == <<code, device, token>>
limitVars == <<bucket, lastCleanup, passed>>
accountVars == <<second, accounts, session, code, device, token, guest, writer, bucket,
                 lastCleanup, passed>>

Seconds == 0..LastSecond
NoSession == [user |-> Nobody, until |-> 0]
NoPairing == [user |-> Nobody, until |-> 0, consumed |-> FALSE]
NoDevice == [user |-> Nobody, code |-> NoCode, revoked |-> FALSE]
NoBucket == [count |-> 0, reset |-> -1]
Home == [pc |-> "idle", job |-> "none", code |-> NoCode, device |-> Nobody, user |-> Nobody,
         fresh |-> TRUE]

AccountsTypeOK ==
    /\ second \in Seconds
    /\ accounts \in SUBSET Users
    /\ session \in [Sessions -> [user : Users \cup {Nobody}, until : Nat]]
    /\ code \in [Codes -> [user : Users \cup {Nobody}, until : Nat, consumed : BOOLEAN]]
    /\ device \in [Devices -> [user : Users \cup {Nobody}, code : Codes \cup {NoCode},
                               revoked : BOOLEAN]]
    /\ token \in SUBSET Devices
    /\ guest \in [Guests -> [pc : {"idle", "read", "locked"},
                             job : {"none", "register", "exchange", "api"},
                             code : Codes \cup {NoCode}, device : Devices \cup {Nobody},
                             user : Users \cup {Nobody}, fresh : BOOLEAN]]
    /\ writer \in Guests \cup {Nobody}
    /\ bucket \in [Clients -> [count : 0..Burst, reset : Int]]
    /\ lastCleanup \in Seconds
    /\ passed \in [Clients -> [Seconds -> Nat]]

AccountsInit ==
    /\ second = 0
    /\ accounts = {} /\ session = [s \in Sessions |-> NoSession]
    /\ code = [c \in Codes |-> NoPairing]
    /\ device = [d \in Devices |-> NoDevice] /\ token = {}
    /\ guest = [g \in Guests |-> Home] /\ writer = Nobody
    /\ bucket = [k \in Clients |-> NoBucket] /\ lastCleanup = 0
    /\ passed = [k \in Clients |-> [s \in Seconds |-> 0]]

(***************************************************************************)
(* rateLimiter.allow.                                                      *)
(***************************************************************************)
Expired(b) == second > b.reset

\* Seeded fault: the sweep drops every bucket.
SweptAll == IF second - lastCleanup >= Window THEN [k \in Clients |-> NoBucket] ELSE bucket

Swept ==
    IF second - lastCleanup >= Window
    THEN [k \in Clients |-> IF Expired(bucket[k]) THEN NoBucket ELSE bucket[k]]
    ELSE bucket

Cleaned == lastCleanup' = IF second - lastCleanup >= Window THEN second ELSE lastCleanup

\* Seeded fault: the limit is compared one request too late.
AllowOneMore(k) ==
    LET b == Swept[k] IN
    /\ Expired(b) \/ b.count <= Burst
    /\ bucket' = [Swept EXCEPT ![k] = IF Expired(b) THEN [count |-> 1, reset |-> second + Window]
                                      ELSE [b EXCEPT !.count = @ + 1]]
    /\ Cleaned
    /\ passed' = [passed EXCEPT ![k] = [t \in Seconds |-> IF t < second THEN @[t] ELSE @[t] + 1]]

Allow(k) ==
    LET b == Swept[k] IN
    /\ Expired(b) \/ b.count < Burst
    /\ bucket' = [Swept EXCEPT ![k] = IF Expired(b) THEN [count |-> 1, reset |-> second + Window]
                                      ELSE [b EXCEPT !.count = @ + 1]]
    /\ Cleaned
    /\ passed' = [passed EXCEPT ![k] = [t \in Seconds |-> IF t < second THEN @[t] ELSE @[t] + 1]]

Refuse(k) ==
    /\ ~Expired(Swept[k]) /\ Swept[k].count >= Burst
    /\ bucket' = Swept /\ Cleaned
    /\ UNCHANGED <<second, userVars, deviceVars, guest, writer, passed>>

\* A visitor of a shared link: nothing else of this module is touched.
AllowVisit(k) == Allow(k) /\ UNCHANGED <<second, userVars, deviceVars, guest, writer>>

(***************************************************************************)
(* Transactions.                                                           *)
(***************************************************************************)
\* Everybody else's snapshot is of the past once g has committed.
AfterCommit(g) ==
    [h \in Guests |-> IF h = g THEN Home ELSE [guest[h] EXCEPT !.fresh = @ /\ guest[h].pc = "idle"]]

\* A statement outside a transaction commits at once.
Statement(g) == guest[g].pc = "idle" /\ writer = Nobody /\ guest' = AfterCommit(g)

Open(g, fields) == guest[g].pc = "idle" /\ guest' = [guest EXCEPT ![g] = fields]

\* Seeded fault: the row was read before the transaction began.
TakeLockStale(g) ==
    /\ guest[g].pc = "read" /\ writer = Nobody
    /\ guest' = [guest EXCEPT ![g].pc = "locked"]
    /\ writer' = g
    /\ UNCHANGED <<second, userVars, deviceVars, limitVars>>

\* The first INSERT: SQLITE_BUSY_SNAPSHOT unless the snapshot is the latest.
TakeLock(g) ==
    /\ guest[g].pc = "read" /\ writer = Nobody
    /\ guest[g].fresh
    /\ guest' = [guest EXCEPT ![g].pc = "locked"]
    /\ writer' = g
    /\ UNCHANGED <<second, userVars, deviceVars, limitVars>>

\* Any error, the client gone, or a stop of the agent: tx.Rollback.
Rollback(g) ==
    /\ guest[g].pc # "idle"
    /\ guest' = [guest EXCEPT ![g] = Home]
    /\ writer' = IF writer = g THEN Nobody ELSE writer
    /\ UNCHANGED <<second, userVars, deviceVars, limitVars>>

Commit(g, job) ==
    /\ guest[g].pc = "locked" /\ guest[g].job = job
    /\ guest' = AfterCommit(g) /\ writer' = Nobody
    /\ UNCHANGED <<second, limitVars>>

(***************************************************************************)
(* The account and its sessions.                                           *)
(***************************************************************************)
\* RegisterFirstAdmin: SELECT COUNT(*), bcrypt, INSERT, INSERT, COMMIT.
BeginRegister(g) ==
    /\ accounts = {}
    /\ Open(g, [Home EXCEPT !.pc = "read", !.job = "register"])
    /\ UNCHANGED <<second, userVars, deviceVars, writer, limitVars>>

RegisterFirstAdmin(g, u, s) ==
    /\ u \notin accounts /\ session[s] = NoSession
    /\ Commit(g, "register")
    /\ accounts' = accounts \cup {u}
    /\ session' = [session EXCEPT ![s] = [user |-> u, until |-> second + SessionTTL]]
    /\ UNCHANGED deviceVars

\* handleUserLogin: Authenticate, then CreateSession.  No account is ever
\* deleted, so the two statements are one step.
Login(g, u, s) ==
    /\ u \in accounts /\ session[s] = NoSession
    /\ Statement(g)
    /\ session' = [session EXCEPT ![s] = [user |-> u, until |-> second + SessionTTL]]
    /\ UNCHANGED <<second, accounts, deviceVars, writer, limitVars>>

Logout(g, s) ==
    /\ session[s] # NoSession
    /\ Statement(g)
    /\ session' = [session EXCEPT ![s] = NoSession]
    /\ UNCHANGED <<second, accounts, deviceVars, writer, limitVars>>

ResolveSession(s) == session[s].user \in accounts /\ session[s].until > second
ResolveToken(d) == d \in token /\ ~device[d].revoked

\* withAuth: the user a request runs as, by its device token or its cookie.
SignedIn(u) ==
    \/ \E d \in Devices : ResolveToken(d) /\ device[d].user = u
    \/ \E s \in Sessions : ResolveSession(s) /\ session[s].user = u

(***************************************************************************)
(* Devices.                                                                *)
(***************************************************************************)
StartPairing(g, u, c) ==
    /\ SignedIn(u) /\ code[c] = NoPairing
    /\ Statement(g)
    /\ code' = [code EXCEPT ![c] = [user |-> u, until |-> second + CodeTTL, consumed |-> FALSE]]
    /\ UNCHANGED <<second, userVars, device, token, writer, limitVars>>

\* ExchangeCode up to its checks; a code may be used in its last second.
BeginExchange(g, k, c) ==
    /\ code[c] # NoPairing /\ ~code[c].consumed /\ code[c].until >= second
    /\ Open(g, [Home EXCEPT !.pc = "read", !.job = "exchange", !.code = c, !.user = code[c].user])
    /\ Allow(k)
    /\ UNCHANGED <<second, userVars, deviceVars, writer>>

ExchangeCode(g, d) ==
    LET c == guest[g].code IN
    /\ device[d] = NoDevice
    /\ Commit(g, "exchange")
    /\ device' = [device EXCEPT ![d] = [user |-> guest[g].user, code |-> c, revoked |-> FALSE]]
    /\ token' = token \cup {d}
    /\ code' = [code EXCEPT ![c].consumed = TRUE]
    /\ UNCHANGED userVars

\* CreateApiToken writes without reading.
BeginApiToken(g, u) ==
    /\ SignedIn(u)
    /\ Open(g, [Home EXCEPT !.pc = "read", !.job = "api", !.user = u])
    /\ UNCHANGED <<second, userVars, deviceVars, writer, limitVars>>

CreateApiToken(g, d) ==
    /\ device[d] = NoDevice
    /\ Commit(g, "api")
    /\ device' = [device EXCEPT ![d] = [user |-> guest[g].user, code |-> NoCode, revoked |-> FALSE]]
    /\ token' = token \cup {d}
    /\ UNCHANGED <<userVars, code>>

\* RevokeDevice: the mark first, the tokens in a statement of their own.
RevokeDevice(g, u, d) ==
    /\ SignedIn(u) /\ device[d].user = u
    /\ Statement(g)
    /\ device' = [device EXCEPT ![d].revoked = TRUE]
    /\ UNCHANGED <<second, userVars, code, token, writer, limitVars>>

DeleteTokens(g, d) ==
    /\ device[d].revoked
    /\ Statement(g)
    /\ token' = token \ {d}
    /\ UNCHANGED <<second, userVars, code, device, writer, limitVars>>

\* Another table is written: the snapshots age all the same.
OtherStatement(g) ==
    /\ Statement(g)
    /\ UNCHANGED <<second, userVars, deviceVars, writer, limitVars>>

Clock ==
    /\ second < LastSecond /\ second' = second + 1
    /\ UNCHANGED <<userVars, deviceVars, guest, writer, limitVars>>

GuestStep(g) ==
    \/ BeginRegister(g) \/ (\E u \in Users, s \in Sessions : RegisterFirstAdmin(g, u, s))
    \/ \E u \in Users, s \in Sessions : Login(g, u, s)
    \/ \E s \in Sessions : Logout(g, s)
    \/ \E u \in Users, c \in Codes : StartPairing(g, u, c)
    \/ \E k \in Clients, c \in Codes : BeginExchange(g, k, c)
    \/ \E u \in Users : BeginApiToken(g, u)
    \/ \E d \in Devices : ExchangeCode(g, d) \/ CreateApiToken(g, d) \/ DeleteTokens(g, d)
    \/ \E u \in Users, d \in Devices : RevokeDevice(g, u, d)
    \/ TakeLock(g) \/ Rollback(g) \/ OtherStatement(g)

AccountsNext ==
    \/ \E g \in Guests : GuestStep(g)
    \/ \E k \in Clients : AllowVisit(k) \/ Refuse(k)
    \/ Clock

AccountsSpec == AccountsInit /\ [][AccountsNext]_accountVars

(***************************************************************************)
(* Properties.                                                             *)
(***************************************************************************)

\* However the requests overlap, one account at most is ever registered, and
\* a pairing code pairs one device at most: both are read in one statement
\* and used up in a later one.
FirstComeOnly ==
    /\ \A u, v \in accounts : u = v
    /\ \A d, e \in Devices :
           device[d].code # NoCode /\ device[d].code = device[e].code => d = e

\* Of a key's history: what was let through in the seconds s to t.
PassedBetween(history, s, t) == history[t] - (IF s = 0 THEN 0 ELSE history[s - 1])

\* No key gets more than 2 * Burst - 1 requests through in any Window
\* consecutive seconds, across the end of a window and whatever the sweep of
\* old buckets drops.
BurstBounded ==
    \A k \in Clients, s, t \in Seconds :
        s <= t /\ t < s + Window => PassedBetween(passed[k], s, t) < 2 * Burst

=============================================================================

---------------------------- MODULE TelegramLogin ----------------------------
(***************************************************************************)
(* Login to Telegram with a QR code (internal/auth/qrlogin.go): requests   *)
(* that start, cancel and feed a password to a session, and the goroutine  *)
(* of each session inside the Telegram client.  A request that cancels a   *)
(* session waits until its goroutine has left.                             *)
(***************************************************************************)
EXTENDS Integers

CONSTANTS
    Askers,       \* slots for requests
    NumLogins     \* bound of the model: QR sessions

ASSUME LoginAssumption == NumLogins \in Nat

Logins == 1..NumLogins

VARIABLES
    qr,       \* Service.qr: the session registered, or 0
    login,    \* the sessions and their goroutines
    asker     \* the request each slot is running

loginVars == <<qr, login, asker>>

QRStates == {"idle", "pending", "awaiting_password", "authorized", "error", "expired"}
NoLogin == [pc |-> "none", state |-> "pending", shown |-> FALSE, stopped |-> FALSE, password |-> FALSE]
NoAsker == [pc |-> "idle", then |-> "return", waits |-> 0]

LoginTypeOK ==
    /\ qr \in 0..NumLogins
    /\ login \in [Logins -> [pc : {"none", "auth", "password", "check", "leave", "done"},
                             state : QRStates, shown : BOOLEAN, stopped : BOOLEAN,
                             password : BOOLEAN]]
    /\ asker \in [Askers -> [pc : {"idle", "await", "install", "poll"},
                             then : {"return", "install"}, waits : 0..NumLogins]]

LoginInit ==
    /\ qr = 0
    /\ login = [q \in Logins |-> NoLogin]
    /\ asker = [c \in Askers |-> NoAsker]

(***************************************************************************)
(* The requests.                                                           *)
(***************************************************************************)
\* CancelQR, on its own or as the beginning of StartQR: the session is taken
\* off the service and its context ended; the request waits for <-done.
CancelQR(c, then) ==
    /\ asker[c].pc = "idle"
    /\ qr' = 0
    /\ login' = [q \in Logins |-> IF q = qr THEN [login[q] EXCEPT !.stopped = TRUE] ELSE login[q]]
    /\ asker' = [asker EXCEPT ![c] =
          IF qr # 0 THEN [pc |-> "await", then |-> then, waits |-> qr]
          ELSE [NoAsker EXCEPT !.pc = IF then = "return" THEN "idle" ELSE "install"]]

SeeDone(c) ==
    /\ asker[c].pc = "await" /\ login[asker[c].waits].pc = "done"
    /\ asker' = [asker EXCEPT ![c] =
          [NoAsker EXCEPT !.pc = IF asker[c].then = "return" THEN "idle" ELSE "install"]]
    /\ UNCHANGED <<qr, login>>

\* The rest of StartQR.  Another request may have installed a session since
\* CancelQR returned: that one is forgotten without being cancelled.
InstallQR(c, q) ==
    /\ asker[c].pc = "install"
    /\ login[q].pc = "none" /\ \A p \in 1..(q - 1) : login[p].pc # "none"
    /\ login' = [login EXCEPT ![q].pc = "auth"]
    /\ qr' = q
    /\ asker' = [asker EXCEPT ![c] = [NoAsker EXCEPT !.pc = "poll"]]

\* It returns with the registered session's token or news, after 45 seconds,
\* or with its client.
StopPolling(c) ==
    /\ asker[c].pc = "poll"
    /\ asker' = [asker EXCEPT ![c] = NoAsker]
    /\ UNCHANGED <<qr, login>>

SubmitQRPassword(c) ==
    /\ asker[c].pc = "idle" /\ qr # 0
    /\ login[qr].state = "awaiting_password" /\ ~login[qr].password
    /\ login' = [login EXCEPT ![qr].password = TRUE]
    /\ UNCHANGED <<qr, asker>>

(***************************************************************************)
(* The session's goroutine; what Telegram answers is a choice.             *)
(***************************************************************************)
LoginStep(q, from, fields) ==
    /\ login[q].pc \in from
    /\ login' = [login EXCEPT ![q] = fields]
    /\ UNCHANGED <<qr, asker>>

ShowToken(q) == LoginStep(q, {"auth"}, [login[q] EXCEPT !.shown = TRUE, !.state = "pending"])

AskPassword(q) ==
    LoginStep(q, {"auth"}, [login[q] EXCEPT !.pc = "password", !.state = "awaiting_password"])

TakePassword(q) ==
    login[q].password
        /\ LoginStep(q, {"password"}, [login[q] EXCEPT !.pc = "check", !.password = FALSE])

Authorize(q) ==
    LoginStep(q, {"auth", "check"}, [login[q] EXCEPT !.pc = "leave", !.state = "authorized"])

Refused(q) ==
    \E state \in {"error", "expired"} :
        LoginStep(q, {"auth", "check"}, [login[q] EXCEPT !.pc = "leave", !.state = state])

\* Seeded fault: the wait for the password does not look at the context.
SeeStoppedOnLine(q) ==
    login[q].stopped
        /\ LoginStep(q, {"auth", "check"}, [login[q] EXCEPT !.pc = "leave", !.state = "idle"])

\* The context is done: every wait of the goroutine ends, in the Telegram
\* client as well as for the password.
SeeStopped(q) ==
    login[q].stopped
        /\ LoginStep(q, {"auth", "password", "check"},
                     [login[q] EXCEPT !.pc = "leave", !.state = "idle"])

CloseDone(q) == LoginStep(q, {"leave"}, [login[q] EXCEPT !.pc = "done"])

LoginNext ==
    \/ \E c \in Askers :
         \/ \E then \in {"return", "install"} : CancelQR(c, then)
         \/ SeeDone(c) \/ StopPolling(c) \/ SubmitQRPassword(c)
         \/ \E q \in Logins : InstallQR(c, q)
    \/ \E q \in Logins :
         ShowToken(q) \/ AskPassword(q) \/ TakePassword(q) \/ Authorize(q) \/ Refused(q)
         \/ SeeStopped(q) \/ CloseDone(q)

\* Goroutines that can run are scheduled; the Telegram client returns once
\* its context is done.  No answer of Telegram and no password is owed.
LoginFairness ==
    /\ \A c \in Askers : WF_loginVars(SeeDone(c))
    /\ \A q \in Logins : WF_loginVars(SeeStopped(q)) /\ WF_loginVars(CloseDone(q))

LoginSpec == LoginInit /\ [][LoginNext]_loginVars /\ LoginFairness

(***************************************************************************)
(* Properties.                                                             *)
(***************************************************************************)

\* A request that cancels a session, or starts another one, is not left
\* waiting for the goroutine of the old one, whatever that was waiting for.
CancelReturns ==
    \A c \in Askers : asker[c].pc = "await" ~> asker[c].pc # "await"

=============================================================================

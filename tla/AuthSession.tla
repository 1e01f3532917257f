----------------------------- MODULE AuthSession -----------------------------
(***************************************************************************)
(* The Apple session of one account, its status row and the reminder that  *)
(* the user must authenticate: AuthManager (auth/manager.py), the session  *)
(* calls of the adapter (protocol/pyicloud_adapter.py), ensure_session,    *)
(* run_sync and the notifications of application.py, and the commands      *)
(* setup, reset, list and daemon (cli.py).                                 *)
(*                                                                         *)
(* The daemon and each command are processes.  They share the session      *)
(* directory, the saved password and the database.  The daemon keeps its   *)
(* session object from run to run; a command's ends with the command.      *)
(* Runs, setup and reset hold the account-operation lock that              *)
(* LockCoordinator implements; list does not.                              *)
(***************************************************************************)
EXTENDS Naturals

CONSTANTS
    MaxCommands, \* bound: commands started
    MaxFaults,   \* bound: faults and changes at Apple in one behaviour
    None         \* nobody

Command == {"setup", "reset", "list"}
Process == Command \cup {"daemon"}

ASSUME ConstantsAssumption ==
    /\ MaxCommands \in Nat /\ MaxFaults \in Nat
    /\ None \notin Process

VARIABLES
    cookies,   \* what the session directory lets a login do: see Reply
    saved,     \* CredentialStore has the password
    status,    \* accounts.auth_status
    claimed,   \* the row auth-required:<account> in notification_state
    pending,   \* a synchronization request is pending
    api,       \* the daemon's session object: "none", "untrusted" or "trusted"
    lapsed,    \* Apple no longer honours the daemon's session
    blocked,   \* Apple wants terms accepted, web access or an approval
    pc,        \* [Process -> its step]
    reply,     \* [Process -> what Apple answered to its login]
    password,  \* [Process -> it has a password for its login]
    holder,    \* who has the account-operation lock
    asked,     \* the daemon's run read a pending request
    outcome,   \* how the daemon's run ended
    reminded,  \* history: a reminder for this outage was delivered
    died,      \* history: a process died between claiming and delivering
    abandoned, \* history: a process died while it was logging in
    unrecorded,\* history: a session was deleted and the row was not the last to know
    distrusted,\* history: Apple withdrew its trust in this installation
    effective, \* history: a setup succeeded and Apple or a logout did not undo it
    relied,    \* history: a setup relied on the request the run had read
    commands,  \* bound: commands started so far
    faults     \* bound: faults so far

diskVars == <<cookies, saved>>
rowVars == <<status, claimed, pending>>
runVars == <<asked, outcome>>
historyVars == <<reminded, died, abandoned, unrecorded, distrusted, effective, relied>>
vars == <<diskVars, rowVars, api, lapsed, blocked, pc, reply, password, holder,
          runVars, historyVars, commands, faults>>

Status == {"UNCONFIGURED", "CREDENTIALS_REQUIRED", "AUTH_REQUIRED", "AUTHENTICATING",
           "TWO_FACTOR_REQUIRED", "TERMS_REQUIRED", "AUTH_FAILED", "AUTHENTICATED"}

Step == {"idle", "startup", "lock", "session", "login", "answer", "result",
         "engine", "mark", "unlock", "settle", "notify", "send", "unclaim", "ack",
         "logout", "forget", "clear", "code", "store", "request", "done", "announce",
         "release"}

ControlOK ==
    /\ pc \in [Process -> Step]
    /\ reply \in [Process -> {"none", "trusted", "code", "blocked", "failed"}]
    /\ password \in [Process -> BOOLEAN]
    /\ holder \in {"daemon", "setup", "reset", None}
FlagsOK ==
    /\ saved \in BOOLEAN /\ claimed \in BOOLEAN /\ pending \in BOOLEAN
    /\ blocked \in BOOLEAN /\ asked \in BOOLEAN
HistoryOK ==
    /\ reminded \in BOOLEAN /\ died \in BOOLEAN /\ abandoned \in BOOLEAN
    /\ unrecorded \in BOOLEAN /\ distrusted \in BOOLEAN
    /\ effective \in BOOLEAN /\ relied \in BOOLEAN
ValuesOK ==
    /\ cookies \in {"none", "device", "session"}
    /\ status \in Status
    /\ api \in {"none", "untrusted", "trusted"}
    /\ lapsed \in BOOLEAN /\ (lapsed => api = "trusted")
    /\ outcome \in {"none", "startup", "skipped", "ok", "auth", "blocked", "error"}
    /\ commands \in 0..MaxCommands /\ faults \in 0..MaxFaults
TypeOK == ControlOK /\ FlagsOK /\ HistoryOK /\ ValuesOK

Init ==
    /\ cookies = "none" /\ saved = FALSE
    /\ status = "UNCONFIGURED" /\ claimed = FALSE /\ pending = FALSE
    /\ api = "none" /\ lapsed = FALSE
    /\ blocked = FALSE
    /\ pc = [p \in Process |-> IF p = "daemon" THEN "startup" ELSE "idle"]
    /\ reply = [p \in Process |-> "none"]
    /\ password = [p \in Process |-> FALSE]
    /\ holder = None
    /\ asked = FALSE /\ outcome = "none"
    /\ reminded = FALSE /\ died = FALSE /\ abandoned = FALSE /\ unrecorded = FALSE
    /\ distrusted = FALSE /\ effective = FALSE /\ relied = FALSE
    /\ commands = 0 /\ faults = 0

Fault == faults < MaxFaults /\ faults' = faults + 1
Goto(p, step) == pc' = [pc EXCEPT ![p] = step]

\* Mutant of Become: the new session object inherits what Apple said of the old one.
BecomeLapsed(p, session) ==
    IF p = "daemon" THEN api' = session /\ UNCHANGED lapsed ELSE UNCHANGED <<api, lapsed>>

Become(p, session) ==
    IF p = "daemon" THEN api' = session /\ lapsed' = FALSE ELSE UNCHANGED <<api, lapsed>>

\* Deleting the claim: a new outage may be announced again.
Unclaimed == claimed' = FALSE /\ reminded' = FALSE /\ died' = FALSE
ClaimKept == UNCHANGED <<claimed, reminded, died>>

\* set_auth_status: AUTHENTICATED also deletes the claim, in the same transaction.
SetStatus(value) ==
    /\ status' = value /\ abandoned' = FALSE
    /\ IF value = "AUTHENTICATED" THEN Unclaimed ELSE ClaimKept

(***************************************************************************)
(* AuthManager.login, the same for every process.                          *)
(***************************************************************************)
BeginLogin(p) ==
    /\ pc[p] = "login"
    /\ SetStatus("AUTHENTICATING")
    /\ Goto(p, "answer")
    /\ UNCHANGED <<diskVars, pending, api, lapsed, blocked, reply, password, holder, runVars,
                   unrecorded, distrusted, effective, relied, commands, faults>>

\* The session directory now holds a live token of a trusted device.
Trusted(p) ==
    /\ Become(p, "trusted") /\ cookies' = "session"
    /\ unrecorded' = FALSE /\ distrusted' = FALSE

\* A live token needs no password, a trusted device no code.
Reply(p) ==
    IF blocked THEN "blocked"
    ELSE IF cookies = "session" THEN "trusted"
    ELSE IF ~password[p] THEN "failed"
    ELSE IF cookies = "device" THEN "trusted"
    ELSE "code"

\* PyiCloudService(...) and the checks after it.  If the constructor raises, the
\* session object stays what it was.
Authenticate(p) ==
    /\ pc[p] = "answer"
    /\ reply' = [reply EXCEPT ![p] = Reply(p)]
    /\ CASE Reply(p) = "trusted" -> Trusted(p)
         [] Reply(p) = "code"    -> /\ Become(p, "untrusted")
                                    /\ UNCHANGED <<cookies, unrecorded, distrusted>>
         [] OTHER -> UNCHANGED <<api, lapsed, cookies, unrecorded, distrusted>>
    /\ Goto(p, "result")
    /\ UNCHANGED <<saved, rowVars, blocked, password, holder, runVars, reminded, died,
                   abandoned, effective, relied, commands, faults>>

\* The network fails, or the typed password is wrong.
AuthenticateFails(p) ==
    /\ pc[p] = "answer"
    /\ Fault
    /\ reply' = [reply EXCEPT ![p] = "failed"]
    /\ Goto(p, "result")
    /\ UNCHANGED <<diskVars, rowVars, api, lapsed, blocked, password, holder, runVars,
                   historyVars, commands>>

\* Mutant of StatusOf: a login that still needs a code counts as authenticated.
StatusOfUnchecked(answer) ==
    CASE answer \in {"trusted", "code"} -> "AUTHENTICATED"
      [] answer = "blocked" -> "TERMS_REQUIRED"
      [] OTHER              -> "AUTH_FAILED"

StatusOf(answer) ==
    CASE answer = "trusted" -> "AUTHENTICATED"
      [] answer = "code"    -> "TWO_FACTOR_REQUIRED"
      [] answer = "blocked" -> "TERMS_REQUIRED"
      [] OTHER              -> "AUTH_FAILED"

\* What each caller of login does next.
AfterLogin(p) ==
    CASE p = "daemon" -> "engine"
      [] p = "list"   -> "idle"
      [] OTHER        -> CASE reply[p] = "trusted" -> IF saved THEN "request" ELSE "store"
                           [] reply[p] = "code"    -> "code"
                           [] OTHER                -> "release"

\* The answer and the password go out of scope.
Forgotten(p) ==
    reply' = [reply EXCEPT ![p] = "none"] /\ password' = [password EXCEPT ![p] = FALSE]

\* Mutant of EndLogin: the except block raises before it writes the status.
EndLoginUnhandled(p) ==
    /\ pc[p] = "result"
    /\ IF reply[p] \in {"blocked", "failed"}
       THEN UNCHANGED <<status, abandoned>> /\ ClaimKept
       ELSE SetStatus(StatusOf(reply[p]))
    /\ Goto(p, AfterLogin(p)) /\ Forgotten(p)
    /\ UNCHANGED <<diskVars, pending, api, lapsed, blocked, holder, runVars, unrecorded,
                   distrusted, effective, relied, commands, faults>>

EndLogin(p) ==
    /\ pc[p] = "result"
    /\ SetStatus(StatusOf(reply[p]))
    /\ Goto(p, AfterLogin(p)) /\ Forgotten(p)
    /\ UNCHANGED <<diskVars, pending, api, lapsed, blocked, holder, runVars, unrecorded,
                   distrusted, effective, relied, commands, faults>>

Login(p) == BeginLogin(p) \/ Authenticate(p) \/ EndLogin(p)

(***************************************************************************)
(* The commands.                                                           *)
(***************************************************************************)
Start(p, step) ==
    /\ pc[p] = "idle"
    /\ commands < MaxCommands /\ commands' = commands + 1
    /\ Goto(p, step)

\* The password is read from the store or typed.  A refused setup has no effect.
StartSetup ==
    /\ Start("setup", "logout")
    /\ holder = None /\ holder' = "setup"
    /\ password' = [password EXCEPT !["setup"] = TRUE]
    /\ UNCHANGED <<diskVars, rowVars, api, lapsed, blocked, reply, runVars, reminded, died,
                   abandoned, unrecorded, distrusted, effective, relied, faults>>

StartReset ==
    /\ Start("reset", "logout")
    /\ holder = None /\ holder' = "reset"
    /\ UNCHANGED <<diskVars, rowVars, api, lapsed, blocked, reply, password, runVars,
                   historyVars, faults>>

\* ensure_session in a new process, without the account-operation lock.
StartList ==
    /\ Start("list", "login")
    /\ password' = [password EXCEPT !["list"] = saved]
    /\ UNCHANGED <<diskVars, rowVars, api, lapsed, blocked, reply, holder, runVars,
                   historyVars, faults>>

\* protocol.logout deletes the session files, whoever is logging in.
Logout(p) ==
    /\ pc[p] = "logout"
    /\ Become(p, "none") /\ cookies' = "none"
    /\ unrecorded' = (unrecorded \/ pc["list"] = "result")
    /\ effective' = FALSE
    /\ Goto(p, "forget")
    /\ UNCHANGED <<saved, rowVars, blocked, reply, password, holder, runVars, reminded, died,
                   abandoned, distrusted, relied, commands, faults>>

ForgetStatus(p) ==
    /\ pc[p] = "forget"
    /\ SetStatus("CREDENTIALS_REQUIRED")
    /\ Goto(p, IF p = "setup" THEN "login" ELSE "clear")
    /\ UNCHANGED <<diskVars, pending, api, lapsed, blocked, reply, password, holder, runVars,
                   unrecorded, distrusted, effective, relied, commands, faults>>

ClearCredentials ==
    /\ pc["reset"] = "clear"
    /\ saved' = FALSE
    /\ Goto("reset", "release")
    /\ UNCHANGED <<cookies, rowVars, api, lapsed, blocked, reply, password, holder, runVars,
                   historyVars, commands, faults>>

\* submit_2fa; EndLogin writes what it returned.
EnterCode ==
    /\ pc["setup"] = "code"
    /\ reply' = [reply EXCEPT !["setup"] = "trusted"]
    /\ Trusted("setup")
    /\ Goto("setup", "result")
    /\ UNCHANGED <<saved, rowVars, blocked, password, holder, runVars, reminded, died,
                   abandoned, effective, relied, commands, faults>>

\* A wrong code is an answer; an error of the connection leaves the status as it is.
EnterCodeFails ==
    /\ pc["setup"] = "code"
    /\ Fault
    /\ \/ reply' = [reply EXCEPT !["setup"] = "failed"] /\ Goto("setup", "result")
       \/ UNCHANGED reply /\ Goto("setup", "release")
    /\ UNCHANGED <<diskVars, rowVars, api, lapsed, blocked, password, holder, runVars,
                   historyVars, commands>>

\* The libraries are accessible and the password is saved.
StoreCredentials ==
    /\ pc["setup"] = "store"
    /\ saved' = TRUE
    /\ Goto("setup", "request")
    /\ UNCHANGED <<cookies, rowVars, api, lapsed, blocked, reply, password, holder, runVars,
                   historyVars, commands, faults>>

StoreCredentialsFails ==
    /\ pc["setup"] = "store"
    /\ Fault
    /\ Goto("setup", "release")
    /\ UNCHANGED <<diskVars, rowVars, api, lapsed, blocked, reply, password, holder, runVars,
                   historyVars, commands>>

\* _request_background_sync (SyncRequests has its two steps): a pending request is
\* relied on, also when a run has read it and is past its work.
RequestSync ==
    /\ pc["setup"] = "request"
    /\ pending' = TRUE
    /\ relied' = (relied \/ (asked /\ outcome # "skipped" /\ pc["daemon"] # "lock"))
    /\ effective' = (cookies = "session" /\ ~blocked)
    /\ Goto("setup", "done")
    /\ UNCHANGED <<diskVars, status, claimed, api, lapsed, blocked, reply, password, holder,
                   runVars, reminded, died, abandoned, unrecorded, distrusted,
                   commands, faults>>

ReleaseDone ==
    /\ pc["setup"] = "done"
    /\ holder' = None
    /\ Goto("setup", "announce")
    /\ UNCHANGED <<diskVars, rowVars, api, lapsed, blocked, reply, password, runVars,
                   historyVars, commands, faults>>

\* notify_auth_recovered, after the lock was given back.
AnnounceRecovery ==
    /\ pc["setup"] = "announce"
    /\ Unclaimed
    /\ Goto("setup", "idle")
    /\ UNCHANGED <<diskVars, status, pending, api, lapsed, blocked, reply, password, holder,
                   runVars, abandoned, unrecorded, distrusted, effective, relied,
                   commands, faults>>

\* A setup that failed, or a reset that is done.
Release(p) ==
    /\ pc[p] = "release"
    /\ holder' = None
    /\ Goto(p, "idle")
    /\ UNCHANGED <<diskVars, rowVars, api, lapsed, blocked, reply, password, runVars,
                   reminded, died, abandoned, unrecorded, distrusted, effective, relied,
                   commands, faults>>

(***************************************************************************)
(* The daemon.                                                             *)
(***************************************************************************)
ActionStatuses == {"AUTH_REQUIRED", "TWO_FACTOR_REQUIRED", "TERMS_REQUIRED", "AUTH_FAILED"}

\* _startup_auth_notification, before the scheduler starts.
StartupNotify ==
    /\ pc["daemon"] = "startup"
    /\ IF status = "AUTHENTICATED" \/ (saved /\ status \notin ActionStatuses)
       THEN UNCHANGED outcome /\ Goto("daemon", "idle")
       ELSE outcome' = "startup" /\ Goto("daemon", "notify")
    /\ UNCHANGED <<diskVars, rowVars, api, lapsed, blocked, reply, password, holder, asked,
                   historyVars, commands, faults>>

\* _run_daemon_sync reads the pending request.
StartRun ==
    /\ pc["daemon"] = "idle"
    /\ asked' = pending /\ relied' = FALSE
    /\ Goto("daemon", "lock")
    /\ UNCHANGED <<diskVars, rowVars, api, lapsed, blocked, reply, password, holder, outcome,
                   reminded, died, abandoned, unrecorded, distrusted, effective, commands,
                   faults>>

\* Mutant of TakeLock: the session object of before the setup is used again.
TakeLockKeepingProtocol ==
    /\ pc["daemon"] = "lock"
    /\ IF holder = None
       THEN holder' = "daemon" /\ UNCHANGED outcome /\ Goto("daemon", "session")
       ELSE UNCHANGED holder /\ outcome' = "skipped" /\ Goto("daemon", "settle")
    /\ UNCHANGED <<diskVars, rowVars, api, lapsed, blocked, reply, password, asked,
                   historyVars, commands, faults>>

\* account_operation, then discard_protocol if the run answers a request.
TakeLock ==
    /\ pc["daemon"] = "lock"
    /\ IF holder = None
       THEN /\ holder' = "daemon"
            /\ IF asked THEN Become("daemon", "none") ELSE UNCHANGED <<api, lapsed>>
            /\ UNCHANGED outcome /\ Goto("daemon", "session")
       ELSE /\ outcome' = "skipped" /\ Goto("daemon", "settle")
            /\ UNCHANGED <<api, lapsed, holder>>
    /\ UNCHANGED <<diskVars, rowVars, blocked, reply, password, asked, historyVars,
                   commands, faults>>

\* ensure_session logs in only if the session object does not call itself authenticated.
EnsureSession ==
    /\ pc["daemon"] = "session"
    /\ password' = [password EXCEPT !["daemon"] = saved]
    /\ Goto("daemon", IF api = "trusted" THEN "engine" ELSE "login")
    /\ UNCHANGED <<diskVars, rowVars, api, lapsed, blocked, reply, holder, runVars,
                   historyVars, commands, faults>>

\* The check of the session in PhotosEngine.run.  A session that Apple no longer
\* honours passes it, and the run fails later with AUTH_ERROR.
EngineCheck ==
    /\ pc["daemon"] = "engine"
    /\ IF api # "trusted"
       THEN IF status = "TERMS_REQUIRED"
            THEN outcome' = "blocked" /\ Goto("daemon", "unlock")
            ELSE UNCHANGED outcome /\ Goto("daemon", "mark")
       ELSE /\ outcome' = IF lapsed THEN "error" ELSE IF blocked THEN "blocked" ELSE "ok"
            /\ Goto("daemon", "unlock")
    /\ UNCHANGED <<diskVars, rowVars, api, lapsed, blocked, reply, password, holder, asked,
                   historyVars, commands, faults>>

\* The run fails for another reason, before or after the check.
EngineFails ==
    /\ pc["daemon"] = "engine"
    /\ Fault
    /\ outcome' = "error"
    /\ Goto("daemon", "unlock")
    /\ UNCHANGED <<diskVars, rowVars, api, lapsed, blocked, reply, password, holder, asked,
                   historyVars, commands>>

Mark ==
    /\ pc["daemon"] = "mark"
    /\ SetStatus("AUTH_REQUIRED")
    /\ outcome' = "auth"
    /\ Goto("daemon", "unlock")
    /\ UNCHANGED <<diskVars, pending, api, lapsed, blocked, reply, password, holder, asked,
                   unrecorded, distrusted, effective, relied, commands, faults>>

Unlock ==
    /\ pc["daemon"] = "unlock"
    /\ holder' = None
    /\ Goto("daemon", "settle")
    /\ UNCHANGED <<diskVars, rowVars, api, lapsed, blocked, reply, password, runVars,
                   historyVars, commands, faults>>

\* The end of run_sync: an authenticated session object ends the outage.
Settle ==
    /\ pc["daemon"] = "settle"
    /\ IF api = "trusted" THEN Unclaimed ELSE ClaimKept
    /\ Goto("daemon", "notify")
    /\ UNCHANGED <<diskVars, status, pending, api, lapsed, blocked, reply, password, holder,
                   runVars, abandoned, unrecorded, distrusted, effective, relied, commands,
                   faults>>

MustRemind == outcome \in {"startup", "auth", "blocked"}

\* Mutant of ClaimNotification: a row that is there already is no obstacle.
ClaimNotificationAgain ==
    /\ pc["daemon"] = "notify"
    /\ IF MustRemind
       THEN claimed' = TRUE /\ Goto("daemon", "send")
       ELSE UNCHANGED claimed /\ Goto("daemon", "ack")
    /\ UNCHANGED <<diskVars, status, pending, api, lapsed, blocked, reply, password, holder,
                   runVars, historyVars, commands, faults>>

\* claim_notification: the insert fails if the row exists.
ClaimNotification ==
    /\ pc["daemon"] = "notify"
    /\ IF MustRemind /\ ~claimed
       THEN claimed' = TRUE /\ Goto("daemon", "send")
       ELSE UNCHANGED claimed /\ Goto("daemon", "ack")
    /\ UNCHANGED <<diskVars, status, pending, api, lapsed, blocked, reply, password, holder,
                   runVars, historyVars, commands, faults>>

\* A reminder whose claim was deleted meanwhile belongs to an outage that is over.
Deliver ==
    /\ pc["daemon"] = "send"
    /\ reminded' = claimed
    /\ Goto("daemon", "ack")
    /\ UNCHANGED <<diskVars, rowVars, api, lapsed, blocked, reply, password, holder, runVars,
                   died, abandoned, unrecorded, distrusted, effective, relied, commands,
                   faults>>

\* Mutant of NotDelivered: a failed delivery is treated as one that succeeded.
NotDeliveredKeepingClaim ==
    /\ pc["daemon"] = "send"
    /\ Fault
    /\ Goto("daemon", "ack")
    /\ UNCHANGED <<diskVars, rowVars, api, lapsed, blocked, reply, password, holder, runVars,
                   historyVars, commands>>

\* No channel took the reminder.
NotDelivered ==
    /\ pc["daemon"] = "send"
    /\ Fault
    /\ Goto("daemon", "unclaim")
    /\ UNCHANGED <<diskVars, rowVars, api, lapsed, blocked, reply, password, holder, runVars,
                   historyVars, commands>>

ReleaseClaim ==
    /\ pc["daemon"] = "unclaim"
    /\ Unclaimed
    /\ Goto("daemon", "ack")
    /\ UNCHANGED <<diskVars, status, pending, api, lapsed, blocked, reply, password, holder,
                   runVars, abandoned, unrecorded, distrusted, effective, relied, commands,
                   faults>>

\* ack_sync_request, unless the lock was refused.
Ack ==
    /\ pc["daemon"] = "ack"
    /\ IF asked /\ outcome # "skipped"
       THEN pending' = FALSE /\ effective' = (effective /\ ~relied)
       ELSE UNCHANGED <<pending, effective>>
    /\ asked' = FALSE /\ outcome' = "none"
    /\ Goto("daemon", "idle")
    /\ UNCHANGED <<diskVars, status, claimed, api, lapsed, blocked, reply, password, holder,
                   reminded, died, abandoned, unrecorded, distrusted, relied, commands, faults>>

(***************************************************************************)
(* Apple, and deaths.                                                      *)
(***************************************************************************)
\* Apple ends the session, or withdraws its trust as well.
Lapse ==
    /\ cookies # "none"
    /\ Fault
    /\ \/ cookies = "session" /\ cookies' = "device" /\ UNCHANGED distrusted
       \/ cookies' = "none" /\ distrusted' = TRUE
    /\ lapsed' = (api = "trusted")
    /\ effective' = FALSE
    /\ UNCHANGED <<saved, rowVars, api, blocked, pc, reply, password, holder, runVars,
                   reminded, died, abandoned, unrecorded, relied, commands>>

\* New terms to accept, web access switched off; and back.
Block ==
    /\ Fault
    /\ blocked' = ~blocked
    /\ effective' = FALSE
    /\ UNCHANGED <<diskVars, rowVars, api, lapsed, pc, reply, password, holder, runVars,
                   reminded, died, abandoned, unrecorded, distrusted, relied, commands>>

\* A process dies, with its threads and its locks; the container restarts the daemon.
Dies(p) ==
    /\ Fault
    /\ Goto(p, IF p = "daemon" THEN "startup" ELSE "idle")
    /\ Become(p, "none") /\ Forgotten(p)
    /\ holder' = IF holder = p THEN None ELSE holder
    /\ abandoned' = (abandoned \/ pc[p] \in {"answer", "result"})
    /\ unrecorded' = (unrecorded \/ pc[p] = "forget")
    /\ IF p = "daemon"
       THEN /\ asked' = FALSE /\ outcome' = "none" /\ relied' = FALSE
            /\ died' = (died \/ (claimed /\ pc[p] \in {"send", "unclaim"}))
       ELSE UNCHANGED <<runVars, died, relied>>
    /\ UNCHANGED <<diskVars, rowVars, blocked, reminded, distrusted, effective, commands>>

DaemonSteps ==
    \/ Login("daemon") \/ StartupNotify \/ StartRun \/ TakeLock \/ EnsureSession
    \/ EngineCheck \/ Mark \/ Unlock \/ Settle \/ ClaimNotification \/ Deliver
    \/ ReleaseClaim \/ Ack

CommandSteps(p) == Login(p) \/ Logout(p) \/ ForgetStatus(p) \/ Release(p)
SetupSteps ==
    \/ CommandSteps("setup") \/ EnterCode \/ StoreCredentials \/ RequestSync
    \/ ReleaseDone \/ AnnounceRecovery
ResetSteps == CommandSteps("reset") \/ ClearCredentials

Next ==
    \/ DaemonSteps \/ SetupSteps \/ ResetSteps \/ Login("list")
    \/ StartSetup \/ StartReset \/ StartList
    \/ \E p \in Process : AuthenticateFails(p)
    \/ EnterCodeFails \/ StoreCredentialsFails \/ EngineFails \/ NotDelivered
    \/ Lapse \/ Block
    \/ \E p \in Process : Dies(p)

Spec == Init /\ [][Next]_vars

\* The daemon is scheduled and its runs recur; who started a command answers its
\* questions.  Starting a command is nobody's duty.
FairSpec ==
    /\ Spec
    /\ WF_vars(DaemonSteps)
    /\ WF_vars(SetupSteps) /\ WF_vars(ResetSteps) /\ WF_vars(Login("list"))

(***************************************************************************)
(* Properties.                                                             *)
(***************************************************************************)

\* At most one reminder per outage is delivered: whoever is about to send one under a
\* claim has not been preceded, whatever runs, restarts and logins came in between
\* (application.py:117-119).
OneReminderPerOutage == pc["daemon"] = "send" /\ claimed => ~reminded

\* Reminders are suppressed only after one was delivered, or while one is being sent;
\* the exception is a daemon that died between the claim and the delivery
\* (application.py:118-134).
SuppressedOnlyAfterDelivery ==
    claimed => reminded \/ died \/ pc["daemon"] \in {"send", "unclaim"}

\* The row says AUTHENTICATING only while somebody logs in, however the login ends and
\* whoever logs in beside it, unless a process died at it (auth/manager.py:24-46).
AuthenticatingIsTemporary ==
    status = "AUTHENTICATING" =>
        abandoned \/ \E p \in Process : pc[p] \in {"answer", "result"}

\* The row says AUTHENTICATED only if the session directory can renew the session,
\* unless Apple withdrew its trust or a session was just deleted; the exceptions are a
\* login of list, which takes no lock, overtaken by a logout, and a process that died
\* between deleting the session and its status (auth/manager.py:45, 59-66).
AuthenticatedRowIsEarned ==
    status = "AUTHENTICATED" =>
        cookies # "none" \/ distrusted \/ unrecorded \/ \E p \in Command : pc[p] = "forget"

\* After a setup the daemon works with a live session in the end, and the next outage
\* may be announced, unless the setup is undone before or relied on a request that was
\* already served (SyncRequests' SetupIsFollowedByRun).
SetupIsEffective ==
    effective ~> ~effective \/ (api = "trusted" /\ ~lapsed /\ ~claimed)
=============================================================================

---------------------------- MODULE SyncRequests ----------------------------
(***************************************************************************)
(* How a synchronization is asked for: `icloudharbor setup' and            *)
(* `icloudharbor sync' raise a generation in the sync_requests row         *)
(* (cli.py, database/repository.py); the daemon's poll turns a pending     *)
(* generation into a scheduler job (cli.py, scheduler/service.py); the job *)
(* reads the generation, runs under the account-operation lock and then    *)
(* acknowledges what it had read.  The commands are processes of their     *)
(* own; the daemon's jobs are threads.  One account, which is enabled.     *)
(*                                                                         *)
(* The account-operation lock is the abstract lock that LockCoordinator    *)
(* implements: taken or refused at once, lost by a dying process.          *)
(***************************************************************************)
EXTENDS Naturals

CONSTANTS
    Setup,       \* processes of `icloudharbor setup'
    SyncCommand, \* processes of `icloudharbor sync'
    Scheduled,   \* the account has a cron or interval schedule
    MaxCommands, \* bound: commands started
    MaxFaults,   \* bound: daemon deaths, dropped jobs and runs that raise
    None         \* nobody

Command == Setup \cup SyncCommand
Job == {"sync", "sync-now"}   \* the scheduler's job ids; each has one instance

ASSUME ConstantsAssumption ==
    /\ Setup \cap SyncCommand = {} /\ Command \cap Job = {}
    /\ None \notin Command \cup Job
    /\ Scheduled \in BOOLEAN
    /\ MaxCommands \in Nat /\ MaxFaults \in Nat

VARIABLES
    requested, \* requested_generation
    handled,   \* handled_generation
    command,   \* [Command -> the step of the command]
    thread,    \* [Job -> the step of the job's instance]
    read,      \* [Job -> the generation the instance read, 0 for none]
    due,       \* the sync-now job: "none", "now", or "later" (in 30 seconds)
    queued,    \* the account is in _queued_accounts
    activeRun, \* the account is in _active_accounts
    poller,    \* the step of the daemon's main loop
    holder,    \* who has the account-operation lock
    stale,     \* the daemon's cached protocol is older than the last setup
    covered,   \* history: the generation there was when the last run began
    owed,      \* history: a setup succeeded and no run has begun since
    commands,  \* bound: commands started so far
    faults     \* bound: faults so far

rowVars == <<requested, handled>>
schedulerVars == <<due, queued, activeRun>>
historyVars == <<covered, owed>>
vars == <<rowVars, command, thread, read, schedulerVars, poller, holder, stale,
          historyVars, commands, faults>>

CommandStep == {"idle", "authenticate", "check", "request", "release"}
ThreadStep == {"idle", "read", "lock", "run", "ack", "leave", "skipped", "retry", "return"}

RowsOK == requested \in Nat /\ handled \in 0..requested /\ covered \in 0..requested
StepsOK ==
    /\ command \in [Command -> CommandStep]
    /\ thread \in [Job -> ThreadStep]
    /\ read \in [Job -> 0..requested]
    /\ due \in {"none", "now", "later"} /\ poller \in {"wait", "add"}
    /\ holder \in Command \cup Job \cup {None}
FlagsOK ==
    /\ queued \in BOOLEAN /\ activeRun \in BOOLEAN
    /\ stale \in BOOLEAN /\ owed \in BOOLEAN
BoundsOK == commands \in 0..MaxCommands /\ faults \in 0..MaxFaults
TypeOK == RowsOK /\ StepsOK /\ FlagsOK /\ BoundsOK

Init ==
    /\ requested = 0 /\ handled = 0 /\ covered = 0
    /\ command = [c \in Command |-> "idle"]
    /\ thread = [j \in Job |-> "idle"]
    /\ read = [j \in Job |-> 0]
    /\ due = "none" /\ queued = FALSE /\ activeRun = FALSE
    /\ poller = "wait"
    /\ holder = None
    /\ stale = FALSE /\ owed = FALSE
    /\ commands = 0 /\ faults = 0

Pending == requested > handled
Fault == faults < MaxFaults /\ faults' = faults + 1

Become(c, step) == command' = [command EXCEPT ![c] = step]
Goto(j, step) == thread' = [thread EXCEPT ![j] = step]

(***************************************************************************)
(* The commands.  Setup works inside the account-operation lock; a refused *)
(* setup ends without any effect.                                          *)
(***************************************************************************)
Start(c, step) ==
    /\ command[c] = "idle"
    /\ commands < MaxCommands /\ commands' = commands + 1
    /\ Become(c, step)

StartSetup(c) ==
    /\ Start(c, "authenticate")
    /\ holder = None /\ holder' = c
    /\ UNCHANGED <<rowVars, thread, read, schedulerVars, poller, stale, historyVars, faults>>

\* The password or the code is wrong, or a check fails: the lock is given back.
SetupFails(c) ==
    /\ command[c] = "authenticate"
    /\ Become(c, "idle") /\ holder' = None
    /\ UNCHANGED <<rowVars, thread, read, schedulerVars, poller, stale, historyVars,
                   commands, faults>>

\* The old session is logged out and a new one stored.
Authenticate(c) ==
    /\ command[c] = "authenticate"
    /\ stale' = TRUE
    /\ Become(c, "check")
    /\ UNCHANGED <<rowVars, thread, read, schedulerVars, poller, holder, historyVars,
                   commands, faults>>

StartSync(c) ==
    /\ Start(c, "check")
    /\ UNCHANGED <<rowVars, thread, read, schedulerVars, poller, holder, stale,
                   historyVars, faults>>

Done(c) == IF c \in Setup THEN "release" ELSE "idle"

\* _request_background_sync: nothing is asked for while a generation is pending.
CheckPending(c) ==
    /\ command[c] = "check"
    /\ Become(c, IF Pending THEN Done(c) ELSE "request")
    /\ UNCHANGED <<rowVars, thread, read, schedulerVars, poller, holder, stale,
                   historyVars, commands, faults>>

RequestSync(c) ==
    /\ command[c] = "request"
    /\ requested' = requested + 1
    /\ Become(c, Done(c))
    /\ UNCHANGED <<handled, thread, read, schedulerVars, poller, holder, stale,
                   historyVars, commands, faults>>

ReleaseSetup(c) ==
    /\ command[c] = "release"
    /\ holder' = None /\ owed' = TRUE
    /\ Become(c, "idle")
    /\ UNCHANGED <<rowVars, thread, read, schedulerVars, poller, stale, covered,
                   commands, faults>>

(***************************************************************************)
(* The daemon's poll: trigger_now marks the account, then adds the job.    *)
(***************************************************************************)
Poll ==
    /\ poller = "wait"
    /\ Pending /\ ~activeRun /\ ~queued
    /\ queued' = TRUE /\ poller' = "add"
    /\ UNCHANGED <<rowVars, command, thread, read, due, activeRun, holder, stale,
                   historyVars, commands, faults>>

AddJob ==
    /\ poller = "add"
    /\ due' = "now" /\ poller' = "wait"
    /\ UNCHANGED <<rowVars, command, thread, read, queued, activeRun, holder, stale,
                   historyVars, commands, faults>>

(***************************************************************************)
(* SchedulerService._execute, around _run_daemon_sync.                     *)
(***************************************************************************)
Fires(j) == IF j = "sync" THEN Scheduled ELSE due # "none"
Unscheduled(j) == due' = IF j = "sync-now" THEN "none" ELSE due

Execute(j) ==
    /\ thread[j] = "idle" /\ Fires(j)
    /\ Unscheduled(j)
    /\ queued' = FALSE
    /\ IF activeRun
       THEN UNCHANGED <<activeRun, thread>>
       ELSE activeRun' = TRUE /\ Goto(j, "read")
    /\ UNCHANGED <<rowVars, command, read, poller, holder, stale, historyVars,
                   commands, faults>>

\* max_instances = 1: the job fires while its last instance has not returned.  The
\* date trigger has no second firing, and nobody takes the account off the queue.
JobDropped ==
    /\ due = "now" /\ thread["sync-now"] # "idle"
    /\ Fault
    /\ due' = "none"
    /\ UNCHANGED <<rowVars, command, thread, read, queued, activeRun, poller, holder,
                   stale, historyVars, commands>>

ReadPending(j) ==
    /\ thread[j] = "read"
    /\ read' = [read EXCEPT ![j] = IF Pending THEN requested ELSE 0]
    /\ Goto(j, "lock")
    /\ UNCHANGED <<rowVars, command, schedulerVars, poller, holder, stale, historyVars,
                   commands, faults>>

\* Mutant of BeginRun: the cached protocol is never discarded.
BeginRunCached(j) ==
    /\ thread[j] = "lock"
    /\ IF holder = None
       THEN /\ holder' = j
            /\ covered' = requested /\ owed' = FALSE
            /\ stale' \in {FALSE, stale}
            /\ Goto(j, "run")
       ELSE /\ Goto(j, "skipped")
            /\ UNCHANGED <<holder, covered, owed, stale>>
    /\ UNCHANGED <<rowVars, command, read, schedulerVars, poller, commands, faults>>

\* run_sync: a request discards the cached protocol; without one, ensure_session may
\* log in again or keep what it has.
BeginRun(j) ==
    /\ thread[j] = "lock"
    /\ IF holder = None
       THEN /\ holder' = j
            /\ covered' = requested /\ owed' = FALSE
            /\ stale' \in BOOLEAN /\ (stale' => stale /\ read[j] = 0)
            /\ Goto(j, "run")
       ELSE /\ Goto(j, "skipped")
            /\ UNCHANGED <<holder, covered, owed, stale>>
    /\ UNCHANGED <<rowVars, command, read, schedulerVars, poller, commands, faults>>

\* The lock is given back; notifications are sent before run_sync returns.
EndRun(j) ==
    /\ thread[j] = "run"
    /\ holder' = None
    /\ Goto(j, "ack")
    /\ UNCHANGED <<rowVars, command, read, schedulerVars, poller, stale, historyVars,
                   commands, faults>>

RunRaises(j) ==
    /\ thread[j] = "run"
    /\ Fault
    /\ holder' = None
    /\ Goto(j, "leave")
    /\ UNCHANGED <<rowVars, command, read, schedulerVars, poller, stale, historyVars,
                   commands>>

\* Mutants of AckSyncRequest: what is requested by now is acknowledged; the WHERE
\* clause asks for one generation too many.
AckNewest(j) ==
    /\ thread[j] = "ack"
    /\ handled' = IF read[j] # 0 THEN requested ELSE handled
    /\ Goto(j, "leave")
    /\ UNCHANGED <<requested, command, read, schedulerVars, poller, holder, stale,
                   historyVars, commands, faults>>

AckOffByOne(j) ==
    /\ thread[j] = "ack"
    /\ handled' = IF handled < read[j] /\ read[j] < requested THEN read[j] ELSE handled
    /\ Goto(j, "leave")
    /\ UNCHANGED <<requested, command, read, schedulerVars, poller, holder, stale,
                   historyVars, commands, faults>>

AckUnconditionally(j) ==
    /\ thread[j] = "ack"
    /\ handled' = handled + 1
    /\ Goto(j, "leave")
    /\ UNCHANGED <<requested, command, read, schedulerVars, poller, holder, stale,
                   historyVars, commands, faults>>

AckSyncRequest(j) ==
    /\ thread[j] = "ack"
    /\ handled' = IF handled < read[j] /\ read[j] <= requested THEN read[j] ELSE handled
    /\ Goto(j, "leave")
    /\ UNCHANGED <<requested, command, read, schedulerVars, poller, holder, stale,
                   historyVars, commands, faults>>

Leave(j) ==
    /\ thread[j] \in {"leave", "skipped"}
    /\ activeRun' = FALSE
    /\ Goto(j, IF thread[j] = "skipped" THEN "retry" ELSE "return")
    /\ UNCHANGED <<rowVars, command, read, due, queued, poller, holder, stale,
                   historyVars, commands, faults>>

\* A run that was refused the lock is tried again in LOCK_RETRY_SECONDS, unless the
\* account is active or queued again.
ScheduleRetry(j) ==
    /\ thread[j] = "retry"
    /\ IF activeRun \/ queued
       THEN UNCHANGED <<due, queued>>
       ELSE due' = "later" /\ queued' = TRUE
    /\ Goto(j, "return")
    /\ UNCHANGED <<rowVars, command, read, activeRun, poller, holder, stale,
                   historyVars, commands, faults>>

Return(j) ==
    /\ thread[j] = "return"
    /\ Goto(j, "idle")
    /\ read' = [read EXCEPT ![j] = 0]
    /\ UNCHANGED <<rowVars, command, schedulerVars, poller, holder, stale, historyVars,
                   commands, faults>>

\* The container is killed and started again.  A command runs in the same container,
\* but its crash is no subject here.
DaemonRestarts ==
    /\ Fault
    /\ thread' = [j \in Job |-> "idle"] /\ read' = [j \in Job |-> 0]
    /\ due' = "none" /\ queued' = FALSE /\ activeRun' = FALSE
    /\ poller' = "wait"
    /\ holder' = IF holder \in Job THEN None ELSE holder
    /\ stale' = FALSE
    /\ UNCHANGED <<rowVars, command, historyVars, commands>>

Runs(j) ==
    \/ Execute(j) \/ ReadPending(j) \/ BeginRun(j) \/ EndRun(j)
    \/ AckSyncRequest(j) \/ Leave(j) \/ ScheduleRetry(j) \/ Return(j)

Continues(c) ==
    \/ Authenticate(c) \/ SetupFails(c)
    \/ CheckPending(c) \/ RequestSync(c) \/ ReleaseSetup(c)

Next ==
    \/ \E c \in Setup : StartSetup(c)
    \/ \E c \in SyncCommand : StartSync(c)
    \/ \E c \in Command : Continues(c)
    \/ Poll \/ AddJob
    \/ \E j \in Job : Runs(j) \/ RunRaises(j)
    \/ JobDropped \/ DaemonRestarts

Spec == Init /\ [][Next]_vars

\* Threads and processes are scheduled, the schedule keeps firing, and whoever started
\* a command brings it to an end.  Starting a command is nobody's duty.
FairSpec ==
    /\ Spec
    /\ WF_vars(Poll) /\ WF_vars(AddJob)
    /\ \A j \in Job : WF_vars(Runs(j))
    /\ \A c \in Command : WF_vars(Continues(c))

(***************************************************************************)
(* Properties.                                                             *)
(***************************************************************************)

\* A generation is acknowledged only if a run began after it was requested: what is
\* requested during a run is never swallowed by the acknowledgement that follows
\* (cli.py:517-527).
AcknowledgedWereCovered == handled <= covered

\* A run that answers a request works with a protocol made after the last setup, also
\* when another setup slipped in between reading the request and taking the lock
\* (application.py:198-200).
RequestedRunsAreFresh ==
    \A j \in Job : thread[j] = "run" /\ read[j] # 0 => ~stale

\* Every requested generation is handled, through refused locks, dropped jobs, runs
\* that raise and daemon restarts, when the account has a schedule.
RequestsAreHandled == [](Pending => <>(~Pending))

\* A successful setup is followed by a run: the daemon's startup notification says so
\* (cli.py:614).
SetupIsFollowedByRun == owed ~> ~owed
=============================================================================

-------------------------- MODULE SyncRequestsProofs --------------------------
(***************************************************************************)
(* Proofs about SyncRequests, for any number of commands and faults.       *)
(* RequestedRunsAreFresh rests on the account-operation lock (LockInv): a  *)
(* setup makes the cached protocol stale only while it has the lock, and   *)
(* no run has it then.  AcknowledgedWereCovered needs no lock, only that a *)
(* job reads the generation before its run begins (ReadInv).  What the     *)
(* model takes of the lock is Exclusion, what LockCoordinator implements.  *)
(***************************************************************************)
EXTENDS SyncRequests, TLAPS

\* Every step keeps the types.
LEMMA TypeStep == TypeOK /\ [Next]_vars => TypeOK'
<1> SUFFICES ASSUME TypeOK, [Next]_vars PROVE TypeOK'
  OBVIOUS
<1> USE ConstantsAssumption DEF TypeOK, RowsOK, StepsOK, FlagsOK, BoundsOK, Command,
        Job, CommandStep, ThreadStep, rowVars, schedulerVars, historyVars, Become, Goto,
        Fault, Pending
<1>1. ASSUME NEW c \in Setup, StartSetup(c) PROVE TypeOK'
  BY <1>1 DEF StartSetup, Start
<1>2. ASSUME NEW c \in SyncCommand, StartSync(c) PROVE TypeOK'
  BY <1>2 DEF StartSync, Start
<1>3. ASSUME NEW c \in Command, Authenticate(c) PROVE TypeOK'
  BY <1>3 DEF Authenticate
<1>4. ASSUME NEW c \in Command, SetupFails(c) PROVE TypeOK'
  BY <1>4 DEF SetupFails
<1>5. ASSUME NEW c \in Command, CheckPending(c) PROVE TypeOK'
  BY <1>5 DEF CheckPending, Done
<1>6. ASSUME NEW c \in Command, RequestSync(c) PROVE TypeOK'
  BY <1>6 DEF RequestSync, Done
<1>7. ASSUME NEW c \in Command, ReleaseSetup(c) PROVE TypeOK'
  BY <1>7 DEF ReleaseSetup
<1>8. CASE Poll
  BY <1>8 DEF Poll
<1>9. CASE AddJob
  BY <1>9 DEF AddJob
<1>10. ASSUME NEW j \in Job, Execute(j) PROVE TypeOK'
  BY <1>10 DEF Execute, Unscheduled
<1>11. ASSUME NEW j \in Job, ReadPending(j) PROVE TypeOK'
  BY <1>11 DEF ReadPending
<1>12. ASSUME NEW j \in Job, BeginRun(j) PROVE TypeOK'
  <2>1. RowsOK' /\ BoundsOK'
    BY <1>12 DEF BeginRun
  <2>2. command' \in [Command -> CommandStep] /\ thread' \in [Job -> ThreadStep]
    BY <1>12 DEF BeginRun
  <2>3. read' \in [Job -> 0..requested']
    BY <1>12 DEF BeginRun
  <2>4. /\ due' \in {"none", "now", "later"} /\ poller' \in {"wait", "add"}
        /\ holder' \in Command \cup Job \cup {None}
    BY <1>12 DEF BeginRun
  <2>5. FlagsOK'
    BY <1>12 DEF BeginRun
  <2> QED
    BY <2>1, <2>2, <2>3, <2>4, <2>5
<1>13. ASSUME NEW j \in Job, EndRun(j) PROVE TypeOK'
  BY <1>13 DEF EndRun
<1>14. ASSUME NEW j \in Job, AckSyncRequest(j) PROVE TypeOK'
  BY <1>14 DEF AckSyncRequest
<1>15. ASSUME NEW j \in Job, Leave(j) PROVE TypeOK'
  BY <1>15 DEF Leave
<1>16. ASSUME NEW j \in Job, ScheduleRetry(j) PROVE TypeOK'
  BY <1>16 DEF ScheduleRetry
<1>17. ASSUME NEW j \in Job, Return(j) PROVE TypeOK'
  BY <1>17 DEF Return
<1>18. ASSUME NEW j \in Job, RunRaises(j) PROVE TypeOK'
  BY <1>18 DEF RunRaises
<1>19. CASE JobDropped
  BY <1>19 DEF JobDropped
<1>20. CASE DaemonRestarts
  <2>1. RowsOK' /\ BoundsOK'
    BY <1>20 DEF DaemonRestarts
  <2>2. command' \in [Command -> CommandStep] /\ thread' \in [Job -> ThreadStep]
    BY <1>20 DEF DaemonRestarts
  <2>3. read' \in [Job -> 0..requested']
    BY <1>20 DEF DaemonRestarts
  <2>4. /\ due' \in {"none", "now", "later"} /\ poller' \in {"wait", "add"}
        /\ holder' \in Command \cup Job \cup {None}
    BY <1>20 DEF DaemonRestarts
  <2>5. FlagsOK'
    BY <1>20 DEF DaemonRestarts
  <2> QED
    BY <2>1, <2>2, <2>3, <2>4, <2>5
<1>21. CASE UNCHANGED vars
  BY <1>21 DEF vars
<1> QED
  BY <1>1, <1>2, <1>3, <1>4, <1>5, <1>6, <1>7, <1>8, <1>9, <1>10, <1>11, <1>12, <1>13,
     <1>14, <1>15, <1>16, <1>17, <1>18, <1>19, <1>20, <1>21
     DEF Next, Continues, Runs

\* Type correctness of the rows, the commands, the jobs and the lock.
THEOREM TypeCorrect == Spec => []TypeOK
<1>1. Init => TypeOK
  <2> SUFFICES ASSUME Init PROVE TypeOK
    OBVIOUS
  <2> USE ConstantsAssumption
      DEF Init, TypeOK, RowsOK, StepsOK, FlagsOK, BoundsOK, Command, Job, CommandStep,
          ThreadStep
  <2>1. RowsOK /\ BoundsOK
    OBVIOUS
  <2>2. command \in [Command -> CommandStep] /\ thread \in [Job -> ThreadStep]
    OBVIOUS
  <2>3. read \in [Job -> 0..requested]
    OBVIOUS
  <2>4. /\ due \in {"none", "now", "later"} /\ poller \in {"wait", "add"}
        /\ holder \in Command \cup Job \cup {None}
    OBVIOUS
  <2>5. FlagsOK
    OBVIOUS
  <2> QED
    BY <2>1, <2>2, <2>3, <2>4, <2>5
<1> QED
  BY <1>1, TypeStep, PTL DEF Spec

\* What a job acknowledges after its run was requested before the run began.
ReadInv ==
    /\ handled <= covered
    /\ \A j \in Job : thread[j] \in {"run", "ack"} => read[j] <= covered

\* covered only grows, and what is read before a run is covered by it.
LEMMA ReadStep == TypeOK /\ ReadInv /\ [Next]_vars => ReadInv'
<1> SUFFICES ASSUME TypeOK, ReadInv, [Next]_vars PROVE ReadInv'
  OBVIOUS
<1> USE DEF TypeOK, RowsOK, StepsOK, ReadInv, Job, rowVars, schedulerVars, historyVars,
        Goto
<1>1. ASSUME NEW c \in Setup, StartSetup(c) PROVE ReadInv'
  BY <1>1 DEF StartSetup
<1>2. ASSUME NEW c \in SyncCommand, StartSync(c) PROVE ReadInv'
  BY <1>2 DEF StartSync
<1>3. ASSUME NEW c \in Command,
            \/ Authenticate(c) \/ SetupFails(c) \/ CheckPending(c) \/ RequestSync(c)
            \/ ReleaseSetup(c)
     PROVE  ReadInv'
  BY <1>3 DEF Authenticate, SetupFails, CheckPending, RequestSync, ReleaseSetup
<1>4. CASE Poll \/ AddJob \/ JobDropped
  BY <1>4 DEF Poll, AddJob, JobDropped
<1>5. CASE DaemonRestarts
  BY <1>5 DEF DaemonRestarts
<1>6. ASSUME NEW j \in Job, Execute(j) PROVE ReadInv'
  BY <1>6 DEF Execute
<1>7. ASSUME NEW j \in Job, ReadPending(j) PROVE ReadInv'
  BY <1>7 DEF ReadPending
<1>8. ASSUME NEW j \in Job, BeginRun(j) PROVE ReadInv'
  BY <1>8 DEF BeginRun
<1>9. ASSUME NEW j \in Job, AckSyncRequest(j) PROVE ReadInv'
  BY <1>9 DEF AckSyncRequest
<1>10. ASSUME NEW j \in Job, EndRun(j) \/ RunRaises(j) PROVE ReadInv'
  BY <1>10 DEF EndRun, RunRaises
<1>11. ASSUME NEW j \in Job, Leave(j) \/ ScheduleRetry(j) \/ Return(j) PROVE ReadInv'
  BY <1>11 DEF Leave, ScheduleRetry, Return
<1>12. CASE UNCHANGED vars
  BY <1>12 DEF vars
<1> QED
  BY <1>1, <1>2, <1>3, <1>4, <1>5, <1>6, <1>7, <1>8, <1>9, <1>10, <1>11, <1>12
     DEF Next, Continues, Runs

\* A generation is acknowledged only if a run began after it was requested, whatever
\* commands and faults come between (cli.py, _run_daemon_sync).
THEOREM Acknowledgement == Spec => []AcknowledgedWereCovered
<1>1. Init => ReadInv
  BY DEF Init, ReadInv
<1>2. ReadInv => AcknowledgedWereCovered
  BY DEF ReadInv, AcknowledgedWereCovered
<1> QED
  BY <1>1, <1>2, ReadStep, TypeCorrect, PTL DEF Spec

\* Whoever works inside the account-operation lock has it, and a job that answers a
\* request then works with a fresh protocol.
Inside(w) ==
    \/ w \in Setup /\ command[w] # "idle"
    \/ w \in Job /\ thread[w] = "run"

HolderIsInside == \A w \in Command \cup Job : holder = w <=> Inside(w)

LockInv ==
    /\ \A c \in SyncCommand : command[c] \in {"idle", "check", "request"}
    /\ HolderIsInside
    /\ RequestedRunsAreFresh

\* Every step keeps the lock with its holder.
LEMMA LockStep == TypeOK /\ LockInv /\ [Next]_vars => LockInv'
<1> SUFFICES ASSUME TypeOK, LockInv, [Next]_vars PROVE LockInv'
  OBVIOUS
<1> USE ConstantsAssumption DEF TypeOK, StepsOK, LockInv, HolderIsInside, Inside,
        RequestedRunsAreFresh, Command, Job, CommandStep, ThreadStep, rowVars,
        schedulerVars, historyVars, Become, Goto
<1>1. ASSUME NEW c \in Setup, StartSetup(c) PROVE LockInv'
  BY <1>1 DEF StartSetup, Start
<1>2. ASSUME NEW c \in SyncCommand, StartSync(c) PROVE LockInv'
  BY <1>2 DEF StartSync, Start
<1>3. ASSUME NEW c \in Command, Authenticate(c) PROVE LockInv'
  BY <1>3 DEF Authenticate
<1>4. ASSUME NEW c \in Command, SetupFails(c) PROVE LockInv'
  BY <1>4 DEF SetupFails
<1>5. ASSUME NEW c \in Command, CheckPending(c) PROVE LockInv'
  BY <1>5 DEF CheckPending, Done
<1>6. ASSUME NEW c \in Command, RequestSync(c) PROVE LockInv'
  BY <1>6 DEF RequestSync, Done
<1>7. ASSUME NEW c \in Command, ReleaseSetup(c) PROVE LockInv'
  BY <1>7 DEF ReleaseSetup
<1>8. CASE Poll
  BY <1>8 DEF Poll
<1>9. CASE AddJob
  BY <1>9 DEF AddJob
<1>10. ASSUME NEW j \in Job, Execute(j) PROVE LockInv'
  BY <1>10 DEF Execute
<1>11. ASSUME NEW j \in Job, ReadPending(j) PROVE LockInv'
  BY <1>11 DEF ReadPending
<1>12. ASSUME NEW j \in Job, BeginRun(j) PROVE LockInv'
  BY <1>12 DEF BeginRun
<1>13. ASSUME NEW j \in Job, EndRun(j) PROVE LockInv'
  BY <1>13 DEF EndRun
<1>14. ASSUME NEW j \in Job, AckSyncRequest(j) PROVE LockInv'
  BY <1>14 DEF AckSyncRequest
<1>15. ASSUME NEW j \in Job, Leave(j) PROVE LockInv'
  BY <1>15 DEF Leave
<1>16. ASSUME NEW j \in Job, ScheduleRetry(j) PROVE LockInv'
  BY <1>16 DEF ScheduleRetry
<1>17. ASSUME NEW j \in Job, Return(j) PROVE LockInv'
  BY <1>17 DEF Return
<1>18. ASSUME NEW j \in Job, RunRaises(j) PROVE LockInv'
  BY <1>18 DEF RunRaises
<1>19. CASE JobDropped
  BY <1>19 DEF JobDropped
<1>20. CASE DaemonRestarts
  BY <1>20 DEF DaemonRestarts
<1>21. CASE UNCHANGED vars
  BY <1>21 DEF vars
<1> QED
  BY <1>1, <1>2, <1>3, <1>4, <1>5, <1>6, <1>7, <1>8, <1>9, <1>10, <1>11, <1>12, <1>13,
     <1>14, <1>15, <1>16, <1>17, <1>18, <1>19, <1>20, <1>21
     DEF Next, Continues, Runs

\* The lock and the freshness of the protocol, at every moment.
LEMMA LockInvariant == Spec => []LockInv
<1>1. Init => LockInv
  BY ConstantsAssumption DEF Init, LockInv, HolderIsInside, Inside, RequestedRunsAreFresh,
     Command, Job
<1> QED
  BY <1>1, LockStep, TypeCorrect, PTL DEF Spec

\* A run that answers a request works with a protocol made after the last setup, also
\* when a setup came between reading the request and taking the lock (application.py,
\* run_sync).
THEOREM Freshness == Spec => []RequestedRunsAreFresh
<1>1. LockInv => RequestedRunsAreFresh
  BY DEF LockInv
<1> QED
  BY <1>1, LockInvariant, PTL

(***************************************************************************)
(* holder is the lock LockCoordinator implements (Exclusion, with the one  *)
(* name of the account): what is assumed of it here is what is proved      *)
(* there.                                                                  *)
(***************************************************************************)
AccountLock ==
    INSTANCE Exclusion WITH
        Worker <- Command \cup Job, Name <- {"account"},
        holder <- [n \in {"account"} |-> holder]

\* The lock changes hands only by way of nobody.
LEMMA HandOver == [Next]_vars => holder' = holder \/ holder = None \/ holder' = None
<1> SUFFICES ASSUME [Next]_vars
             PROVE  holder' = holder \/ holder = None \/ holder' = None
  OBVIOUS
<1>1. ASSUME NEW c \in Command,
             \/ StartSetup(c) \/ StartSync(c) \/ Continues(c)
      PROVE  holder' = holder \/ holder = None \/ holder' = None
  BY <1>1 DEF StartSetup, StartSync, Continues, Authenticate, SetupFails, CheckPending,
     RequestSync, ReleaseSetup
<1>2. ASSUME NEW j \in Job, Runs(j) \/ RunRaises(j)
      PROVE  holder' = holder \/ holder = None \/ holder' = None
  BY <1>2 DEF Runs, Execute, ReadPending, BeginRun, EndRun, RunRaises, AckSyncRequest, Leave,
     ScheduleRetry, Return
<1>3. CASE Poll \/ AddJob \/ JobDropped \/ DaemonRestarts
  BY <1>3 DEF Poll, AddJob, JobDropped, DaemonRestarts
<1>4. CASE UNCHANGED vars
  BY <1>4 DEF vars
<1> QED
  BY <1>1, <1>2, <1>3, <1>4 DEF Next, Command

\* The lock is held by whoever works inside it and by nobody else: nobody gives back the
\* lock of another, and no failure, refusal or restart leaves it taken (application.py,
\* account_operation).
THEOREM LockFollowsSections == Spec => []HolderIsInside
<1>1. LockInv => HolderIsInside
  BY DEF LockInv
<1> QED
  BY <1>1, LockInvariant, PTL

\* Setups, jobs and daemon restarts use the account-operation lock as Exclusion allows:
\* it is taken only from nobody (application.py, account_operation).
THEOREM LockIsExclusion == Spec => AccountLock!ExclusionSpec
<1>1. Init => AccountLock!ExclusionInit
  BY DEF Init, AccountLock!ExclusionInit
<1>2. TypeOK' /\ [Next]_vars
        => [AccountLock!ExclusionNext]_([n \in {"account"} |-> holder])
  <2> SUFFICES ASSUME TypeOK', [Next]_vars, holder' # holder
               PROVE  AccountLock!ExclusionNext
    OBVIOUS
  <2>1. CASE holder = None
    <3>1. holder' \in Command \cup Job
      BY <2>1 DEF TypeOK, StepsOK
    <3>2. AccountLock!Take(holder', "account")
      BY <2>1 DEF AccountLock!Take
    <3> QED
      BY <3>1, <3>2 DEF AccountLock!ExclusionNext
  <2>2. CASE holder # None
    <3>1. holder' = None
      BY <2>2, HandOver
    <3>2. AccountLock!Give({"account"})
      BY <2>2, <3>1 DEF AccountLock!Give
    <3> QED
      BY <3>2 DEF AccountLock!ExclusionNext
  <2> QED
    BY <2>1, <2>2
<1> QED
  BY <1>1, <1>2, TypeCorrect, PTL DEF Spec, AccountLock!ExclusionSpec
=============================================================================

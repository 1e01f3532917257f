-------------------------- MODULE AuthSessionProofs --------------------------
(***************************************************************************)
(* Proofs about AuthSession, for any number of commands and faults.  The   *)
(* status row needs the lock (LockInv): only list logs in beside others.   *)
(* The reminder does not: its row is the only thing that excludes a second *)
(* one, and ReminderInv follows it through every deletion.  What the model *)
(* takes of the lock is Exclusion, what LockCoordinator implements.        *)
(***************************************************************************)
EXTENDS AuthSession, TLAPS

\* Where every process is, and what it holds.
LEMMA ControlStep == TypeOK /\ [Next]_vars => ControlOK'
<1> SUFFICES ASSUME TypeOK, [Next]_vars PROVE ControlOK'
  OBVIOUS
<1> USE DEF TypeOK, ControlOK, Process, Command, Step, diskVars, rowVars, runVars,
        historyVars, Goto, Forgotten, Start
<1>1. ASSUME NEW p \in Process, BeginLogin(p) PROVE ControlOK'
  BY <1>1 DEF BeginLogin
<1>2. ASSUME NEW p \in Process, Authenticate(p) PROVE ControlOK'
  BY <1>2 DEF Authenticate, Reply
<1>3. ASSUME NEW p \in Process, AuthenticateFails(p) PROVE ControlOK'
  BY <1>3 DEF AuthenticateFails
<1>4. ASSUME NEW p \in Process, EndLogin(p) PROVE ControlOK'
  BY <1>4 DEF EndLogin, AfterLogin
<1>5. ASSUME NEW p \in Process, Release(p) PROVE ControlOK'
  BY <1>5 DEF Release
<1>6. ASSUME NEW p \in Process, Dies(p) PROVE ControlOK'
  BY <1>6 DEF Dies
<1>7. CASE StartSetup
  BY <1>7 DEF StartSetup
<1>8. CASE StartReset
  BY <1>8 DEF StartReset
<1>9. CASE StartList
  BY <1>9 DEF StartList, FlagsOK
<1>10. CASE EnterCode
  BY <1>10 DEF EnterCode
<1>11. CASE EnterCodeFails
  BY <1>11 DEF EnterCodeFails
<1>12. CASE ReleaseDone
  BY <1>12 DEF ReleaseDone
<1>13. CASE TakeLock
  BY <1>13 DEF TakeLock
<1>14. CASE EnsureSession
  BY <1>14 DEF EnsureSession, FlagsOK
<1>15. CASE Unlock
  BY <1>15 DEF Unlock
<1>16. ASSUME NEW p \in Process, Logout(p) \/ ForgetStatus(p)
     PROVE  ControlOK'
  BY <1>16 DEF Logout, ForgetStatus
<1>17. CASE
       \/ ClearCredentials \/ StoreCredentials \/ StoreCredentialsFails \/ RequestSync
       \/ AnnounceRecovery
  BY <1>17 DEF ClearCredentials, StoreCredentials, StoreCredentialsFails, RequestSync,
     AnnounceRecovery
<1>18. CASE StartupNotify \/ StartRun \/ EngineCheck \/ EngineFails \/ Mark
  BY <1>18 DEF StartupNotify, StartRun, EngineCheck, EngineFails, Mark
<1>19. CASE
       \/ Settle \/ ClaimNotification \/ Deliver \/ NotDelivered \/ ReleaseClaim \/ Ack
  BY <1>19 DEF Settle, ClaimNotification, Deliver, NotDelivered, ReleaseClaim, Ack
<1>20. CASE Lapse \/ Block
  BY <1>20 DEF Lapse, Block
<1>21. CASE UNCHANGED vars
  BY <1>21 DEF vars
<1> QED
  BY <1>1, <1>2, <1>3, <1>4, <1>5, <1>6, <1>7, <1>8, <1>9, <1>10, <1>11, <1>12, <1>13,
     <1>14, <1>15, <1>16, <1>17, <1>18, <1>19, <1>20, <1>21
     DEF Next, DaemonSteps, SetupSteps, ResetSteps, CommandSteps, Login, Process, Command

\* The flags of the rows, of Apple and of the run.
LEMMA FlagsStep == TypeOK /\ [Next]_vars => FlagsOK'
<1> SUFFICES ASSUME TypeOK, [Next]_vars PROVE FlagsOK'
  OBVIOUS
<1> USE DEF TypeOK, FlagsOK, diskVars, rowVars, runVars, historyVars, Unclaimed,
        ClaimKept, SetStatus
<1>1. ASSUME NEW p \in Process, BeginLogin(p) PROVE FlagsOK'
  BY <1>1 DEF BeginLogin
<1>2. ASSUME NEW p \in Process, EndLogin(p) PROVE FlagsOK'
  BY <1>2 DEF EndLogin
<1>3. ASSUME NEW p \in Process, ForgetStatus(p) PROVE FlagsOK'
  BY <1>3 DEF ForgetStatus
<1>4. ASSUME NEW p \in Process, Dies(p) PROVE FlagsOK'
  BY <1>4 DEF Dies
<1>5. CASE ClearCredentials
  BY <1>5 DEF ClearCredentials
<1>6. CASE StoreCredentials
  BY <1>6 DEF StoreCredentials
<1>7. CASE RequestSync
  BY <1>7 DEF RequestSync
<1>8. CASE AnnounceRecovery
  BY <1>8 DEF AnnounceRecovery
<1>9. CASE StartRun
  BY <1>9 DEF StartRun
<1>10. CASE Mark
  BY <1>10 DEF Mark
<1>11. CASE Settle
  BY <1>11 DEF Settle
<1>12. CASE ClaimNotification
  BY <1>12 DEF ClaimNotification
<1>13. CASE ReleaseClaim
  BY <1>13 DEF ReleaseClaim
<1>14. CASE Ack
  BY <1>14 DEF Ack
<1>15. CASE Lapse
  BY <1>15 DEF Lapse
<1>16. CASE Block
  BY <1>16 DEF Block
<1>17. ASSUME NEW p \in Process, Authenticate(p) \/ AuthenticateFails(p) \/ Logout(p) \/ Release(p)
     PROVE  FlagsOK'
  BY <1>17 DEF Authenticate, AuthenticateFails, Logout, Release
<1>18. CASE StartSetup \/ StartReset \/ StartList
  BY <1>18 DEF StartSetup, StartReset, StartList
<1>19. CASE EnterCode \/ EnterCodeFails \/ StoreCredentialsFails \/ ReleaseDone
  BY <1>19 DEF EnterCode, EnterCodeFails, StoreCredentialsFails, ReleaseDone
<1>20. CASE
       \/ StartupNotify \/ TakeLock \/ EnsureSession \/ EngineCheck \/ EngineFails
       \/ Unlock
  BY <1>20 DEF StartupNotify, TakeLock, EnsureSession, EngineCheck, EngineFails, Unlock
<1>21. CASE Deliver \/ NotDelivered
  BY <1>21 DEF Deliver, NotDelivered
<1>22. CASE UNCHANGED vars
  BY <1>22 DEF vars
<1> QED
  BY <1>1, <1>2, <1>3, <1>4, <1>5, <1>6, <1>7, <1>8, <1>9, <1>10, <1>11, <1>12, <1>13,
     <1>14, <1>15, <1>16, <1>17, <1>18, <1>19, <1>20, <1>21, <1>22
     DEF Next, DaemonSteps, SetupSteps, ResetSteps, CommandSteps, Login, Process, Command

\* The history.
LEMMA HistoryStep == TypeOK /\ [Next]_vars => HistoryOK'
<1> SUFFICES ASSUME TypeOK, [Next]_vars PROVE HistoryOK'
  OBVIOUS
<1> USE DEF TypeOK, FlagsOK, HistoryOK, diskVars, rowVars, runVars, historyVars,
        Unclaimed, ClaimKept, SetStatus
<1>1. ASSUME NEW p \in Process, BeginLogin(p) PROVE HistoryOK'
  BY <1>1 DEF BeginLogin
<1>2. ASSUME NEW p \in Process, Authenticate(p) PROVE HistoryOK'
  BY <1>2 DEF Authenticate, Trusted
<1>3. ASSUME NEW p \in Process, EndLogin(p) PROVE HistoryOK'
  BY <1>3 DEF EndLogin
<1>4. ASSUME NEW p \in Process, Logout(p) PROVE HistoryOK'
  BY <1>4 DEF Logout
<1>5. ASSUME NEW p \in Process, ForgetStatus(p) PROVE HistoryOK'
  BY <1>5 DEF ForgetStatus
<1>6. ASSUME NEW p \in Process, Dies(p) PROVE HistoryOK'
  BY <1>6 DEF Dies
<1>7. CASE EnterCode
  BY <1>7 DEF EnterCode, Trusted
<1>8. CASE RequestSync
  BY <1>8 DEF RequestSync
<1>9. CASE AnnounceRecovery
  BY <1>9 DEF AnnounceRecovery
<1>10. CASE StartRun
  BY <1>10 DEF StartRun
<1>11. CASE Mark
  BY <1>11 DEF Mark
<1>12. CASE Settle
  BY <1>12 DEF Settle
<1>13. CASE Deliver
  BY <1>13 DEF Deliver
<1>14. CASE ReleaseClaim
  BY <1>14 DEF ReleaseClaim
<1>15. CASE Ack
  BY <1>15 DEF Ack
<1>16. CASE Lapse
  BY <1>16 DEF Lapse
<1>17. CASE Block
  BY <1>17 DEF Block
<1>18. ASSUME NEW p \in Process, AuthenticateFails(p) \/ Release(p)
     PROVE  HistoryOK'
  BY <1>18 DEF AuthenticateFails, Release
<1>19. CASE StartSetup \/ StartReset \/ StartList
  BY <1>19 DEF StartSetup, StartReset, StartList
<1>20. CASE
       \/ ClearCredentials \/ EnterCodeFails \/ StoreCredentials
       \/ StoreCredentialsFails \/ ReleaseDone
  BY <1>20 DEF ClearCredentials, EnterCodeFails, StoreCredentials,
     StoreCredentialsFails, ReleaseDone
<1>21. CASE
       \/ StartupNotify \/ TakeLock \/ EnsureSession \/ EngineCheck \/ EngineFails
       \/ Unlock
  BY <1>21 DEF StartupNotify, TakeLock, EnsureSession, EngineCheck, EngineFails, Unlock
<1>22. CASE ClaimNotification \/ NotDelivered
  BY <1>22 DEF ClaimNotification, NotDelivered
<1>23. CASE UNCHANGED vars
  BY <1>23 DEF vars
<1> QED
  BY <1>1, <1>2, <1>3, <1>4, <1>5, <1>6, <1>7, <1>8, <1>9, <1>10, <1>11, <1>12, <1>13,
     <1>14, <1>15, <1>16, <1>17, <1>18, <1>19, <1>20, <1>21, <1>22, <1>23
     DEF Next, DaemonSteps, SetupSteps, ResetSteps, CommandSteps, Login, Process, Command

\* The other values.
LEMMA ValuesStep == TypeOK /\ [Next]_vars => ValuesOK'
<1> SUFFICES ASSUME TypeOK, [Next]_vars PROVE ValuesOK'
  OBVIOUS
<1> USE ConstantsAssumption DEF TypeOK, ValuesOK, Status, diskVars, rowVars, runVars,
        historyVars, Become, Fault, Unclaimed, ClaimKept, SetStatus, Start
<1>1. ASSUME NEW p \in Process, BeginLogin(p) PROVE ValuesOK'
  BY <1>1 DEF BeginLogin
<1>2. ASSUME NEW p \in Process, Authenticate(p) PROVE ValuesOK'
  BY <1>2 DEF Authenticate, Trusted
<1>3. ASSUME NEW p \in Process, AuthenticateFails(p) PROVE ValuesOK'
  BY <1>3 DEF AuthenticateFails
<1>4. ASSUME NEW p \in Process, EndLogin(p) PROVE ValuesOK'
  BY <1>4 DEF EndLogin, StatusOf
<1>5. ASSUME NEW p \in Process, Logout(p) PROVE ValuesOK'
  BY <1>5 DEF Logout
<1>6. ASSUME NEW p \in Process, ForgetStatus(p) PROVE ValuesOK'
  BY <1>6 DEF ForgetStatus
<1>7. ASSUME NEW p \in Process, Release(p) PROVE ValuesOK'
  BY <1>7 DEF Release
<1>8. ASSUME NEW p \in Process, Dies(p) PROVE ValuesOK'
  <2>1. api' \in {"none", "untrusted", "trusted"} /\ lapsed' \in BOOLEAN
    BY <1>8 DEF Dies
  <2>2. lapsed' => api' = "trusted"
    BY <1>8 DEF Dies
  <2>3. outcome' \in {"none", "startup", "skipped", "ok", "auth", "blocked", "error"}
    BY <1>8 DEF Dies
  <2>4. cookies' = cookies /\ status' = status /\ commands' = commands
    BY <1>8 DEF Dies
  <2>5. faults' \in 0..MaxFaults
    BY <1>8 DEF Dies
  <2> QED
    BY <2>1, <2>2, <2>3, <2>4, <2>5
<1>9. CASE StartSetup
  BY <1>9 DEF StartSetup
<1>10. CASE StartReset
  BY <1>10 DEF StartReset
<1>11. CASE StartList
  BY <1>11 DEF StartList
<1>12. CASE EnterCode
  BY <1>12 DEF EnterCode, Trusted
<1>13. CASE EnterCodeFails
  BY <1>13 DEF EnterCodeFails
<1>14. CASE StoreCredentialsFails
  BY <1>14 DEF StoreCredentialsFails
<1>15. CASE StartupNotify
  BY <1>15 DEF StartupNotify
<1>16. CASE TakeLock
  BY <1>16 DEF TakeLock
<1>17. CASE EngineCheck
  BY <1>17 DEF EngineCheck
<1>18. CASE EngineFails
  BY <1>18 DEF EngineFails
<1>19. CASE Mark
  BY <1>19 DEF Mark
<1>20. CASE NotDelivered
  BY <1>20 DEF NotDelivered
<1>21. CASE Ack
  BY <1>21 DEF Ack
<1>22. CASE Lapse
  BY <1>22 DEF Lapse
<1>23. CASE Block
  BY <1>23 DEF Block
<1>24. CASE
       \/ ClearCredentials \/ StoreCredentials \/ RequestSync \/ ReleaseDone
       \/ AnnounceRecovery
  BY <1>24 DEF ClearCredentials, StoreCredentials, RequestSync, ReleaseDone,
     AnnounceRecovery
<1>25. CASE StartRun \/ EnsureSession \/ Unlock \/ Settle
  BY <1>25 DEF StartRun, EnsureSession, Unlock, Settle
<1>26. CASE ClaimNotification \/ Deliver \/ ReleaseClaim
  BY <1>26 DEF ClaimNotification, Deliver, ReleaseClaim
<1>27. CASE UNCHANGED vars
  BY <1>27 DEF vars
<1> QED
  BY <1>1, <1>2, <1>3, <1>4, <1>5, <1>6, <1>7, <1>8, <1>9, <1>10, <1>11, <1>12, <1>13,
     <1>14, <1>15, <1>16, <1>17, <1>18, <1>19, <1>20, <1>21, <1>22, <1>23, <1>24, <1>25,
     <1>26, <1>27
     DEF Next, DaemonSteps, SetupSteps, ResetSteps, CommandSteps, Login, Process, Command

LEMMA TypeOKStep == TypeOK /\ [Next]_vars => TypeOK'
  BY ControlStep, FlagsStep, HistoryStep, ValuesStep DEF TypeOK

\* Every variable keeps its type, and a session lapses only while the daemon has one.
THEOREM TypeCorrect == Spec => []TypeOK
<1>1. Init => TypeOK
  <2> SUFFICES ASSUME Init PROVE ControlOK /\ FlagsOK /\ HistoryOK /\ ValuesOK
    BY DEF TypeOK
  <2>1. ControlOK
    BY DEF Init, ControlOK, Process, Command, Step
  <2>2. FlagsOK
    BY DEF Init, FlagsOK
  <2>3. HistoryOK
    BY DEF Init, HistoryOK
  <2>4. ValuesOK
    <3>1. lapsed = FALSE /\ commands \in 0..MaxCommands /\ faults \in 0..MaxFaults
      BY ConstantsAssumption DEF Init
    <3> QED
      BY <3>1 DEF Init, ValuesOK, Status
  <2> QED
    BY <2>1, <2>2, <2>3, <2>4
<1> QED
  BY <1>1, TypeOKStep, PTL DEF Spec

(***************************************************************************)
(* The account-operation lock.                                             *)
(***************************************************************************)
DaemonLocked == {"session", "login", "answer", "result", "engine", "mark", "unlock"}
SetupLocked == {"logout", "forget", "login", "answer", "result", "code", "store",
                "request", "done", "release"}
ResetLocked == {"logout", "forget", "clear", "release"}

\* A process works inside the lock exactly as long as it has it.
HolderIsInside ==
    /\ holder = "daemon" <=> pc["daemon"] \in DaemonLocked
    /\ holder = "setup" <=> pc["setup"] \in SetupLocked
    /\ holder = "reset" <=> pc["reset"] \in ResetLocked

LockInv ==
    /\ pc["daemon"] \in DaemonLocked \cup {"startup", "idle", "lock", "settle", "notify",
                                           "send", "unclaim", "ack"}
    /\ pc["setup"] \in SetupLocked \cup {"idle", "announce"}
    /\ pc["reset"] \in ResetLocked \cup {"idle"}
    /\ pc["list"] \in {"idle", "login", "answer", "result"}
    /\ HolderIsInside

\* The lock goes to one process at a time, which keeps it while it works.
LEMMA LockStep == TypeOK /\ LockInv /\ [Next]_vars => LockInv'
<1> SUFFICES ASSUME TypeOK, LockInv, [Next]_vars PROVE LockInv'
  OBVIOUS
<1> USE ConstantsAssumption DEF TypeOK, ControlOK, LockInv, HolderIsInside, DaemonLocked,
        SetupLocked, ResetLocked, Process, Command, Goto, Start, diskVars, rowVars,
        runVars, historyVars
<1>1. ASSUME NEW p \in Process, BeginLogin(p) PROVE LockInv'
  BY <1>1 DEF BeginLogin
<1>2. ASSUME NEW p \in Process, Authenticate(p) PROVE LockInv'
  BY <1>2 DEF Authenticate
<1>3. ASSUME NEW p \in Process, AuthenticateFails(p) PROVE LockInv'
  BY <1>3 DEF AuthenticateFails
<1>4. ASSUME NEW p \in Process, EndLogin(p) PROVE LockInv'
  BY <1>4 DEF EndLogin, AfterLogin
<1>5. ASSUME NEW p \in Process, Release(p) PROVE LockInv'
  BY <1>5 DEF Release
<1>6. ASSUME NEW p \in Process, Dies(p) PROVE LockInv'
  BY <1>6 DEF Dies
<1>7. CASE StartSetup
  BY <1>7 DEF StartSetup
<1>8. CASE StartReset
  BY <1>8 DEF StartReset
<1>9. CASE ReleaseDone
  BY <1>9 DEF ReleaseDone
<1>10. CASE TakeLock
  BY <1>10 DEF TakeLock
<1>11. CASE Unlock
  BY <1>11 DEF Unlock
<1>12. ASSUME NEW p \in Process, Logout(p) \/ ForgetStatus(p)
     PROVE  LockInv'
  BY <1>12 DEF Logout, ForgetStatus
<1>13. CASE StartList \/ ClearCredentials
  BY <1>13 DEF StartList, ClearCredentials
<1>14. CASE
       \/ EnterCode \/ EnterCodeFails \/ StoreCredentials \/ StoreCredentialsFails
       \/ RequestSync \/ AnnounceRecovery
  BY <1>14 DEF EnterCode, EnterCodeFails, StoreCredentials, StoreCredentialsFails,
     RequestSync, AnnounceRecovery
<1>15. CASE
       \/ StartupNotify \/ StartRun \/ EnsureSession \/ EngineCheck \/ EngineFails
       \/ Mark
  BY <1>15 DEF StartupNotify, StartRun, EnsureSession, EngineCheck, EngineFails, Mark
<1>16. CASE
       \/ Settle \/ ClaimNotification \/ Deliver \/ NotDelivered \/ ReleaseClaim \/ Ack
  BY <1>16 DEF Settle, ClaimNotification, Deliver, NotDelivered, ReleaseClaim, Ack
<1>17. CASE Lapse \/ Block
  BY <1>17 DEF Lapse, Block
<1>18. CASE UNCHANGED vars
  BY <1>18 DEF vars
<1> QED
  BY <1>1, <1>2, <1>3, <1>4, <1>5, <1>6, <1>7, <1>8, <1>9, <1>10, <1>11, <1>12, <1>13,
     <1>14, <1>15, <1>16, <1>17, <1>18
     DEF Next, DaemonSteps, SetupSteps, ResetSteps, CommandSteps, Login, Process, Command

LEMMA LockInvariant == Spec => []LockInv
<1>1. Init => LockInv
  BY ConstantsAssumption DEF Init, LockInv, HolderIsInside, DaemonLocked, SetupLocked,
     ResetLocked, Process, Command
<1> QED
  BY <1>1, LockStep, TypeCorrect, PTL DEF Spec

(***************************************************************************)
(* Reminders.                                                              *)
(***************************************************************************)
ReminderInv ==
    /\ OneReminderPerOutage
    /\ reminded => claimed
    /\ SuppressedOnlyAfterDelivery

\* The claim, the delivery and the releases of the claim by logins and recoveries.
LEMMA ReminderStep == TypeOK /\ LockInv /\ ReminderInv /\ [Next]_vars => ReminderInv'
<1> SUFFICES ASSUME TypeOK, LockInv, ReminderInv, [Next]_vars PROVE ReminderInv'
  OBVIOUS
<1> USE DEF TypeOK, FlagsOK, HistoryOK, ControlOK, LockInv, HolderIsInside, DaemonLocked, ReminderInv,
        OneReminderPerOutage, SuppressedOnlyAfterDelivery, Process, Command, diskVars,
        rowVars, runVars, historyVars, Goto, Unclaimed, ClaimKept, SetStatus, Start
<1>1. ASSUME NEW p \in Process, BeginLogin(p) PROVE ReminderInv'
  BY <1>1 DEF BeginLogin
<1>2. ASSUME NEW p \in Process, EndLogin(p) PROVE ReminderInv'
  BY <1>2 DEF EndLogin, AfterLogin
<1>3. ASSUME NEW p \in Process, ForgetStatus(p) PROVE ReminderInv'
  BY <1>3 DEF ForgetStatus
<1>4. ASSUME NEW p \in Process, Dies(p) PROVE ReminderInv'
  BY <1>4 DEF Dies
<1>5. CASE AnnounceRecovery
  BY <1>5 DEF AnnounceRecovery
<1>6. CASE Mark
  BY <1>6 DEF Mark
<1>7. CASE Settle
  BY <1>7 DEF Settle
<1>8. CASE ClaimNotification
  BY <1>8 DEF ClaimNotification
<1>9. CASE Deliver
  BY <1>9 DEF Deliver
<1>10. CASE NotDelivered
  BY <1>10 DEF NotDelivered
<1>11. CASE ReleaseClaim
  BY <1>11 DEF ReleaseClaim
<1>12. ASSUME NEW p \in Process, Authenticate(p) \/ AuthenticateFails(p) \/ Logout(p) \/ Release(p)
     PROVE  ReminderInv'
  BY <1>12 DEF Authenticate, AuthenticateFails, Logout, Release
<1>13. CASE StartSetup \/ StartReset \/ StartList \/ ClearCredentials
  BY <1>13 DEF StartSetup, StartReset, StartList, ClearCredentials
<1>14. CASE
       \/ EnterCode \/ EnterCodeFails \/ StoreCredentials \/ StoreCredentialsFails
       \/ RequestSync \/ ReleaseDone
  BY <1>14 DEF EnterCode, EnterCodeFails, StoreCredentials, StoreCredentialsFails,
     RequestSync, ReleaseDone
<1>15. CASE
       \/ StartupNotify \/ StartRun \/ TakeLock \/ EnsureSession \/ EngineCheck
       \/ EngineFails \/ Unlock \/ Ack
  BY <1>15 DEF StartupNotify, StartRun, TakeLock, EnsureSession, EngineCheck,
     EngineFails, Unlock, Ack
<1>16. CASE Lapse \/ Block
  BY <1>16 DEF Lapse, Block
<1>17. CASE UNCHANGED vars
  BY <1>17 DEF vars
<1> QED
  BY <1>1, <1>2, <1>3, <1>4, <1>5, <1>6, <1>7, <1>8, <1>9, <1>10, <1>11, <1>12, <1>13,
     <1>14, <1>15, <1>16, <1>17
     DEF Next, DaemonSteps, SetupSteps, ResetSteps, CommandSteps, Login, Process, Command

LEMMA ReminderInvariant == Spec => []ReminderInv
<1>1. Init => ReminderInv
  BY DEF Init, ReminderInv, OneReminderPerOutage, SuppressedOnlyAfterDelivery
<1> QED
  BY <1>1, ReminderStep, TypeCorrect, LockInvariant, PTL DEF Spec

\* No outage is announced twice, by whatever claims, failed deliveries, releases,
\* logins and restarts (application.py:112-134).
THEOREM AnnouncedOnce == Spec => []OneReminderPerOutage
  BY ReminderInvariant, PTL DEF ReminderInv

\* A claim that suppresses reminders stands for a delivered one or for a daemon that
\* died in the middle of it (application.py:112-134).
THEOREM SuppressionIsJustified == Spec => []SuppressedOnlyAfterDelivery
  BY ReminderInvariant, PTL DEF ReminderInv

(***************************************************************************)
(* The status row.                                                         *)
(***************************************************************************)
\* Every end of a login writes another status.
LEMMA AuthenticatingStep ==
  TypeOK /\ AuthenticatingIsTemporary /\ [Next]_vars => AuthenticatingIsTemporary'
<1> SUFFICES ASSUME TypeOK, AuthenticatingIsTemporary, [Next]_vars PROVE AuthenticatingIsTemporary'
  OBVIOUS
<1> USE DEF TypeOK, FlagsOK, HistoryOK, ControlOK, AuthenticatingIsTemporary, Process,
        Command, diskVars, rowVars, runVars, historyVars, Goto, SetStatus, Start
<1>1. ASSUME NEW p \in Process, BeginLogin(p) PROVE AuthenticatingIsTemporary'
  BY <1>1 DEF BeginLogin
<1>2. ASSUME NEW p \in Process, EndLogin(p) PROVE AuthenticatingIsTemporary'
  BY <1>2 DEF EndLogin, StatusOf, AfterLogin
<1>3. ASSUME NEW p \in Process, ForgetStatus(p) PROVE AuthenticatingIsTemporary'
  BY <1>3 DEF ForgetStatus
<1>4. ASSUME NEW p \in Process, Dies(p) PROVE AuthenticatingIsTemporary'
  BY <1>4 DEF Dies
<1>5. CASE Mark
  BY <1>5 DEF Mark
<1>6. ASSUME NEW p \in Process, Authenticate(p) \/ AuthenticateFails(p)
     PROVE  AuthenticatingIsTemporary'
  BY <1>6 DEF Authenticate, AuthenticateFails
<1>7. ASSUME NEW p \in Process, Logout(p) \/ Release(p)
     PROVE  AuthenticatingIsTemporary'
  BY <1>7 DEF Logout, Release
<1>8. CASE StartSetup \/ StartReset \/ StartList \/ ClearCredentials
  BY <1>8 DEF StartSetup, StartReset, StartList, ClearCredentials
<1>9. CASE
       \/ EnterCode \/ EnterCodeFails \/ StoreCredentials \/ StoreCredentialsFails
       \/ RequestSync \/ ReleaseDone \/ AnnounceRecovery
  BY <1>9 DEF EnterCode, EnterCodeFails, StoreCredentials, StoreCredentialsFails,
     RequestSync, ReleaseDone, AnnounceRecovery
<1>10. CASE
       \/ StartupNotify \/ StartRun \/ TakeLock \/ EnsureSession \/ EngineCheck
       \/ EngineFails \/ Unlock
  BY <1>10 DEF StartupNotify, StartRun, TakeLock, EnsureSession, EngineCheck,
     EngineFails, Unlock
<1>11. CASE
       \/ Settle \/ ClaimNotification \/ Deliver \/ NotDelivered \/ ReleaseClaim \/ Ack
  BY <1>11 DEF Settle, ClaimNotification, Deliver, NotDelivered, ReleaseClaim, Ack
<1>12. CASE Lapse \/ Block
  BY <1>12 DEF Lapse, Block
<1>13. CASE UNCHANGED vars
  BY <1>13 DEF vars
<1> QED
  BY <1>1, <1>2, <1>3, <1>4, <1>5, <1>6, <1>7, <1>8, <1>9, <1>10, <1>11, <1>12, <1>13
     DEF Next, DaemonSteps, SetupSteps, ResetSteps, CommandSteps, Login, Process, Command

\* Whoever leaves AuthManager.login alive has replaced AUTHENTICATING, also if others
\* log in beside it (auth/manager.py:24-46).
THEOREM AuthenticatingEnds == Spec => []AuthenticatingIsTemporary
<1>1. Init => AuthenticatingIsTemporary
  BY DEF Init, AuthenticatingIsTemporary
<1> QED
  BY <1>1, AuthenticatingStep, TypeCorrect, PTL DEF Spec

Earned == cookies # "none" \/ distrusted \/ unrecorded

\* A login that was answered and has not written the row yet has already earned it.
RowInv ==
    /\ AuthenticatedRowIsEarned
    /\ \A p \in Process : pc[p] = "result" /\ reply[p] = "trusted" => Earned

\* A logout is alone with the lock, except for a login of list.
LEMMA RowStep == TypeOK /\ LockInv /\ RowInv /\ [Next]_vars => RowInv'
<1> SUFFICES ASSUME TypeOK, LockInv, RowInv, [Next]_vars PROVE RowInv'
  OBVIOUS
<1> USE DEF TypeOK, FlagsOK, HistoryOK, ControlOK, LockInv, HolderIsInside, DaemonLocked, SetupLocked,
        ResetLocked, RowInv, AuthenticatedRowIsEarned, Earned, Process, Command,
        diskVars, rowVars, runVars, historyVars, Goto, Forgotten, SetStatus, Start
<1>1. ASSUME NEW p \in Process, BeginLogin(p) PROVE RowInv'
  BY <1>1 DEF BeginLogin
<1>2. ASSUME NEW p \in Process, Authenticate(p) PROVE RowInv'
  BY <1>2 DEF Authenticate, Trusted
<1>3. ASSUME NEW p \in Process, AuthenticateFails(p) PROVE RowInv'
  BY <1>3 DEF AuthenticateFails
<1>4. ASSUME NEW p \in Process, EndLogin(p) PROVE RowInv'
  BY <1>4 DEF EndLogin, StatusOf, AfterLogin
<1>5. ASSUME NEW p \in Process, Logout(p) PROVE RowInv'
  BY <1>5 DEF Logout
<1>6. ASSUME NEW p \in Process, ForgetStatus(p) PROVE RowInv'
  BY <1>6 DEF ForgetStatus
<1>7. ASSUME NEW p \in Process, Release(p) PROVE RowInv'
  BY <1>7 DEF Release
<1>8. ASSUME NEW p \in Process, Dies(p) PROVE RowInv'
  BY <1>8 DEF Dies
<1>9. CASE EnterCode
  BY <1>9 DEF EnterCode, Trusted
<1>10. CASE EnterCodeFails
  BY <1>10 DEF EnterCodeFails
<1>11. CASE Mark
  BY <1>11 DEF Mark
<1>12. CASE Lapse
  BY <1>12 DEF Lapse
<1>13. CASE Block
  BY <1>13 DEF Block
<1>14. CASE StartSetup \/ StartReset \/ StartList \/ ClearCredentials
  BY <1>14 DEF StartSetup, StartReset, StartList, ClearCredentials
<1>15. CASE
       \/ StoreCredentials \/ StoreCredentialsFails \/ RequestSync \/ ReleaseDone
       \/ AnnounceRecovery
  BY <1>15 DEF StoreCredentials, StoreCredentialsFails, RequestSync, ReleaseDone,
     AnnounceRecovery
<1>16. CASE
       \/ StartupNotify \/ StartRun \/ TakeLock \/ EnsureSession \/ EngineCheck
       \/ EngineFails \/ Unlock
  BY <1>16 DEF StartupNotify, StartRun, TakeLock, EnsureSession, EngineCheck,
     EngineFails, Unlock
<1>17. CASE
       \/ Settle \/ ClaimNotification \/ Deliver \/ NotDelivered \/ ReleaseClaim \/ Ack
  BY <1>17 DEF Settle, ClaimNotification, Deliver, NotDelivered, ReleaseClaim, Ack
<1>18. CASE UNCHANGED vars
  BY <1>18 DEF vars
<1> QED
  BY <1>1, <1>2, <1>3, <1>4, <1>5, <1>6, <1>7, <1>8, <1>9, <1>10, <1>11, <1>12, <1>13,
     <1>14, <1>15, <1>16, <1>17, <1>18
     DEF Next, DaemonSteps, SetupSteps, ResetSteps, CommandSteps, Login, Process, Command

\* The row claims a session only where there is one to renew, up to the named
\* exceptions (auth/manager.py:45, 59-66).
THEOREM AuthenticatedIsEarned == Spec => []AuthenticatedRowIsEarned
<1>1. Init => RowInv
  BY DEF Init, RowInv, AuthenticatedRowIsEarned, Process, Command
<1>2. RowInv => AuthenticatedRowIsEarned
  BY DEF RowInv
<1> QED
  BY <1>1, <1>2, RowStep, TypeCorrect, LockInvariant, PTL DEF Spec

(***************************************************************************)
(* holder is the lock LockCoordinator implements.                          *)
(***************************************************************************)
AccountLock ==
    INSTANCE Exclusion WITH
        Worker <- Process, Name <- {"account"}, holder <- [n \in {"account"} |-> holder]

\* The lock changes hands only by way of nobody.
LEMMA HandOver == [Next]_vars => holder' = holder \/ holder = None \/ holder' = None
<1> SUFFICES ASSUME [Next]_vars
             PROVE  holder' = holder \/ holder = None \/ holder' = None
  OBVIOUS
<1>1. ASSUME NEW p \in Process,
             \/ Login(p) \/ CommandSteps(p) \/ AuthenticateFails(p) \/ Dies(p)
      PROVE  holder' = holder \/ holder = None \/ holder' = None
  BY <1>1 DEF Login, CommandSteps, BeginLogin, Authenticate, AuthenticateFails, EndLogin,
     Logout, ForgetStatus, Release, Dies
<1>2. CASE StartSetup \/ StartReset \/ StartList \/ ClearCredentials
  BY <1>2 DEF StartSetup, StartReset, StartList, ClearCredentials
<1>3. CASE \/ EnterCode \/ EnterCodeFails \/ StoreCredentials \/ StoreCredentialsFails
           \/ RequestSync \/ ReleaseDone \/ AnnounceRecovery
  BY <1>3 DEF EnterCode, EnterCodeFails, StoreCredentials, StoreCredentialsFails,
     RequestSync, ReleaseDone, AnnounceRecovery
<1>4. CASE \/ StartupNotify \/ StartRun \/ TakeLock \/ EnsureSession \/ EngineCheck
           \/ EngineFails \/ Mark \/ Unlock
  BY <1>4 DEF StartupNotify, StartRun, TakeLock, EnsureSession, EngineCheck, EngineFails,
     Mark, Unlock
<1>5. CASE \/ Settle \/ ClaimNotification \/ Deliver \/ NotDelivered \/ ReleaseClaim \/ Ack
           \/ Lapse \/ Block
  BY <1>5 DEF Settle, ClaimNotification, Deliver, NotDelivered, ReleaseClaim, Ack, Lapse, Block
<1>6. CASE UNCHANGED vars
  BY <1>6 DEF vars
<1> QED
  BY <1>1, <1>2, <1>3, <1>4, <1>5, <1>6
     DEF Next, DaemonSteps, SetupSteps, ResetSteps, Process, Command

\* The lock is held by whoever works inside it and by nobody else: no error of a login, of
\* a code or of a run leaves it taken, and no process gives back that of another
\* (application.py, account_operation).
THEOREM LockFollowsSections == Spec => []HolderIsInside
<1>1. LockInv => HolderIsInside
  BY DEF LockInv
<1> QED
  BY <1>1, LockInvariant, PTL

\* Runs, setups, resets and their deaths use the account-operation lock as Exclusion
\* allows.
THEOREM LockIsExclusion == Spec => AccountLock!ExclusionSpec
<1>1. Init => AccountLock!ExclusionInit
  BY DEF Init, AccountLock!ExclusionInit
<1>2. TypeOK' /\ [Next]_vars
        => [AccountLock!ExclusionNext]_([n \in {"account"} |-> holder])
  <2> SUFFICES ASSUME TypeOK', [Next]_vars, holder' # holder
               PROVE  AccountLock!ExclusionNext
    OBVIOUS
  <2>1. CASE holder = None
    <3>1. holder' \in Process
      BY <2>1 DEF TypeOK, ControlOK, Process, Command
    <3>2. AccountLock!Take(holder', "account")
      BY <2>1 DEF AccountLock!Take
    <3> QED
      BY <3>1, <3>2 DEF AccountLock!ExclusionNext
  <2>2. CASE holder # None
    <3>1. holder' = None
      BY <2>2, HandOver
    <3>2. AccountLock!Give({"account"})
      BY <2>2, <3>1 DEF AccountLock!Give
    <3> QED
      BY <3>2 DEF AccountLock!ExclusionNext
  <2> QED
    BY <2>1, <2>2
<1> QED
  BY <1>1, <1>2, TypeCorrect, PTL DEF Spec, AccountLock!ExclusionSpec
=============================================================================

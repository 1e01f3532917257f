------------------------ MODULE LockCoordinatorProofs ------------------------
(***************************************************************************)
(* Proofs about LockCoordinator, for any number of threads, processes and  *)
(* lock names.  The argument is that of the comment at locks.py:46-48: the *)
(* OS file lock decides who may touch the row of a name.  IInv says so:    *)
(* exactly the worker between taking and releasing the file lock has it,   *)
(* and a row naming a live worker belongs to the one inside the section.   *)
(***************************************************************************)
EXTENDS LockCoordinator, TLAPS

\* The phases in which a worker has the OS file lock.
WithFile == {"lease", "clear", "relock", "held", "unlease", "unfile"}

FileInv ==
    \A w \in Worker, n \in Name : phase[w][n] \in WithFile <=> fileHolder[n] = w

LeaseInv ==
    /\ \A w \in Worker, n \in Name : lease[n] = w => Holding(w, n)
    /\ LeaseIsTheHolders
    /\ RecoverySucceeds

IInv == TypeOK /\ FileInv /\ LeaseInv

\* Setting the phase of one worker and one name keeps every phase a phase.
LEMMA GotoType ==
  ASSUME TypeOK, NEW w \in Worker, NEW n \in Name, NEW p \in Phase, Goto(w, n, p)
  PROVE  phase' \in [Worker -> [Name -> Phase]]
  BY DEF TypeOK, Goto

\* acquire_lock writes w into the row of n, or leaves it as the purge left it.
LEMMA AcquireLockType ==
  ASSUME TypeOK, NEW w \in Worker, NEW n \in Name, NEW p \in Phase, AcquireLock(w, n, p)
  PROVE  TypeOK'
<1>1. AfterPurge \in [Name -> Worker \cup {None, Orphan}]
  BY DEF AfterPurge, TypeOK
<1>2. lease' \in [Name -> Worker \cup {None, Orphan}]
  BY <1>1 DEF AcquireLock
<1>3. "held" \in Phase
  BY DEF Phase
<1>4. phase' \in [Worker -> [Name -> Phase]]
  BY <1>3, GotoType DEF AcquireLock
<1> QED
  BY <1>2, <1>4 DEF AcquireLock, TypeOK

\* Every value of every variable has its type, in every reachable state.
THEOREM TypeCorrect == Spec => []TypeOK
<1> USE ConstantsAssumption
<1>1. Init => TypeOK
  BY DEF Init, TypeOK, Phase
<1>2. TypeOK /\ [Next]_vars => TypeOK'
  <2> SUFFICES ASSUME TypeOK, [Next]_vars
               PROVE  TypeOK'
    OBVIOUS
  <2> USE DEF TypeOK, Phase, Acquiring, Releasing, Goto
  <2>1. ASSUME NEW w \in Worker, NEW n \in Name, Enter(w, n)
        PROVE  TypeOK'
    <3>1. CASE AcquireProcessLock(w, n)
      BY <3>1 DEF AcquireProcessLock
    <3>2. CASE AcquireFileLock(w, n)
      <4>1. fileHolder' \in [Name -> Worker \cup {None}]
        BY <3>2 DEF AcquireFileLock
      <4>2. phase' \in [Worker -> [Name -> Phase]]
        BY <3>2, GotoType DEF AcquireFileLock
      <4> QED
        BY <3>2, <4>1, <4>2 DEF AcquireFileLock
    <3>3. CASE AcquireLease(w, n)
      BY <3>3, AcquireLockType DEF AcquireLease
    <3>4. CASE ClearLock(w, n)
      BY <3>4 DEF ClearLock
    <3>5. CASE AcquireLeaseAgain(w, n)
      BY <3>5, AcquireLockType DEF AcquireLeaseAgain
    <3>6. CASE RepositoryFails(w, n)
      BY <3>6 DEF RepositoryFails
    <3> QED
      BY <2>1, <3>1, <3>2, <3>3, <3>4, <3>5, <3>6 DEF Enter
  <2>2. ASSUME NEW w \in Worker, NEW n \in Name, Leave(w, n)
        PROVE  TypeOK'
    <3>1. CASE LeaveBody(w, n)
      BY <3>1 DEF LeaveBody
    <3>2. CASE ReleaseLock(w, n)
      BY <3>2 DEF ReleaseLock
    <3>3. CASE ReleaseLockFails(w, n)
      BY <3>3 DEF ReleaseLockFails
    <3>4. CASE ReleaseFileLock(w, n)
      BY <3>4 DEF ReleaseFileLock
    <3>5. CASE ReleaseProcessLock(w, n)
      BY <3>5 DEF ReleaseProcessLock
    <3> QED
      BY <2>2, <3>1, <3>2, <3>3, <3>4, <3>5 DEF Leave
  <2>3. ASSUME NEW n \in Name, Expire(n)
        PROVE  TypeOK'
    BY <2>3 DEF Expire
  <2>4. ASSUME NEW p \in Process, Crash(p)
        PROVE  TypeOK'
    BY <2>4 DEF Crash
  <2>5. CASE UNCHANGED vars
    BY <2>5 DEF vars
  <2> QED
    BY <2>1, <2>2, <2>3, <2>4, <2>5 DEF Next
<1> QED
  BY <1>1, <1>2, PTL DEF Spec

LEMMA InitIInv == Init => IInv
  BY ConstantsAssumption
     DEF Init, IInv, TypeOK, Phase, FileInv, WithFile, LeaseInv, LeaseIsTheHolders,
         RecoverySucceeds, Holding

\* Goto moves one worker at one name and nobody else.
LEMMA GotoAt ==
  ASSUME TypeOK, NEW w \in Worker, NEW n \in Name, NEW p, Goto(w, n, p)
  PROVE  \A v \in Worker, m \in Name :
             phase'[v][m] = IF v = w /\ m = n THEN p ELSE phase[v][m]
  BY DEF TypeOK, Goto

\* acquire_lock either writes w into a free row of n and enters, or leaves the row
\* of n as it was and goes on; other rows stay or are purged.
LEMMA AcquireLockEffect ==
  ASSUME TypeOK, NEW w \in Worker, NEW n \in Name, NEW p, AcquireLock(w, n, p)
  PROVE  /\ \A m \in Name \ {n} : lease'[m] \in {lease[m], None}
         /\ \/ lease'[n] = w /\ Goto(w, n, "held")
                 /\ (lease[n] = None \/ n \in expired)
            \/ lease'[n] = lease[n] /\ lease[n] # None /\ Goto(w, n, p)
         /\ fileHolder' = fileHolder
<1>1. AfterPurge \in [Name -> Worker \cup {None, Orphan}]
  BY DEF AfterPurge, TypeOK
<1>2. CASE AfterPurge[n] = None
  BY <1>1, <1>2 DEF AcquireLock, AfterPurge
<1>3. CASE AfterPurge[n] # None
  BY <1>1, <1>3 DEF AcquireLock, AfterPurge
<1> QED
  BY <1>2, <1>3

\* acquire_lock keeps the invariant, provided it is called with the file lock.
LEMMA AcquireLockIInv ==
  ASSUME IInv, TypeOK', NEW w \in Worker, NEW n \in Name,
         phase[w][n] \in {"lease", "relock"},
         NEW p \in {"clear", "unfile"}, AcquireLock(w, n, p)
  PROVE  IInv'
<1> USE ConstantsAssumption DEF Holding
<1>1. TypeOK /\ FileInv /\ LeaseInv
  BY DEF IInv
<1>2. \A v \in Worker : v # w => phase[v][n] \notin WithFile
  BY <1>1 DEF FileInv, WithFile
<1>3. /\ \A m \in Name \ {n} : lease'[m] \in {lease[m], None}
      /\ fileHolder' = fileHolder
  BY <1>1, AcquireLockEffect
<1>4. CASE lease'[n] = w /\ Goto(w, n, "held")
  <2>1. \A v \in Worker, m \in Name :
           phase'[v][m] = IF v = w /\ m = n THEN "held" ELSE phase[v][m]
    BY <1>1, <1>4, GotoAt
  <2>2. FileInv'
    BY <1>1, <1>3, <2>1 DEF FileInv, WithFile
  <2>3. LeaseInv'
    BY <1>1, <1>2, <1>3, <1>4, <2>1
       DEF LeaseInv, LeaseIsTheHolders, RecoverySucceeds, WithFile
  <2> QED
    BY <2>2, <2>3 DEF IInv
<1>5. CASE lease'[n] = lease[n] /\ lease[n] # None /\ Goto(w, n, p)
  <2>1. \A v \in Worker, m \in Name :
           phase'[v][m] = IF v = w /\ m = n THEN p ELSE phase[v][m]
    BY <1>1, <1>5, GotoAt
  <2>2. FileInv'
    BY <1>1, <1>3, <2>1 DEF FileInv, WithFile
  <2>3. LeaseInv'
    BY <1>1, <1>2, <1>3, <1>5, <2>1
       DEF LeaseInv, LeaseIsTheHolders, RecoverySucceeds, WithFile
  <2> QED
    BY <2>2, <2>3 DEF IInv
<1> QED
  BY <1>1, <1>4, <1>5, AcquireLockEffect

\* One step of the acquisition.
LEMMA EnterIInv ==
  ASSUME IInv, TypeOK', NEW w \in Worker, NEW n \in Name, Enter(w, n)
  PROVE  IInv'
<1> USE ConstantsAssumption
<1> USE DEF IInv, TypeOK, FileInv, WithFile, LeaseInv, LeaseIsTheHolders,
            RecoverySucceeds, Holding, Goto
<1>1. CASE AcquireProcessLock(w, n)
  BY <1>1 DEF AcquireProcessLock
<1>2. CASE AcquireFileLock(w, n)
  <2>1. CASE fileHolder[n] = None
    <3>1. \A v \in Worker, m \in Name :
             phase'[v][m] = IF v = w /\ m = n THEN "lease" ELSE phase[v][m]
      BY <1>2, <2>1, GotoAt DEF AcquireFileLock
    <3>2. fileHolder' = [fileHolder EXCEPT ![n] = w] /\ lease' = lease
      BY <1>2, <2>1 DEF AcquireFileLock
    <3>3. FileInv'
      BY <2>1, <3>1, <3>2
    <3>4. LeaseInv'
      <4>1. \A v \in Worker, m \in Name :
               /\ Holding(v, m)' <=> Holding(v, m)
               /\ phase'[v][m] = "relock" <=> phase[v][m] = "relock"
        BY <1>2, <3>1 DEF AcquireFileLock
      <4> QED
        BY <3>2, <4>1
    <3> QED
      BY <3>3, <3>4
  <2>2. CASE fileHolder[n] # None
    <3>1. \A v \in Worker, m \in Name :
             phase'[v][m] = IF v = w /\ m = n THEN "unprocess" ELSE phase[v][m]
      BY <1>2, <2>2, GotoAt DEF AcquireFileLock
    <3>2. fileHolder' = fileHolder /\ lease' = lease /\ phase[w][n] = "file"
      BY <1>2, <2>2 DEF AcquireFileLock
    <3>3. FileInv'
      BY <3>1, <3>2
    <3>4. LeaseInv'
      <4>1. \A v \in Worker, m \in Name :
               /\ Holding(v, m)' <=> Holding(v, m)
               /\ phase'[v][m] = "relock" <=> phase[v][m] = "relock"
        BY <3>1, <3>2
      <4> QED
        BY <3>2, <4>1
    <3> QED
      BY <3>3, <3>4
  <2> QED
    BY <2>1, <2>2
<1>3. CASE AcquireLease(w, n)
  BY <1>3, AcquireLockIInv DEF AcquireLease
<1>4. CASE ClearLock(w, n)
  BY <1>4 DEF ClearLock
<1>5. CASE AcquireLeaseAgain(w, n)
  BY <1>5, AcquireLockIInv DEF AcquireLeaseAgain
<1>6. CASE RepositoryFails(w, n)
  BY <1>6 DEF RepositoryFails
<1> QED
  BY <1>1, <1>2, <1>3, <1>4, <1>5, <1>6 DEF Enter

\* One step of the release.
LEMMA LeaveIInv ==
  ASSUME IInv, TypeOK', NEW w \in Worker, NEW n \in Name, Leave(w, n)
  PROVE  IInv'
<1> USE ConstantsAssumption
<1> USE DEF IInv, TypeOK, FileInv, WithFile, LeaseInv, LeaseIsTheHolders,
            RecoverySucceeds, Holding, Goto
<1>1. CASE LeaveBody(w, n)
  BY <1>1 DEF LeaveBody
<1>2. CASE ReleaseLock(w, n)
  BY <1>2 DEF ReleaseLock
<1>3. CASE ReleaseLockFails(w, n)
  BY <1>3 DEF ReleaseLockFails
<1>4. CASE ReleaseFileLock(w, n)
  BY <1>4 DEF ReleaseFileLock
<1>5. CASE ReleaseProcessLock(w, n)
  BY <1>5 DEF ReleaseProcessLock
<1> QED
  BY <1>1, <1>2, <1>3, <1>4, <1>5 DEF Leave

\* The death of a process, between any two steps.
LEMMA CrashIInv ==
  ASSUME IInv, TypeOK', NEW p \in Process, Crash(p)
  PROVE  IInv'
  BY ConstantsAssumption
     DEF IInv, TypeOK, FileInv, WithFile, LeaseInv, LeaseIsTheHolders,
         RecoverySucceeds, Holding, Crash, WorkersOf

LEMMA StepIInv == IInv /\ TypeOK' /\ [Next]_vars => IInv'
<1> SUFFICES ASSUME IInv, TypeOK', [Next]_vars
             PROVE  IInv'
  OBVIOUS
<1>1. ASSUME NEW n \in Name, Expire(n)
      PROVE  IInv'
  BY <1>1 DEF Expire, IInv, TypeOK, FileInv, LeaseInv, LeaseIsTheHolders,
              RecoverySucceeds, Holding
<1>2. CASE UNCHANGED vars
  BY <1>2 DEF vars, IInv, TypeOK, FileInv, LeaseInv, LeaseIsTheHolders,
              RecoverySucceeds, Holding
<1> QED
  BY <1>1, <1>2, EnterIInv, LeaveIInv, CrashIInv DEF Next

\* The strengthened invariant holds in every reachable state.
THEOREM Invariance == Spec => []IInv
<1>1. Init => IInv
  BY InitIInv
<1>2. IInv /\ TypeOK' /\ [Next]_vars => IInv'
  BY StepIInv
<1> QED
  BY <1>1, <1>2, TypeCorrect, PTL DEF Spec

\* Two workers are never inside the same section, however many threads,
\* processes, crashes and expired leases there are (scheduler/locks.py:30-64).
THEOREM Exclusive == Spec => []MutualExclusion
<1>1. IInv => MutualExclusion
  BY DEF IInv, FileInv, WithFile, MutualExclusion, Holding
<1> QED
  BY <1>1, Invariance, PTL

\* The second acquire_lock after clear_lock always finds the row gone, so the
\* refusal at locks.py:56-57 can never be taken.
THEOREM RecoveryAlwaysSucceeds == Spec => []RecoverySucceeds
<1>1. IInv => RecoverySucceeds
  BY DEF IInv, LeaseInv
<1> QED
  BY <1>1, Invariance, PTL

\* The row of a section somebody is inside is his, or it expired and another
\* acquisition purged it (scheduler/locks.py:44-64).
THEOREM LeaseFollowsHolder == Spec => []LeaseIsTheHolders
<1>1. IInv => LeaseIsTheHolders
  BY DEF IInv, LeaseInv
<1> QED
  BY <1>1, Invariance, PTL

\* A threading.Lock stays taken without a worker only where release_lock raised
\* (scheduler/locks.py:61-64): no other path through acquire leaks it.
THEOREM LeaksComeFromFailedRelease == Spec => []OnlyFailedReleaseLeaks
<1>1. Init => OnlyFailedReleaseLeaks
  BY DEF Init, OnlyFailedReleaseLeaks
<1>2. TypeOK /\ OnlyFailedReleaseLeaks /\ [Next]_vars => OnlyFailedReleaseLeaks'
  <2> SUFFICES ASSUME TypeOK, OnlyFailedReleaseLeaks, [Next]_vars,
                      NEW p \in Process, NEW m \in Name,
                      <<p, m>> \in processLocked', <<p, m>> \notin leaked'
               PROVE  \E v \in Worker : ProcessOf[v] = p /\ phase'[v][m] # "idle"
    BY DEF OnlyFailedReleaseLeaks, WorkersOf
  <2> DEFINE Busy == \E v \in Worker : ProcessOf[v] = p /\ phase[v][m] # "idle"
  <2>0. <<p, m>> \in processLocked /\ <<p, m>> \notin leaked => Busy
    BY DEF OnlyFailedReleaseLeaks, WorkersOf
  <2>1. ASSUME NEW w \in Worker, NEW n \in Name, NEW q, Goto(w, n, q),
               q # "idle", <<p, m>> \in processLocked \/ (ProcessOf[w] = p /\ n = m),
               <<p, m>> \notin leaked
        PROVE  \E v \in Worker : ProcessOf[v] = p /\ phase'[v][m] # "idle"
    <3>1. \A v \in Worker : phase'[v][m] = IF v = w /\ m = n THEN q ELSE phase[v][m]
      BY <2>1, GotoAt
    <3>2. CASE ProcessOf[w] = p /\ n = m
      BY <2>1, <3>1, <3>2
    <3>3. CASE <<p, m>> \in processLocked
      BY <2>0, <2>1, <3>1, <3>3
    <3> QED
      BY <2>1, <3>2, <3>3
  <2>2. ASSUME NEW w \in Worker, NEW n \in Name, Enter(w, n)
        PROVE  \E v \in Worker : ProcessOf[v] = p /\ phase'[v][m] # "idle"
    <3>1. CASE AcquireProcessLock(w, n)
      BY <2>1, <3>1 DEF AcquireProcessLock
    <3>2. CASE AcquireFileLock(w, n)
      BY <2>1, <3>2 DEF AcquireFileLock
    <3>3. CASE AcquireLease(w, n)
      BY <2>1, <3>3 DEF AcquireLease, AcquireLock
    <3>4. CASE ClearLock(w, n)
      BY <2>1, <3>4 DEF ClearLock
    <3>5. CASE AcquireLeaseAgain(w, n)
      BY <2>1, <3>5 DEF AcquireLeaseAgain, AcquireLock
    <3>6. CASE RepositoryFails(w, n)
      BY <2>1, <3>6 DEF RepositoryFails
    <3> QED
      BY <2>2, <3>1, <3>2, <3>3, <3>4, <3>5, <3>6 DEF Enter
  <2>3. ASSUME NEW w \in Worker, NEW n \in Name, Leave(w, n)
        PROVE  \E v \in Worker : ProcessOf[v] = p /\ phase'[v][m] # "idle"
    <3>1. CASE LeaveBody(w, n)
      BY <2>1, <3>1 DEF LeaveBody
    <3>2. CASE ReleaseLock(w, n)
      BY <2>1, <3>2 DEF ReleaseLock
    <3>3. CASE ReleaseFileLock(w, n)
      BY <2>1, <3>3 DEF ReleaseFileLock
    <3>4. CASE ReleaseLockFails(w, n)
      \* The leaked pair is excused, and every other pair keeps its workers.
      <4>1. ~(ProcessOf[w] = p /\ n = m) /\ Busy
        BY <2>0, <3>4 DEF ReleaseLockFails
      <4>2. \A v \in Worker : phase'[v][m] = IF v = w /\ m = n THEN "idle" ELSE phase[v][m]
        BY <3>4, GotoAt DEF ReleaseLockFails
      <4> QED
        BY <4>1, <4>2
    <3>5. CASE ReleaseProcessLock(w, n)
      <4>1. ~(ProcessOf[w] = p /\ n = m) /\ Busy
        BY <2>0, <3>5 DEF ReleaseProcessLock
      <4>2. \A v \in Worker : phase'[v][m] = IF v = w /\ m = n THEN "idle" ELSE phase[v][m]
        BY <3>5, GotoAt DEF ReleaseProcessLock
      <4> QED
        BY <4>1, <4>2
    <3> QED
      BY <2>3, <3>1, <3>2, <3>3, <3>4, <3>5 DEF Leave
  <2>4. ASSUME NEW n \in Name, Expire(n)
        PROVE  \E v \in Worker : ProcessOf[v] = p /\ phase'[v][m] # "idle"
    BY <2>0, <2>4 DEF Expire
  <2>5. ASSUME NEW q \in Process, Crash(q)
        PROVE  \E v \in Worker : ProcessOf[v] = p /\ phase'[v][m] # "idle"
    <3>1. p # q /\ Busy
      BY <2>0, <2>5 DEF Crash
    <3> QED
      BY <2>5, <3>1 DEF Crash, WorkersOf
  <2>6. CASE UNCHANGED vars
    BY <2>0, <2>6 DEF vars
  <2> QED
    BY <2>2, <2>3, <2>4, <2>5, <2>6 DEF Next
<1> QED
  BY <1>1, <1>2, TypeCorrect, PTL DEF Spec

\* clear_lock never takes the row of a worker that is inside its section
\* (the claim of locks.py:46-48).
THEOREM RecoveryIsSafe == Spec => LeaseSurvivesRecovery
<1> USE ConstantsAssumption
<1>1. IInv /\ [Next]_vars => [\A n \in Name : ~LiveLeaseTaken(n)]_vars
  <2> SUFFICES ASSUME IInv, Next, NEW m \in Name, LiveLeaseTaken(m)
               PROVE  FALSE
    BY DEF vars, LiveLeaseTaken
  <2> USE DEF IInv, TypeOK, FileInv, WithFile, LeaseInv, Holding, LiveLeaseTaken, Goto
  <2>1. ASSUME NEW w \in Worker, NEW n \in Name, Enter(w, n)
        PROVE  FALSE
    <3>1. CASE AcquireProcessLock(w, n) \/ AcquireFileLock(w, n) \/ RepositoryFails(w, n)
      BY <3>1 DEF AcquireProcessLock, AcquireFileLock, RepositoryFails
    <3>2. CASE AcquireLease(w, n) \/ AcquireLeaseAgain(w, n)
      <4>1. AcquireLock(w, n, "clear") \/ AcquireLock(w, n, "unfile")
        BY <3>2 DEF AcquireLease, AcquireLeaseAgain
      <4>2. \A k \in Name : k \notin expired /\ lease[k] # None => lease'[k] = lease[k]
        <5>1. /\ AfterPurge \in [Name -> Worker \cup {None, Orphan}]
              /\ \A k \in Name : k \notin expired => AfterPurge[k] = lease[k]
          BY DEF AfterPurge
        <5>2. \/ lease' = AfterPurge
              \/ AfterPurge[n] = None /\ lease' = [AfterPurge EXCEPT ![n] = w]
          BY <4>1 DEF AcquireLock
        <5> QED
          BY <5>1, <5>2
      <4> QED
        BY <4>2
    <3>3. CASE ClearLock(w, n)
      BY <3>3 DEF ClearLock
    <3> QED
      BY <2>1, <3>1, <3>2, <3>3 DEF Enter
  <2>2. ASSUME NEW w \in Worker, NEW n \in Name, Leave(w, n)
        PROVE  FALSE
    BY <2>2 DEF Leave, LeaveBody, ReleaseLock, ReleaseLockFails, ReleaseFileLock,
                ReleaseProcessLock
  <2>3. ASSUME NEW n \in Name, Expire(n)
        PROVE  FALSE
    BY <2>3 DEF Expire
  <2>4. ASSUME NEW p \in Process, Crash(p)
        PROVE  FALSE
    BY <2>4 DEF Crash, WorkersOf
  <2> QED
    BY <2>1, <2>2, <2>3, <2>4 DEF Next
<1> QED
  BY <1>1, Invariance, PTL DEF Spec, LeaseSurvivesRecovery

(***************************************************************************)
(* Refinement.                                                             *)
(***************************************************************************)

HolderFacts ==
    \A n \in Name :
        /\ \A w \in Worker : Holding(w, n) <=> HolderOf(n) = w
        /\ HolderOf(n) \in Worker \cup {None}

\* HolderOf names the one worker inside, and None when nobody is.
LEMMA HolderOfIs == IInv => HolderFacts
<1> SUFFICES ASSUME IInv, NEW n \in Name
             PROVE  /\ \A w \in Worker : Holding(w, n) <=> HolderOf(n) = w
                    /\ HolderOf(n) \in Worker \cup {None}
  BY DEF HolderFacts
<1>1. \A v, w \in Worker : Holding(v, n) /\ Holding(w, n) => v = w
  BY DEF IInv, FileInv, WithFile, Holding
<1>2. CASE \E w \in Worker : Holding(w, n)
  BY <1>1, <1>2 DEF HolderOf
<1>3. CASE ~ \E w \in Worker : Holding(w, n)
  BY <1>3, ConstantsAssumption DEF HolderOf
<1> QED
  BY <1>2, <1>3

\* The same in the state a step leads to.
LEMMA HolderOfIsNext == IInv' => HolderFacts'
  BY HolderOfIs, PTL

\* A step that changes nobody's being inside changes no holder.
LEMMA SameHolder ==
  ASSUME IInv, IInv', NEW n \in Name,
         \A w \in Worker : Holding(w, n)' <=> Holding(w, n)
  PROVE  HolderOf(n)' = HolderOf(n)
<1>1. /\ \A w \in Worker : Holding(w, n) <=> HolderOf(n) = w
      /\ HolderOf(n) \in Worker \cup {None}
  BY HolderOfIs DEF HolderFacts
<1>2. /\ \A w \in Worker : Holding(w, n)' <=> HolderOf(n)' = w
      /\ HolderOf(n)' \in Worker \cup {None}
  BY HolderOfIsNext DEF HolderFacts
<1> QED
  BY <1>1, <1>2

\* Entering: nothing happens to any holder, or a free name is taken.
LEMMA EnterRefines ==
  ASSUME IInv, IInv', NEW w \in Worker, NEW n \in Name, Enter(w, n)
  PROVE  \/ \A m \in Name : HolderOf(m)' = HolderOf(m)
         \/ /\ HolderOf(n) = None /\ HolderOf(n)' = w
            /\ \A m \in Name \ {n} : HolderOf(m)' = HolderOf(m)
<1> USE ConstantsAssumption
<1>1. TypeOK /\ FileInv
  BY DEF IInv
<1> DEFINE At(p) == \A v \in Worker, m \in Name :
                       phase'[v][m] = IF v = w /\ m = n THEN p ELSE phase[v][m]
<1>2. CASE \E p \in Phase \ {"held", "unlease"} : At(p) /\ ~ Holding(w, n)
  <2>1. \A v \in Worker, m \in Name : Holding(v, m)' <=> Holding(v, m)
    BY <1>2 DEF Holding
  <2> QED
    BY <2>1, SameHolder
<1>3. CASE At("held") /\ phase[w][n] \in {"lease", "relock"}
  <2>1. \A v \in Worker, m \in Name \ {n} : Holding(v, m)' <=> Holding(v, m)
    BY <1>3 DEF Holding
  <2>2. \A v \in Worker : ~ Holding(v, n)
    BY <1>1, <1>3 DEF Holding, FileInv, WithFile
  <2>3. HolderOf(n) = None
    BY <2>2, HolderOfIs DEF HolderFacts
  <2>4. Holding(w, n)'
    BY <1>3 DEF Holding
  <2>5. HolderOf(n)' = w
    BY <2>4, HolderOfIsNext DEF HolderFacts
  <2>6. \A m \in Name \ {n} : HolderOf(m)' = HolderOf(m)
    BY <2>1, SameHolder
  <2> QED
    BY <2>3, <2>5, <2>6
<1>4. \/ \E p \in Phase \ {"held", "unlease"} : At(p) /\ ~ Holding(w, n)
      \/ At("held") /\ phase[w][n] \in {"lease", "relock"}
  <2> USE DEF Phase, Acquiring, Releasing, Holding
  <2>1. \A p : Goto(w, n, p) => At(p)
    BY <1>1, GotoAt
  <2> HIDE DEF At
  <2>2. CASE AcquireProcessLock(w, n)
    BY <2>1, <2>2 DEF AcquireProcessLock
  <2>3. CASE AcquireFileLock(w, n)
    BY <2>1, <2>3 DEF AcquireFileLock
  <2>4. CASE AcquireLease(w, n)
    BY <2>1, <2>4 DEF AcquireLease, AcquireLock
  <2>5. CASE ClearLock(w, n)
    BY <2>1, <2>5 DEF ClearLock
  <2>6. CASE AcquireLeaseAgain(w, n)
    BY <2>1, <2>6 DEF AcquireLeaseAgain, AcquireLock
  <2>7. CASE RepositoryFails(w, n)
    BY <2>1, <2>7 DEF RepositoryFails
  <2> QED
    BY <2>2, <2>3, <2>4, <2>5, <2>6, <2>7 DEF Enter
<1> QED
  BY <1>2, <1>3, <1>4

\* Leaving, and the death of a process: holders keep their names or lose them.
LEMMA LeaveRefines ==
  ASSUME IInv, IInv',
         \/ \E w \in Worker, n \in Name : Leave(w, n)
         \/ \E p \in Process : Crash(p),
         NEW m \in Name
  PROVE  HolderOf(m)' \in {HolderOf(m), None}
<1> USE ConstantsAssumption
<1>1. TypeOK
  BY DEF IInv
<1>2. \A v \in Worker : Holding(v, m)' => Holding(v, m)
  <2>1. ASSUME NEW w \in Worker, NEW n \in Name, Leave(w, n)
        PROVE  \A v \in Worker : Holding(v, m)' => Holding(v, m)
    BY <1>1, <2>1 DEF Leave, LeaveBody, ReleaseLock, ReleaseLockFails, ReleaseFileLock,
                      ReleaseProcessLock, Goto, Holding, TypeOK
  <2>2. ASSUME NEW p \in Process, Crash(p)
        PROVE  \A v \in Worker : Holding(v, m)' => Holding(v, m)
    BY <2>2 DEF Crash, WorkersOf, Holding
  <2> QED
    BY <2>1, <2>2
<1>3. HolderOf(m)' \in Worker \cup {None}
  BY HolderOfIsNext DEF HolderFacts
<1>4. \A v \in Worker : HolderOf(m)' = v => HolderOf(m) = v
  BY <1>2, HolderOfIs, HolderOfIsNext DEF HolderFacts
<1> QED
  BY <1>3, <1>4

\* Every step of the coordinator is a step of Exclusion or leaves it unchanged.
LEMMA StepRefines ==
  IInv /\ IInv' /\ [Next]_vars
     => [Abstract!ExclusionNext]_([n \in Name |-> HolderOf(n)])
<1> SUFFICES ASSUME IInv, IInv', [Next]_vars
             PROVE  \/ Abstract!ExclusionNext
                    \/ [n \in Name |-> HolderOf(n)]' = [n \in Name |-> HolderOf(n)]
  OBVIOUS
<1> USE DEF Abstract!ExclusionNext, Abstract!Take, Abstract!Give
<1>1. ASSUME NEW w \in Worker, NEW n \in Name, Enter(w, n)
      PROVE  \/ Abstract!Take(w, n)
             \/ [m \in Name |-> HolderOf(m)]' = [m \in Name |-> HolderOf(m)]
  BY <1>1, EnterRefines
<1>2. ASSUME \/ \E w \in Worker, n \in Name : Leave(w, n)
             \/ \E p \in Process : Crash(p)
      PROVE  \E S \in SUBSET Name : Abstract!Give(S)
  <2> DEFINE S == {n \in Name : HolderOf(n) # None /\ HolderOf(n)' = None}
  <2>1. \A n \in Name : HolderOf(n)' \in {HolderOf(n), None}
    BY <1>2, LeaveRefines
  <2>2. Abstract!Give(S)
    BY <2>1
  <2> QED
    BY <2>2
<1>3. ASSUME \/ \E n \in Name : Expire(n)
             \/ UNCHANGED vars
      PROVE  [n \in Name |-> HolderOf(n)]' = [n \in Name |-> HolderOf(n)]
  <2>1. phase' = phase
    BY <1>3 DEF Expire, vars
  <2>2. \A w \in Worker, n \in Name : Holding(w, n)' <=> Holding(w, n)
    BY <2>1 DEF Holding
  <2> QED
    BY <2>2, SameHolder
<1> QED
  BY <1>1, <1>2, <1>3 DEF Next

\* The coordinator implements the abstract lock: a name is only ever given to a
\* worker when it has no holder, and lost by leaving or by dying.
THEOREM Refinement == Spec => ImplementsExclusion
<1>1. Init => Abstract!ExclusionInit
  BY DEF Init, Abstract!ExclusionInit, HolderOf, Holding
<1>2. IInv /\ IInv' /\ [Next]_vars
        => [Abstract!ExclusionNext]_([n \in Name |-> HolderOf(n)])
  BY StepRefines
<1> QED
  BY <1>1, <1>2, Invariance, PTL DEF Spec, ImplementsExclusion, Abstract!ExclusionSpec
=============================================================================

--------------------------- MODULE LockCoordinator ---------------------------
(***************************************************************************)
(* LockCoordinator.acquire (scheduler/locks.py) over the SQLite table      *)
(* `locks' (database/repository.py).  A worker is a thread of some         *)
(* process: the daemon's scheduler threads, or one `icloudharbor setup'.   *)
(* The context manager takes three locks in turn, never waiting: a         *)
(* threading.Lock of the process, an OS file lock, and a leased row of the *)
(* database; it gives them back in the opposite order.                     *)
(*                                                                         *)
(* Every step below is one call that other threads and processes can       *)
(* interleave with.  A process may die at any step: the OS drops its file  *)
(* locks and its memory, while its database rows stay behind.              *)
(***************************************************************************)
CONSTANTS
    Worker,      \* threads that use the coordinator
    Process,     \* processes they run in
    ProcessOf,   \* [Worker -> Process]
    Name,        \* lock names: account-operation:<id> and sync:<id>
    Outer,       \* [Name -> Name \cup {None}], the name held around another
    None,        \* no worker
    Orphan       \* owner of a row whose acquisition is over; no live uuid is it

ASSUME ConstantsAssumption ==
    /\ ProcessOf \in [Worker -> Process]
    /\ Outer \in [Name -> Name \cup {None}]
    /\ None \notin Worker \cup Name
    /\ Orphan \notin Worker \cup {None}

VARIABLES
    phase,         \* phase[w][n]: how far w is with the lock n
    processLocked, \* the <<process, name>> whose threading.Lock is taken
    fileHolder,    \* fileHolder[n]: the worker with the OS file lock of n
    lease,         \* lease[n]: the owner in the row of n, or None
    expired,       \* names whose row has expires_at in the past
    leaked         \* process locks that an exception left taken

vars == <<phase, processLocked, fileHolder, lease, expired, leaked>>

(***************************************************************************)
(* "file", "lease", "clear" and "relock" are the calls of the acquisition  *)
(* still to be made, "held" is the body of the with statement, and         *)
(* "unlease", "unfile" and "unprocess" are the calls of the finally block. *)
(***************************************************************************)
Acquiring == {"file", "lease", "clear", "relock"}
Releasing == {"unlease", "unfile", "unprocess"}
Phase == {"idle", "held"} \cup Acquiring \cup Releasing

TypeOK ==
    /\ phase \in [Worker -> [Name -> Phase]]
    /\ processLocked \subseteq Process \X Name
    /\ fileHolder \in [Name -> Worker \cup {None}]
    /\ lease \in [Name -> Worker \cup {None, Orphan}]
    /\ expired \subseteq Name
    /\ leaked \subseteq Process \X Name

Init ==
    /\ phase = [w \in Worker |-> [n \in Name |-> "idle"]]
    /\ processLocked = {}
    /\ fileHolder = [n \in Name |-> None]
    /\ lease = [n \in Name |-> None]
    /\ expired = {}
    /\ leaked = {}

Goto(w, n, p) == phase' = [phase EXCEPT ![w][n] = p]

\* A worker is one thread: it works on n only while it is not in the middle of
\* another acquisition or release.
Free(w, n) == \A m \in Name \ {n} : phase[w][m] \in {"idle", "held"}

InsideOuter(w, n) == Outer[n] # None => phase[w][Outer[n]] = "held"

NoInner(w, n) == \A m \in Name : Outer[m] = n => phase[w][m] = "idle"

(***************************************************************************)
(* Entering.                                                               *)
(***************************************************************************)

\* A refusal here (the lock is taken) raises ALREADY_RUNNING and changes nothing.
AcquireProcessLock(w, n) ==
    /\ phase[w][n] = "idle"
    /\ Free(w, n) /\ InsideOuter(w, n)
    /\ <<ProcessOf[w], n>> \notin processLocked
    /\ processLocked' = processLocked \cup {<<ProcessOf[w], n>>}
    /\ Goto(w, n, "file")
    /\ UNCHANGED <<fileHolder, lease, expired, leaked>>

\* Mutant of AcquireFileLock: the Timeout is ignored.
AcquireFileLockIgnoringTimeout(w, n) ==
    /\ phase[w][n] = "file"
    /\ fileHolder' = [fileHolder EXCEPT ![n] = w]
    /\ Goto(w, n, "lease")
    /\ UNCHANGED <<processLocked, lease, expired, leaked>>

AcquireFileLock(w, n) ==
    /\ phase[w][n] = "file"
    /\ IF fileHolder[n] = None
       THEN /\ fileHolder' = [fileHolder EXCEPT ![n] = w]
            /\ Goto(w, n, "lease")
       ELSE /\ Goto(w, n, "unprocess")       \* Timeout: ALREADY_RUNNING
            /\ UNCHANGED fileHolder
    /\ UNCHANGED <<processLocked, lease, expired, leaked>>

\* repository.acquire_lock, one transaction: every expired row goes, whatever its
\* name; then the row of n is inserted unless there is one.
AfterPurge == [m \in Name |-> IF m \in expired THEN None ELSE lease[m]]

\* Mutant of AcquireLock: the lock's name is stored as its owner.
AcquireLockSwapped(w, n, refusedPhase) ==
    /\ IF AfterPurge[n] = None
       THEN /\ lease' = [AfterPurge EXCEPT ![n] = n]
            /\ Goto(w, n, "held")
       ELSE /\ lease' = AfterPurge
            /\ Goto(w, n, refusedPhase)
    /\ expired' = {}
    /\ UNCHANGED <<processLocked, fileHolder, leaked>>

AcquireLock(w, n, refusedPhase) ==
    /\ IF AfterPurge[n] = None
       THEN /\ lease' = [AfterPurge EXCEPT ![n] = w]
            /\ Goto(w, n, "held")
       ELSE /\ lease' = AfterPurge
            /\ Goto(w, n, refusedPhase)
    /\ expired' = {}
    /\ UNCHANGED <<processLocked, fileHolder, leaked>>

AcquireLease(w, n) == phase[w][n] = "lease" /\ AcquireLock(w, n, "clear")

\* Mutant of ClearLock: DELETE ... WHERE name AND owner, as release_lock does.
ClearLockByOwner(w, n) ==
    /\ phase[w][n] = "clear"
    /\ lease' = [lease EXCEPT ![n] = IF @ = w THEN None ELSE @]
    /\ expired' = IF lease[n] = w THEN expired \ {n} ELSE expired
    /\ Goto(w, n, "relock")
    /\ UNCHANGED <<processLocked, fileHolder, leaked>>

ClearLock(w, n) ==
    /\ phase[w][n] = "clear"
    /\ lease' = [lease EXCEPT ![n] = None]
    /\ expired' = expired \ {n}
    /\ Goto(w, n, "relock")
    /\ UNCHANGED <<processLocked, fileHolder, leaked>>

AcquireLeaseAgain(w, n) == phase[w][n] = "relock" /\ AcquireLock(w, n, "unfile")

\* Mutant of RepositoryFails: no finally around the repository calls.
RepositoryFailsUncaught(w, n) ==
    /\ phase[w][n] \in {"lease", "clear", "relock"}
    /\ Goto(w, n, "idle")
    /\ UNCHANGED <<processLocked, fileHolder, lease, expired, leaked>>

\* Any of the three repository calls raises: the finally block runs without a lease.
RepositoryFails(w, n) ==
    /\ phase[w][n] \in {"lease", "clear", "relock"}
    /\ Goto(w, n, "unfile")
    /\ UNCHANGED <<processLocked, fileHolder, lease, expired, leaked>>

(***************************************************************************)
(* Leaving.                                                                *)
(***************************************************************************)
LeaveBody(w, n) ==
    /\ phase[w][n] = "held"
    /\ Free(w, n) /\ NoInner(w, n)
    /\ Goto(w, n, "unlease")
    /\ UNCHANGED <<processLocked, fileHolder, lease, expired, leaked>>

ReleaseLock(w, n) ==
    /\ phase[w][n] = "unlease"
    /\ lease' = [lease EXCEPT ![n] = IF @ = w THEN None ELSE @]
    /\ expired' = IF lease[n] = w THEN expired \ {n} ELSE expired
    /\ Goto(w, n, "unfile")
    /\ UNCHANGED <<processLocked, fileHolder, leaked>>

\* release_lock raises: the rest of the finally block is skipped.  The FileLock
\* object is dropped and releases the OS lock; the threading.Lock stays taken.
ReleaseLockFails(w, n) ==
    /\ phase[w][n] = "unlease"
    /\ fileHolder' = [fileHolder EXCEPT ![n] = None]
    /\ lease' = [lease EXCEPT ![n] = IF @ = w THEN Orphan ELSE @]
    /\ leaked' = leaked \cup {<<ProcessOf[w], n>>}
    /\ Goto(w, n, "idle")
    /\ UNCHANGED <<processLocked, expired>>

ReleaseFileLock(w, n) ==
    /\ phase[w][n] = "unfile"
    /\ fileHolder' = [fileHolder EXCEPT ![n] = None]
    /\ Goto(w, n, "unprocess")
    /\ UNCHANGED <<processLocked, lease, expired, leaked>>

ReleaseProcessLock(w, n) ==
    /\ phase[w][n] = "unprocess"
    /\ processLocked' = processLocked \ {<<ProcessOf[w], n>>}
    /\ Goto(w, n, "idle")
    /\ UNCHANGED <<fileHolder, lease, expired, leaked>>

(***************************************************************************)
(* The environment: time passes a row's expires_at (the lease is twelve    *)
(* hours and a first synchronization can take longer), a process dies.     *)
(***************************************************************************)
Expire(n) ==
    /\ lease[n] # None /\ n \notin expired
    /\ expired' = expired \cup {n}
    /\ UNCHANGED <<phase, processLocked, fileHolder, lease, leaked>>

WorkersOf(p) == {w \in Worker : ProcessOf[w] = p}

Crash(p) ==
    /\ phase' = [w \in Worker |->
                    IF w \in WorkersOf(p) THEN [n \in Name |-> "idle"] ELSE phase[w]]
    /\ processLocked' = processLocked \ ({p} \X Name)
    /\ leaked' = leaked \ ({p} \X Name)
    /\ fileHolder' = [n \in Name |->
                        IF fileHolder[n] \in WorkersOf(p) THEN None ELSE fileHolder[n]]
    /\ lease' = [n \in Name |-> IF lease[n] \in WorkersOf(p) THEN Orphan ELSE lease[n]]
    /\ UNCHANGED expired

Enter(w, n) ==
    \/ AcquireProcessLock(w, n) \/ AcquireFileLock(w, n)
    \/ AcquireLease(w, n) \/ ClearLock(w, n) \/ AcquireLeaseAgain(w, n)
    \/ RepositoryFails(w, n)

Leave(w, n) ==
    \/ LeaveBody(w, n) \/ ReleaseLock(w, n) \/ ReleaseLockFails(w, n)
    \/ ReleaseFileLock(w, n) \/ ReleaseProcessLock(w, n)

Next ==
    \/ \E w \in Worker, n \in Name : Enter(w, n) \/ Leave(w, n)
    \/ \E n \in Name : Expire(n)
    \/ \E p \in Process : Crash(p)

Spec == Init /\ [][Next]_vars

(***************************************************************************)
(* Properties.                                                             *)
(***************************************************************************)

Holding(w, n) == phase[w][n] \in {"held", "unlease"}

\* Two workers, of one process or of two, are never inside the same section:
\* not after a crash, not after a lease ran out under its holder.
MutualExclusion ==
    \A n \in Name, w1, w2 \in Worker : Holding(w1, n) /\ Holding(w2, n) => w1 = w2

\* Recovering a lease never fails (locks.py:56 is unreachable): the worker that
\* cleared the row finds no row when it inserts its own.
RecoverySucceeds ==
    \A w \in Worker, n \in Name : phase[w][n] = "relock" => lease[n] = None

\* The row of a section somebody is inside is his, or it expired and was purged.
LeaseIsTheHolders ==
    \A w \in Worker, n \in Name : Holding(w, n) => lease[n] \in {w, None}

\* The claim of locks.py:46-48: clearing the row of a name never takes a lease
\* away from a live worker; only its expiry does that.
LiveLeaseTaken(n) ==
    /\ lease[n] \in Worker /\ lease'[n] # lease[n]
    /\ n \notin expired
    /\ phase'[lease[n]][n] \in {"held", "unlease"}
LeaseSurvivesRecovery == [][\A n \in Name : ~LiveLeaseTaken(n)]_vars

\* A threading.Lock that is taken belongs to a worker that is still entering,
\* inside or leaving, except where release_lock raised (locks.py:61).
OnlyFailedReleaseLeaks ==
    \A p \in Process, n \in Name :
        <<p, n>> \in processLocked =>
            \/ <<p, n>> \in leaked
            \/ \E w \in WorkersOf(p) : phase[w][n] # "idle"

(***************************************************************************)
(* The coordinator implements Exclusion.                                   *)
(***************************************************************************)
HolderOf(n) ==
    IF \E w \in Worker : Holding(w, n)
    THEN CHOOSE w \in Worker : Holding(w, n)
    ELSE None

Abstract == INSTANCE Exclusion WITH holder <- [n \in Name |-> HolderOf(n)]

\* Refinement: no worker enters a section that another one is inside.
ImplementsExclusion == Abstract!ExclusionSpec
=============================================================================

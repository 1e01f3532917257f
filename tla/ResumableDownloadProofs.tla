----------------------- MODULE ResumableDownloadProofs -----------------------
(***************************************************************************)
(* Proofs about ResumableDownload, for any editions, sizes, retry limit    *)
(* and number of faults.  Two arguments: the formal path only ever         *)
(* receives what verify_metadata accepted and record_download committed    *)
(* (PlacedInv), and a .part file only ever receives bytes of editions that *)
(* its name stands for, unless a refreshed URL serves another (PureInv).   *)
(***************************************************************************)
EXTENDS ResumableDownload, SequenceTheorems, TLAPS

LEMMA ContentType ==
  ASSUME NEW e \in Edition
  PROVE  /\ Content(e) \in Seq({e} \X Nat)
         /\ Len(Content(e)) = Size[e]
         /\ Size[e] \in Nat \ {0}
<1>1. Size[e] \in Nat \ {0}
  BY ConstantsAssumption
<1>2. \A i \in 1..Size[e] : <<e, i>> \in {e} \X Nat
  OBVIOUS
<1> QED
  BY <1>1, <1>2 DEF Content

\* A part of a sequence has the bytes of the whole.
LEMMA SubSeqType ==
  ASSUME NEW S, NEW f \in Seq(S), NEW m \in Nat \ {0}, NEW n \in 0..Len(f)
  PROVE  SubSeq(f, m, n) \in Seq(S)
<1>1. \A i \in m..n : f[i] \in S
  BY ElementOfSeq
<1> QED
  BY <1>1, SubSeqProperties

LEMMA NoFileIsNoSequence == NoFile \notin Seq(Byte)
  BY ConstantsAssumption DEF Byte

\* A positive offset is the length of a .part file that exists.
LEMMA OffsetType ==
  ASSUME TypeOK
  PROVE  /\ offset \in Nat
         /\ offset > 0 => partial # NoFile
         /\ partial # NoFile => partial \in Seq(Byte) /\ offset = Len(partial)
<1>1. partial \in File
  BY DEF TypeOK
<1> QED
  BY <1>1 DEF offset, FileLen, File

LEMMA FaultType == TypeOK /\ Fault => faults' \in 0..MaxFaults
  BY BoundsAssumption DEF TypeOK, Fault

\* The retry handler stays within MaxRetries and leaves the transfer.
LEMMA GiveUpOrRetryType ==
  ASSUME TypeOK, NEW r, GiveUpOrRetry(r)
  PROVE  attempt' \in 0..MaxRetries /\ pc' \in {"attempt", "idle"}
  BY BoundsAssumption DEF TypeOK, GiveUpOrRetry

\* The except block drops the .part file or leaves it alone.
LEMMA DropFullPartialEffect ==
  ASSUME TypeOK, DropFullPartial
  PROVE  /\ partial' \in File /\ named' = named /\ durable' \in Nat
         /\ marks' \subseteq {"swapped", "cutOff"}
         /\ partial' # NoFile => partial' = partial /\ marks' = marks
<1>1. CASE "size" \in checks /\ Len(partial) >= Size[task]
  BY <1>1 DEF DropFullPartial, TypeOK, File
<1>2. CASE ~("size" \in checks /\ Len(partial) >= Size[task])
  BY <1>2 DEF DropFullPartial, TypeOK, part
<1> QED
  BY <1>1, <1>2

LEMMA WriteEffect ==
  ASSUME TypeOK, NEW b \in Byte, Write(b)
  PROVE  /\ partial \in Seq(Byte) /\ partial' \in File /\ partial' # NoFile
         /\ stream' \in Seq(Byte)
<1>1. partial \in Seq(Byte) /\ stream \in Seq(Byte) /\ stream # <<>>
  BY DEF TypeOK, File, Write
<1>2. Append(partial, b) \in Seq(Byte) /\ Tail(stream) \in Seq(Byte)
  BY <1>1
<1> QED
  BY <1>1, <1>2, NoFileIsNoSequence DEF Write, File

\* A crash cuts the .part file to a prefix.
LEMMA CrashEffect ==
  ASSUME TypeOK, Crash, NEW S, partial # NoFile => partial \in Seq(S)
  PROVE  /\ partial' # NoFile => partial' \in Seq(S)
         /\ partial' # NoFile => partial # NoFile
         /\ partial' \in File /\ durable' \in Nat
         /\ marks' \subseteq {"swapped", "cutOff"}
         /\ "swapped" \in marks => "swapped" \in marks'
<1>1. CASE partial = NoFile
  BY <1>1 DEF Crash, TypeOK
<1>2. CASE partial # NoFile
  <2>1. PICK n \in 0..Len(partial) : partial' = SubSeq(partial, 1, n) /\ durable' = 0
                                     /\ marks' \in {marks \cup {"cutOff"}, marks \ {"cutOff"}}
    BY <1>2 DEF Crash
  <2>2. partial \in Seq(Byte) /\ partial \in Seq(S)
    BY <1>2 DEF TypeOK, File
  <2>3. SubSeq(partial, 1, n) \in Seq(Byte) /\ SubSeq(partial, 1, n) \in Seq(S)
    BY <2>2, SubSeqType
  <2>4. marks \subseteq {"swapped", "cutOff"}
    BY DEF TypeOK
  <2> QED
    BY <1>2, <2>1, <2>3, <2>4 DEF File
<1> QED
  BY <1>1, <1>2

\* What an edition has is made of bytes.
LEMMA ContentIsBytes ==
  ASSUME NEW e \in Edition
  PROVE  /\ Content(e) \in Seq(Byte)
         /\ Len(Content(e)) = Size[e] /\ Size[e] \in Nat
<1>1. Content(e) \in Seq({e} \X Nat) /\ Len(Content(e)) = Size[e] /\ Size[e] \in Nat
  BY ContentType
<1>2. {e} \X Nat \subseteq Byte
  BY DEF Byte
<1> QED
  BY <1>1, <1>2, SeqMonotonic

LEMMA ResumeType ==
  ASSUME TypeOK, NEW e \in Edition, NEW bytes \in Seq(Byte), offset > 0, Resume(e, bytes),
         faults' \in 0..MaxFaults
  PROVE  TypeOK'
<1>1. partial # NoFile
  BY OffsetType
<1> QED
  BY <1>1 DEF Resume, TypeOK, Step

LEMMA OpenType ==
  ASSUME TypeOK, NEW e \in Edition,
         OpenFromStart(e) \/ OpenRange(e) \/ OpenUnsatisfiable(e),
         faults' \in 0..MaxFaults
  PROVE  TypeOK'
<1>1. CASE OpenFromStart(e)
  <2>1. <<>> \in Seq(Byte)
    OBVIOUS
  <2>2. <<>> \in File /\ <<>> # NoFile
    BY <2>1, NoFileIsNoSequence, Zenon DEF File
  <2> QED
    BY <1>1, <2>2, ContentIsBytes DEF OpenFromStart, TypeOK, Step
<1>2. CASE OpenRange(e)
  <2>1. SubSeq(Content(e), offset + 1, Size[e]) \in Seq(Byte)
    BY <1>2, ContentIsBytes, OffsetType, SubSeqType DEF OpenRange
  <2> QED
    BY <1>2, <2>1, ResumeType DEF OpenRange
<1>3. CASE OpenUnsatisfiable(e)
  BY <1>3, GiveUpOrRetryType DEF OpenUnsatisfiable, part, TypeOK, Step
<1> QED
  BY <1>1, <1>2, <1>3

\* Every value of every variable has its type, in every reachable state.
THEOREM TypeCorrect == Spec => []TypeOK
<1>1. Init => TypeOK
  BY ConstantsAssumption, BoundsAssumption DEF Init, TypeOK, File, Step
<1>2. TypeOK /\ [Next]_vars => TypeOK'
  <2> SUFFICES ASSUME TypeOK, [Next]_vars
               PROVE  TypeOK'
    OBVIOUS
  <2>n. NoFile \in File /\ <<>> \in Seq(Byte)
    BY DEF File
  <2> USE DEF TypeOK, Step, part
  <2>1. CASE Plan
    BY <2>1, BoundsAssumption DEF Plan
  <2>2. CASE Skip
    BY <2>2 DEF Skip, vars
  <2>3. CASE BeginAttempt
    <3>1. /\ partial' \in File /\ durable' \in Nat
          /\ marks' \subseteq {"swapped", "cutOff"}
      <4>1. CASE SameName(named, task)
        BY <2>3, <4>1 DEF BeginAttempt
      <4>2. CASE ~SameName(named, task)
        BY <2>3, <2>n, <4>2 DEF BeginAttempt
      <4> QED
        BY <4>1, <4>2
    <3> QED
      BY <2>3, <3>1 DEF BeginAttempt
  <2>4. CASE OpenPlanned
    BY <2>4, OpenType DEF OpenPlanned
  <2>5. CASE OpenRefreshed
    BY <2>5, FaultType, OpenType DEF OpenRefreshed
  <2>6. CASE OpenIgnoresRange
    BY <2>6, FaultType DEF OpenIgnoresRange, File
  <2>7. CASE OpenIgnoresRangeUnnoticed
    BY <2>7, FaultType, ContentIsBytes, ResumeType DEF OpenIgnoresRangeUnnoticed
  <2>8. CASE OpenFails
    BY <2>8, FaultType, GiveUpOrRetryType DEF OpenFails
  <2>9. ASSUME NEW b \in Byte, Write(b), faults' \in 0..MaxFaults
        PROVE  TypeOK'
    BY <2>9, WriteEffect DEF Write
  <2>10. CASE Receive
    <3>1. stream \in Seq(Byte) /\ stream # <<>>
      BY <2>10 DEF Receive, Write
    <3>2. Head(stream) \in Byte
      BY <3>1
    <3> QED
      BY <2>9, <2>10, <3>2 DEF Receive
  <2>11. CASE ReceiveForeign
    BY <2>9, <2>11, FaultType DEF ReceiveForeign, Byte
  <2>12. CASE StreamBreaks
    BY <2>12, <2>n, FaultType, DropFullPartialEffect, GiveUpOrRetryType DEF StreamBreaks
  <2>13. ASSUME NEW ended, FinishStream(ended), faults' \in 0..MaxFaults
         PROVE  TypeOK'
    <3>1. CASE Verified(partial, task)
      <4>1. Len(partial) \in Nat
        BY <2>13 DEF FinishStream, File
      <4> QED
        BY <2>13, <2>n, <3>1, <4>1 DEF FinishStream
    <3>2. CASE ~Verified(partial, task)
      BY <2>13, <2>n, <3>2, DropFullPartialEffect, GiveUpOrRetryType DEF FinishStream
    <3> QED
      BY <3>1, <3>2
  <2>14. CASE StreamEnds
    BY <2>13, <2>14 DEF StreamEnds
  <2>15. CASE StreamEndsEarly
    BY <2>13, <2>15, FaultType DEF StreamEndsEarly
  <2>16. CASE RecordDownload
    BY <2>16 DEF RecordDownload
  <2>17. CASE RecordFails
    BY <2>17, FaultType DEF RecordFails
  <2>18. CASE Replace
    BY <2>18 DEF Replace, File
  <2>19. CASE ReplaceFails
    BY <2>19, FaultType, GiveUpOrRetryType DEF ReplaceFails
  <2>20. CASE PostProcess
    BY <2>20 DEF PostProcess
  <2>21. CASE PostProcessFails
    BY <2>21, FaultType, GiveUpOrRetryType DEF PostProcessFails
  <2>22. CASE Crash
    <3>1. partial # NoFile => partial \in Seq(Byte)
      BY DEF File
    <3> QED
      BY <2>22, <3>1, FaultType, CrashEffect DEF Crash
  <2>23. CASE RemoteEdit
    BY <2>23, FaultType DEF RemoteEdit
  <2>24. CASE LocalLoss
    BY <2>24, FaultType DEF LocalLoss, File
  <2>25. CASE UNCHANGED vars
    BY <2>25 DEF vars
  <2> QED
    BY <2>1, <2>2, <2>3, <2>4, <2>5, <2>6, <2>7, <2>8, <2>10, <2>11, <2>12, <2>14, <2>15,
       <2>16, <2>17, <2>18, <2>19, <2>20, <2>21, <2>22, <2>23, <2>24, <2>25
       DEF Next, Program, Environment
<1> QED
  BY <1>1, <1>2, PTL DEF Spec

(***************************************************************************)
(* What reaches the formal path.  FormalFileVerified and the row behind    *)
(* the file are not inductive: they need what the two steps before the     *)
(* rename established about the .part file.                                *)
(***************************************************************************)
PlacedInv ==
    /\ pc \in {"record", "replace"} => Verified(partial, task)
    /\ pc = "replace" => row = partial
    /\ FormalFileVerified

\* A step that places nothing and does not lead to the rename changes nothing.
LEMMA PlacesNothing ==
  ASSUME PlacedInv, checks' = checks, target' \in {target, NoFile},
         pc' \notin {"record", "replace"}
  PROVE  PlacedInv'
  BY DEF PlacedInv, FormalFileVerified, Verified

\* Neither does one that leaves the .part file where it is, verified.
LEMMA KeepsPartial ==
  ASSUME PlacedInv, checks' = checks, target' \in {target, NoFile},
         partial' = partial, task' = task, row' = row, pc' = pc
  PROVE  PlacedInv'
  BY DEF PlacedInv, FormalFileVerified, Verified

LEMMA PlacedInvStep ==
  ASSUME TypeOK, PlacedInv, [Next]_vars
  PROVE  PlacedInv'
<1>1. CASE Plan
  BY <1>1, PlacesNothing DEF Plan
<1>2. CASE Skip \/ UNCHANGED vars
  BY <1>2, KeepsPartial DEF Skip, vars, part
<1>3. CASE BeginAttempt
  BY <1>3, PlacesNothing DEF BeginAttempt
<1>4. ASSUME NEW e, OpenFromStart(e) \/ OpenRange(e) \/ OpenUnsatisfiable(e)
      PROVE  PlacedInv'
  BY <1>4, PlacesNothing, GiveUpOrRetryType
     DEF OpenFromStart, OpenRange, OpenUnsatisfiable, Resume, part
<1>5. CASE OpenPlanned \/ OpenRefreshed
  BY <1>4, <1>5 DEF OpenPlanned, OpenRefreshed
<1>6. CASE OpenIgnoresRange \/ OpenIgnoresRangeUnnoticed \/ OpenFails
  BY <1>6, PlacesNothing, GiveUpOrRetryType
     DEF OpenIgnoresRange, OpenIgnoresRangeUnnoticed, OpenFails, Resume
<1>7. CASE Receive \/ ReceiveForeign
  BY <1>7, PlacesNothing DEF Receive, ReceiveForeign, Write
<1>8. CASE StreamBreaks
  BY <1>8, PlacesNothing, GiveUpOrRetryType DEF StreamBreaks
<1>9. ASSUME NEW ended, FinishStream(ended)
      PROVE  PlacedInv'
  <2>1. CASE Verified(partial, task)
    BY <1>9, <2>1 DEF FinishStream, PlacedInv, FormalFileVerified, Verified
  <2>2. CASE ~Verified(partial, task)
    <3>1. GiveUpOrRetry(TRUE)
      BY <1>9, <2>2 DEF FinishStream
    <3> QED
      BY <1>9, <3>1, PlacesNothing, GiveUpOrRetryType DEF FinishStream
  <2> QED
    BY <2>1, <2>2
<1>10. CASE RecordDownload
  BY <1>10 DEF RecordDownload, part, PlacedInv, FormalFileVerified, Verified
<1>11. CASE RecordFails \/ PostProcess
  BY <1>11, PlacesNothing DEF RecordFails, PostProcess
<1>12. CASE Replace
  <2>1. Verified(partial, task) /\ task \in Edition
    BY <1>12 DEF Replace, PlacedInv, TypeOK
  <2>2. FormalFileVerified'
    BY <1>12, <2>1 DEF Replace, FormalFileVerified, Verified
  <2> QED
    BY <1>12, <2>2 DEF Replace, PlacedInv
<1>13. CASE ReplaceFails
  BY <1>13, PlacesNothing, GiveUpOrRetryType DEF ReplaceFails
<1>14. CASE PostProcessFails
  BY <1>14, PlacesNothing, GiveUpOrRetryType DEF PostProcessFails
<1>15. CASE Crash
  BY <1>15, PlacesNothing DEF Crash
<1>16. CASE RemoteEdit
  BY <1>16, KeepsPartial DEF RemoteEdit, part
<1>17. CASE LocalLoss
  BY <1>17, KeepsPartial DEF LocalLoss, part
<1> QED
  BY <1>1, <1>2, <1>3, <1>4, <1>5, <1>6, <1>7, <1>8, <1>9, <1>10, <1>11, <1>12,
     <1>13, <1>14, <1>15, <1>16, <1>17
     DEF Next, Program, Environment, StreamEnds, StreamEndsEarly

LEMMA PlacedInvariance == Spec => []PlacedInv
<1>1. Init => PlacedInv
  BY DEF Init, PlacedInv, FormalFileVerified
<1>2. TypeOK /\ PlacedInv /\ [Next]_vars => PlacedInv'
  BY PlacedInvStep
<1> QED
  BY <1>1, <1>2, TypeCorrect, PTL DEF Spec

\* Whatever breaks, resumptions, retries and crashes came before, the formal file has
\* passed verify_metadata for some edition (manager.py:242-257).
THEOREM FormalFileIsVerified == Spec => []FormalFileVerified
<1>1. PlacedInv => FormalFileVerified
  BY DEF PlacedInv
<1> QED
  BY <1>1, PlacedInvariance, PTL

\* os.replace only ever places the content that record_download committed just before
\* (manager.py:248-264): the row is never behind the file.
THEOREM RowPrecedesFile == Spec => PlacedBytesAreRecorded
<1>1. ASSUME PlacedInv, [Next]_vars, target' # target, target' # NoFile
      PROVE  row = target'
  <2>1. CASE Replace
    BY <1>1, <2>1 DEF Replace, PlacedInv
  <2>2. CASE LocalLoss
    BY <1>1, <2>2 DEF LocalLoss
  <2>3. ~Replace /\ ~LocalLoss => target' = target
    BY <1>1
       DEF Next, vars, Program, Environment, Plan, Skip, BeginAttempt, OpenPlanned, OpenRefreshed,
           OpenFromStart, OpenRange, OpenUnsatisfiable, Resume, Write, Receive, StreamEnds,
           RecordDownload, PostProcess, OpenIgnoresRange, OpenIgnoresRangeUnnoticed, OpenFails,
           ReceiveForeign, StreamBreaks, StreamEndsEarly, FinishStream, RecordFails,
           ReplaceFails, PostProcessFails, Crash, RemoteEdit
  <2> QED
    BY <1>1, <2>1, <2>2, <2>3
<1>2. PlacedInv /\ [Next]_vars
         => (target' # target /\ target' # NoFile => row = target')
  BY <1>1
<1>3. PlacedInv /\ [Next]_vars
         => [target' # target /\ target' # NoFile => row = target']_vars
  BY <1>2
<1> QED
  BY <1>3, PlacedInvariance, PTL DEF Spec, PlacedBytesAreRecorded

(***************************************************************************)
(* What a .part file is made of.  PartialsArePure is not inductive: the    *)
(* stream must be pure too, and gone before another edition is planned.    *)
(***************************************************************************)

\* The bytes that a .part file named for e may have.
Like(e) == ({d \in Edition : SameName(d, e)} \X Nat) \cup {Foreign}

PureInv ==
    /\ partial # NoFile /\ "swapped" \notin marks => partial \in Seq(Like(named))
    /\ "swapped" \notin marks => stream \in Seq(Like(named))
    /\ pc # "receive" => stream = <<>>
    /\ pc \notin {"idle", "attempt"} => named = task

\* A step that drops the .part file or leaves it alone, and ends the stream or leaves it.
LEMMA StaysPure ==
  ASSUME PureInv, checks' = checks,
         partial' # NoFile =>
            /\ partial' = partial /\ named' = named
            /\ "swapped" \in marks => "swapped" \in marks',
         stream' = <<>>,
         pc' \notin {"idle", "attempt"} => named' = task'
  PROVE  PureInv'
<1>1. <<>> \in Seq(Like(named)')
  OBVIOUS
<1>2. partial' # NoFile => Like(named)' = Like(named)
  BY DEF Like, SameName
<1> QED
  BY <1>1, <1>2 DEF PureInv

\* Editions of which the metadata tells neither apart name the same files.
LEMMA SameNameSameBytes ==
  ASSUME NEW d \in Edition, NEW e \in Edition, SameName(d, e)
  PROVE  Like(d) = Like(e)
  BY DEF Like, SameName

\* What is served counts as the named edition's bytes, or as swapped.
LEMMA ServedBytes ==
  ASSUME NEW e \in Edition, NEW d \in Edition, SameName(e, d)
  PROVE  Content(e) \in Seq(Like(d)) /\ Len(Content(e)) = Size[e] /\ Size[e] \in Nat
<1>1. Content(e) \in Seq({e} \X Nat) /\ Len(Content(e)) = Size[e] /\ Size[e] \in Nat
  BY ContentType
<1>2. {e} \X Nat \subseteq Like(d)
  BY DEF Like
<1> QED
  BY <1>1, <1>2, SeqMonotonic

LEMMA ResumesPure ==
  ASSUME TypeOK, PureInv, pc = "open", NEW e \in Edition, NEW bytes, Resume(e, bytes),
         SameName(e, task) => bytes \in Seq(Like(task))
  PROVE  PureInv'
<1>1. named = task /\ checks' = checks /\ named' = named /\ task' = task
  BY DEF PureInv, Resume
<1>2. Like(named)' = Like(named)
  BY <1>1 DEF Like, SameName
<1>3. "swapped" \notin marks' => "swapped" \notin marks /\ SameName(e, task)
  BY DEF Resume
<1>4. "swapped" \notin marks' => stream' \in Seq(Like(named))
  BY <1>1, <1>3 DEF Resume
<1>5. partial' # NoFile /\ "swapped" \notin marks' => partial' \in Seq(Like(named))
  BY <1>3 DEF Resume, PureInv
<1> QED
  BY <1>1, <1>2, <1>4, <1>5 DEF Resume, PureInv

LEMMA OpensPure ==
  ASSUME TypeOK, PureInv, NEW e \in Edition,
         OpenFromStart(e) \/ OpenRange(e) \/ OpenUnsatisfiable(e)
  PROVE  PureInv'
<1>1. task \in Edition /\ pc = "open" /\ named = task /\ stream = <<>>
  BY DEF TypeOK, PureInv, OpenFromStart, OpenRange, OpenUnsatisfiable
<1>2. CASE OpenFromStart(e)
  <2>1. checks' = checks /\ named' = task /\ task' = task
    BY <1>1, <1>2 DEF OpenFromStart
  <2>2. Like(named)' = Like(task)
    BY <2>1 DEF Like, SameName
  <2>3. "swapped" \notin marks' => stream' \in Seq(Like(task))
    BY <1>1, <1>2, ServedBytes DEF OpenFromStart
  <2>4. <<>> \in Seq(Like(task))
    OBVIOUS
  <2>5. partial' \in Seq(Like(task))
    BY <1>2, <2>4 DEF OpenFromStart
  <2>6. pc' = "receive"
    BY <1>2 DEF OpenFromStart
  <2> QED
    BY <2>1, <2>2, <2>3, <2>5, <2>6 DEF PureInv
<1>3. CASE OpenRange(e)
  <2>1. ASSUME SameName(e, task)
        PROVE  SubSeq(Content(e), offset + 1, Size[e]) \in Seq(Like(task))
    <3>1. offset + 1 \in Nat \ {0}
      BY OffsetType
    <3>2. Content(e) \in Seq(Like(task)) /\ Size[e] \in 0..Len(Content(e))
      BY <1>1, <2>1, ServedBytes
    <3> QED
      BY <3>1, <3>2, SubSeqType
  <2> QED
    BY <1>1, <1>3, <2>1, ResumesPure DEF OpenRange
<1>4. CASE OpenUnsatisfiable(e)
  BY <1>1, <1>4, StaysPure, GiveUpOrRetryType DEF OpenUnsatisfiable, part
<1> QED
  BY <1>2, <1>3, <1>4

\* A step that appends one byte the name allows.
LEMMA WritesPure ==
  ASSUME TypeOK, PureInv, NEW b \in Byte, Write(b), "swapped" \notin marks => b \in Like(named)
  PROVE  PureInv'
<1>1. partial \in Seq(Byte) /\ partial # NoFile
  BY WriteEffect, NoFileIsNoSequence
<1>2. Like(named)' = Like(named) /\ named' = named /\ task' = task /\ pc' = pc /\ pc = "receive"
  BY DEF Like, SameName, Write
<1>3. ASSUME "swapped" \notin marks
      PROVE  partial' \in Seq(Like(named)) /\ stream' \in Seq(Like(named))
  <2>1. partial \in Seq(Like(named)) /\ stream \in Seq(Like(named)) /\ stream # <<>>
    BY <1>1, <1>3 DEF PureInv, Write
  <2>2. Append(partial, b) \in Seq(Like(named)) /\ Tail(stream) \in Seq(Like(named))
    BY <1>3, <2>1
  <2> QED
    BY <2>2 DEF Write
<1>4. marks' = marks
  BY DEF Write
<1> QED
  BY <1>2, <1>3, <1>4 DEF PureInv

LEMMA PureInvStep ==
  ASSUME TypeOK, PureInv, [Next]_vars
  PROVE  PureInv'
<1>u. task \in Edition /\ named \in Edition /\ stream \in Seq(Byte)
  BY DEF TypeOK
<1>1. CASE Plan
  BY <1>1, StaysPure DEF Plan, PureInv, part
<1>2. CASE Skip \/ UNCHANGED vars
  BY <1>2 DEF Skip, vars, part, PureInv, Like, SameName
<1>3. CASE BeginAttempt
  <2>1. checks' = checks /\ named' = task /\ task' = task /\ pc' = "open" /\ stream' = <<>>
    BY <1>3 DEF BeginAttempt, PureInv
  <2>2. Like(named)' = Like(task)
    BY <2>1 DEF Like, SameName
  <2>3. partial' # NoFile /\ "swapped" \notin marks' => partial' \in Seq(Like(task))
    BY <1>u, <1>3, SameNameSameBytes DEF BeginAttempt, PureInv
  <2>4. <<>> \in Seq(Like(task))
    OBVIOUS
  <2> QED
    BY <2>1, <2>2, <2>3, <2>4 DEF PureInv
<1>4. CASE OpenPlanned
  BY <1>u, <1>4, OpensPure DEF OpenPlanned
<1>5. CASE OpenRefreshed
  BY <1>5, OpensPure DEF OpenRefreshed
<1>6. CASE OpenIgnoresRange
  BY <1>6, StaysPure DEF OpenIgnoresRange, PureInv
<1>7. CASE OpenIgnoresRangeUnnoticed
  BY <1>u, <1>7, ServedBytes, ResumesPure DEF OpenIgnoresRangeUnnoticed
<1>8. CASE OpenFails
  BY <1>8, StaysPure, GiveUpOrRetryType DEF OpenFails, PureInv, part
<1>9. CASE Receive
  <2>1. stream # <<>>
    BY <1>9 DEF Receive, Write
  <2>2. Head(stream) \in Byte
    BY <1>u, <2>1
  <2>3. "swapped" \notin marks => Head(stream) \in Like(named)
    BY <2>1 DEF PureInv
  <2> QED
    BY <1>9, <2>2, <2>3, WritesPure DEF Receive
<1>10. CASE ReceiveForeign
  BY <1>10, WritesPure DEF ReceiveForeign, Like, Byte
<1>11. CASE StreamBreaks
  BY <1>11, DropFullPartialEffect, GiveUpOrRetryType, StaysPure DEF StreamBreaks
<1>12. ASSUME NEW ended, FinishStream(ended)
       PROVE  PureInv'
  <2>1. CASE Verified(partial, task)
    BY <1>12, <2>1, StaysPure DEF FinishStream, PureInv
  <2>2. CASE ~Verified(partial, task)
    BY <1>12, <2>2, DropFullPartialEffect, GiveUpOrRetryType, StaysPure DEF FinishStream
  <2> QED
    BY <2>1, <2>2
<1>13. CASE RecordDownload \/ RecordFails
  BY <1>13, StaysPure DEF RecordDownload, RecordFails, PureInv, part
<1>14. CASE Replace
  BY <1>14, StaysPure DEF Replace, PureInv
<1>15. CASE ReplaceFails
  BY <1>15, StaysPure, GiveUpOrRetryType DEF ReplaceFails, PureInv
<1>16. CASE PostProcess
  BY <1>16, StaysPure DEF PostProcess, PureInv, part
<1>17. CASE PostProcessFails
  BY <1>17, StaysPure, GiveUpOrRetryType DEF PostProcessFails, PureInv, part
<1>18. CASE Crash
  <2>1. /\ checks' = checks /\ named' = named /\ ("swapped" \in marks => "swapped" \in marks')
        /\ stream' = <<>> /\ pc' = "idle"
    BY <1>18 DEF Crash
  <2>2. Like(named)' = Like(named)
    BY <2>1 DEF Like, SameName
  <2>3. ASSUME "swapped" \notin marks
        PROVE  partial' # NoFile => partial' \in Seq(Like(named))
    <3>1. partial # NoFile => partial \in Seq(Like(named))
      BY <2>3 DEF PureInv
    <3> QED
      BY <1>18, <3>1, CrashEffect
  <2>4. <<>> \in Seq(Like(named))
    OBVIOUS
  <2> QED
    BY <2>1, <2>2, <2>3, <2>4 DEF PureInv
<1>19. CASE RemoteEdit \/ LocalLoss
  BY <1>19 DEF RemoteEdit, LocalLoss, part, PureInv, Like, SameName
<1> QED
  BY <1>1, <1>2, <1>3, <1>4, <1>5, <1>6, <1>7, <1>8, <1>9, <1>10, <1>11, <1>12,
     <1>13, <1>14, <1>15, <1>16, <1>17, <1>18, <1>19
     DEF Next, Program, Environment, StreamEnds, StreamEndsEarly

\* Where size or checksum tell two editions apart, their bytes meet in one .part file
\* only by way of a refreshed URL: fingerprints name the files, and
\* cleanup_stale_partials removes the others (manager.py:28-60).
THEOREM PartialsStayPure == Spec => []PartialsArePure
<1>1. Init => PureInv
  <2>1. <<>> \in Seq(Like(named))
    OBVIOUS
  <2> QED
    BY <2>1 DEF Init, PureInv
<1>2. TypeOK /\ PureInv /\ [Next]_vars => PureInv'
  BY PureInvStep
<1>3. PureInv => PartialsArePure
  <2> SUFFICES ASSUME PureInv, partial # NoFile, "swapped" \notin marks, NEW i \in 1..Len(partial),
                      partial[i] # Foreign
               PROVE  SameName(partial[i][1], named)
    BY DEF PartialsArePure
  <2>1. partial[i] \in Like(named)
    BY ElementOfSeq DEF PureInv
  <2> QED
    BY <2>1 DEF Like
<1> QED
  BY <1>1, <1>2, <1>3, TypeCorrect, PTL DEF Spec
=============================================================================

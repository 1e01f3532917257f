------------------------ MODULE ResourcePathsProofs ------------------------
(***************************************************************************)
(* Proofs about ResourcePaths, for any assets, versions, configurations,   *)
(* names and users' files. First the operators: _conflict_path and         *)
(* jpeg_target try one number after the other, and among as many numbers   *)
(* as there are paths in use, and one more, there is a free one. Then the  *)
(* places: a planner gives each resource a path to itself (ReservedInv),   *)
(* which the batch protects, so that no conversion writes there while its  *)
(* download or its own conversion goes on (TaskInv); two conversions of a  *)
(* batch have one target only if they are of twins (JpegInv). Then the     *)
(* owners: a row leaves its path only when another resource has that       *)
(* (MovedInv), so a photo at a path without a suffix always has an owner,  *)
(* and planners adopt none of another asset there; elsewhere the path ends *)
(* in the identifier of the photo's asset (KnownInv, OwnInv). Hence a JPEG *)
(* is recorded with the asset it was made from (MadeInv), which is what    *)
(* makes the owners' check of the deletion sufficient. Then the preview:   *)
(* the order of the plan is total (PlanIsOrdered), so when its turn comes  *)
(* a resource is preceded by the same resources in a run of batches as in  *)
(* the preview of one, which have the same paths (OrderInv, PreviewInv);   *)
(* and what the planner decides about it rests, besides, on files and rows *)
(* that the steps of the run leave alone (DecisionStays), unless it looks  *)
(* where the run has made a JPEG (PromiseInv). The scan's adoptions change *)
(* rows before the batches are planned: one of a file without owner and of *)
(* the right size is decided alike afterwards (AdoptionStands) and moves   *)
(* no other resource (AdoptionSpares), so the scan has enough where the    *)
(* preview had (Ends, LookAgrees). Last what runs leave: a resource a run  *)
(* has dealt with keeps its file, for later steps write elsewhere          *)
(* (CompleteInv), so that the next run has nothing to do (SettledInv).     *)
(***************************************************************************)
EXTENDS ResourcePaths, FiniteSetTheorems, SequenceTheorems, WellFoundedInduction, TLAPS

\* Where originals go: in the destination, without the mark of a JPEG, and with the
\* identifier of the asset at the end of any longer stem.
Fits(p, a) ==
    /\ p.root = "destination" /\ p.made = 0
    /\ Len(p.stem) = 1 \/ p.stem[Len(p.stem)] = ShortId[a]

\* The paths that are taken are finitely many.
FiniteInv ==
    IsFiniteSet(DOMAIN disk) /\ IsFiniteSet(DOMAIN reserved) /\ IsFiniteSet(protected)

\* Which of the run's variables are in use in which phase.
ControlInv ==
    /\ pc \in {"idle", "plan", "delete"} => tasks = {}
    /\ pc \notin {"preview", "look", "build"} => todo = {}
    /\ pc \in {"idle", "delete"} => queue = {}
    /\ pc \in {"idle", "preview", "look"} => limited = {}
    /\ pc = "idle" => reserved = <<>>
    /\ pc # "work" => \A t \in tasks : t.stage \in {"skip", "get", "repair"}

\* A resource is assigned at most one path, when its turn comes.
ReservedInv ==
    /\ \A p, q \in DOMAIN reserved : reserved[p] = reserved[q] => p = q
    /\ \A p \in DOMAIN reserved :
         /\ reserved[p] \notin todo /\ reserved[p].asset \notin queue
         /\ Fits(p, reserved[p].asset)
    /\ \A r \in todo : r.asset \notin queue

\* Rows and originals are where originals go, JPEGs have the extension of JPEGs.
PlaceInv ==
    /\ \A r \in DOMAIN row : Fits(row[r].path, r.asset)
    /\ \A p \in DOMAIN disk, r \in Resource : disk[p] = Original(r) => Fits(p, r.asset)
    /\ \A p \in DOMAIN disk : disk[p] # Directory /\ disk[p].kind = "jpeg" => p.ext = "JPG"

\* The tasks that found, wrote or rely on the file at their path; and what each task has.
HasFile == {"skip", "fetched", "kept", "converting"}

TaskInv ==
    /\ \A t, u \in tasks : t.resource = u.resource => t = u
    /\ \A t \in tasks :
         /\ t.path \in DOMAIN reserved /\ reserved[t.path] = t.resource
         /\ pc = "work" => t.path \in protected
         /\ t.stage \in HasFile => IsFile(t.path)
         /\ t.stage = "get" => ~IsFile(t.path)
         /\ t.stage \in {"kept", "converting"} => t.path.ext \in HeicExtensions

\* The skips are dealt with one after the other, before the downloads; what a JPEG may find
\* at its place is the JPEG of a twin.
Making == {t \in tasks : t.stage \in {"kept", "converting"}}
JpegInv ==
    /\ \A t, u \in tasks :
         t.stage \in {"skip", "kept"} => u.stage \notin {"fetched", "converting"}
    /\ \A t, u \in Making : t.stage = "kept" => t = u
    /\ \A t \in Making :
         IsFile(JpegTarget(t.path)) =>
           /\ t.stage = "converting"
           /\ JpegTarget(t.path) \in made /\ \E q \in protected : Twins(t.path, q)

\* A task whose path is not that of its resource's row: the row's path is another's.
MovedInv ==
    \A t \in tasks :
        t.resource \in DOMAIN row /\ row[t.resource].path # t.path =>
            /\ row[t.resource].path \in DOMAIN reserved
            /\ reserved[row[t.resource].path] # t.resource

\* Without a new database: an original has a row; where it lies at a path without a suffix
\* that is some row's path, and the one of the resource that has the path reserved ...
KnownInv ==
    ~renewed =>
        \A p \in DOMAIN disk, x \in Resource :
            disk[p] = Original(x) =>
                /\ x \in DOMAIN row
                /\ Len(p.stem) = 1 => \E r \in DOMAIN row : row[r].path = p
                /\ Len(p.stem) = 1 /\ p \in DOMAIN reserved =>
                     reserved[p] \in DOMAIN row /\ row[reserved[p]].path = p

\* ... what a row records and a task has is no original of another asset, but of one whose
\* identifier ends alike ...
OwnInv ==
    ~renewed =>
        /\ \A r \in DOMAIN row, x \in Resource :
             row[r].content = Original(x) => ShortId[x.asset] = ShortId[r.asset]
        /\ \A t \in tasks, x \in Resource :
             t.stage \in HasFile /\ disk[t.path] = Original(x) =>
               ShortId[x.asset] = ShortId[t.resource.asset]

\* ... and a JPEG made from an original is an artifact of an asset like the original's.
MadeInv ==
    ~renewed =>
        \A p \in DOMAIN disk, x \in Resource :
            disk[p] = JpegOf(Original(x)) =>
                \E y \in artifacts : y.path = p /\ ShortId[y.resource.asset] = ShortId[x.asset]

\* Deletions are, in a run, of assets iCloud has as deleted.
VictimsInv ==
    /\ \A a \in victims : remote[a] = "deleted"
    /\ pc \in {"idle", "preview"} => victims = {}

\* A resource the run has dealt with: the file of its row is where the run has reserved.
Kept(r) ==
    /\ r \in DOMAIN row /\ row[r].path \in DOMAIN reserved /\ reserved[row[r].path] = r
    /\ row[r].status = "VERIFIED" /\ At(row[r].path) = row[r].content
    /\ r.sized /\ ~foreign => row[r].content = Original(r)

Waiting(r) ==
    \/ r.asset \in queue \/ r \in todo
    \/ \E t \in tasks : t.resource = r /\ t.stage \in {"get", "repair"}

CompleteInv ==
    pc \in {"plan", "build", "work", "delete"} /\ ~failed =>
        /\ \A r \in ResourcesOf(limited) : Waiting(r) \/ Kept(r)
        /\ \A t \in Making : JpegTarget(t.path) \notin DOMAIN reserved

\* After a complete run each resource has a file to itself, and the next run plans to
\* leave it there.
Whole(r) == r \in DOMAIN row /\ IsComplete(r)
SettledInv ==
    settled =>
        /\ \A t \in planned : t.stage = "skip"
        /\ todo \subseteq ResourcesOf(Listed)
        /\ queue \subseteq Listed
        /\ \A t \in tasks : t.stage \notin {"get", "repair"}
        /\ \A r, q \in ResourcesOf(Listed) :
             Whole(r) /\ (row[r].path = row[q].path => r = q)
        /\ \A t \in Making, r \in ResourcesOf(Listed) : row[r].path # JpegTarget(t.path)
        /\ \A p \in DOMAIN reserved :
             reserved[p] \in ResourcesOf(Listed) /\ row[reserved[p]].path = p

\* The resources that are planned before r; what a plan gives them.
Earlier(r) == {q \in Resource \ {r} : Before(q, r)}
Prior(plan, r) ==
    LET earlier == {t \in plan : t.resource \in Earlier(r)}
    IN [p \in {t.path : t \in earlier} |-> (CHOOSE t \in plan : t.path = p).resource]

\* What the planner decides about r when these paths are assigned.
Decision(r, preferOwn, assigned) ==
    LET p == IF r \in DOMAIN row THEN row[r].path ELSE UntrackedPath(r, preferOwn, assigned)
    IN IF r \notin DOMAIN row
       THEN [resource |-> r, path |-> p, stage |-> IF IsFile(p) THEN "skip" ELSE "get"]
       ELSE IF p \notin DOMAIN assigned
       THEN [resource |-> r, path |-> p, stage |-> IF IsComplete(r) THEN "skip" ELSE "repair"]
       ELSE [resource |-> r, stage |-> "repair",
             path |-> ConflictPath(r, assigned[p].asset = r.asset, assigned)]

Decided(plan, r) == \E b \in BOOLEAN : Decision(r, b, Prior(plan, r)) \in plan

\* The resources are dealt with in the order of the plan, also across batches.
Scope == IF pc \in {"preview", "look"} THEN Listed ELSE limited
Rest(Q) == \A a \in Listed \ Q, b \in Q : Newer(a, b)
Dealt(r) == \E p \in DOMAIN reserved : reserved[p] = r
OrderInv ==
    /\ pc # "idle" =>
         \A r \in ResourcesOf(Scope) : Dealt(r) \/ r \in todo \/ r.asset \in queue
    /\ todo \subseteq ResourcesOf(Scope) /\ queue \subseteq Scope /\ limited \subseteq Listed
    /\ \A p \in DOMAIN reserved :
         /\ reserved[p] \in ResourcesOf(Scope)
         /\ \A r \in todo : Before(reserved[p], r) /\ ~Before(r, reserved[p])
    /\ \A a \in queue :
         /\ \A p \in DOMAIN reserved : Newer(reserved[p].asset, a)
         /\ \A r \in todo : Newer(r.asset, a)
    /\ pc \in {"preview", "look"} =>
         /\ Rest(queue)
         /\ \A r \in todo, a \in Listed \ queue : a = r.asset \/ Newer(a, r.asset)

\* Where a pass ends that may stop early: at the first asset where it has enough, or at the
\* last asset.
NotBefore(plan, B) == \A Q \in SUBSET Listed : Rest(Q) /\ B \subseteq Q /\ B # Q => ~Enough(plan, Q)
Ends(plan, B) ==
    /\ B \subseteq Listed /\ Rest(B)
    /\ B = {} \/ Enough(plan, B)
    /\ NotBefore(plan, B)
    /\ {t.resource : t \in plan} = ResourcesOf(Listed \ B)

\* A preview decides about each resource knowing what it gave to those before it.
PreviewInv ==
    pc = "preview" =>
        /\ promise = Unknown
        /\ \A p \in DOMAIN reserved : \E t \in tasks : t.path = p
        /\ \A t \in tasks : \E b \in BOOLEAN :
             t = Decision(t.resource, b, Prior(tasks, t.resource))
        /\ NotBefore(tasks, queue)

OnePathEach(plan) ==
    \A t, u \in plan : t.resource = u.resource \/ t.path = u.path => t = u

\* The plans of the run are parts of the promise, and so is the planning of the scan, which
\* is then done again; of what the plans do not contain yet, the planner would still decide
\* as promised, unless a JPEG is in the way.
Drawn == planned \cup (IF pc \in {"look", "build"} THEN tasks ELSE {})
Met(r) == Looked(r, Prior(promise, r)) \cap made # {}
Follows(B) ==
    /\ pc \in {"plan", "build", "work", "delete"} => limited = Listed \ B
    /\ pc = "look" => B \subseteq queue
    /\ Drawn \subseteq promise
    /\ \A p \in DOMAIN reserved : \E t \in Drawn : t.path = p /\ t.resource = reserved[p]
    /\ \A r \in ResourcesOf(Listed \ B) :
         (pc # "look" /\ Dealt(r)) \/ Met(r) \/ Decided(promise, r)
PromiseInv ==
    /\ pc \in {"idle", "preview", "look"} => planned = {} /\ made = {}
    /\ pc \in {"idle", "preview"} => ~swayed
    /\ promise # Unknown =>
        /\ IsFiniteSet({t.path : t \in promise})
        /\ OnePathEach(promise)
        /\ \E B \in SUBSET Listed : Ends(promise, B) /\ (~swayed => Follows(B))

\* The planners and conversions take the first number that is free; there is a first.
LEMMA FirstNumber ==
  ASSUME NEW S \in SUBSET Nat, S # {}
  PROVE  Min(S) \in S /\ \A m \in S : Min(S) <= m
<1> DEFINE R == {ss \in Nat \X Nat : ss[1] < ss[2]}
<1>1. IsWellFoundedOn(R, Nat)
  BY NatLessThanWellFounded DEF OpToRel
<1>2. PICK n \in S : \A m \in S : ~(<<m, n>> \in R)
  <2> HIDE DEF R
  <2> QED
    BY <1>1, WFMin
<1>3. ASSUME NEW m \in S PROVE n <= m
  <2>1. m \in Nat /\ n \in Nat /\ ~(<<m, n>> \in R)
    BY <1>2
  <2>2. <<m, n>> \in Nat \X Nat /\ (<<m, n>>)[1] = m /\ (<<m, n>>)[2] = n
    BY <2>1
  <2>3. ~(m < n)
    BY <2>1, <2>2
  <2> QED
    BY <2>1, <2>3
<1> QED
  BY <1>3 DEF Min

\* The fields of a resource.
LEMMA ResourceFields ==
  ASSUME NEW r \in Resource
  PROVE  r.asset \in Asset /\ r.version \in STRING /\ r.ext \in STRING
<1>1. PICK a \in Asset : r \in ToSet(NormalizeAsset(a))
  BY DEF Resource
<1> DEFINE offered == IF Versions[a] # <<>> THEN Versions[a]
                      ELSE <<[version |-> "original", ext |-> Traits[a].ext, sized |-> FALSE]>>
<1> DEFINE Offer == [version : STRING, ext : STRING, sized : BOOLEAN]
<1>2. offered \in Seq(Offer)
  <2>1. Versions[a] \in Seq(Offer)
    BY ConstantsAssumption
  <2>2. [version |-> "original", ext |-> Traits[a].ext, sized |-> FALSE] \in Offer
    <3>1. Traits[a].ext \in STRING
      BY ConstantsAssumption
    <3>2. \A v, e \in STRING, b \in BOOLEAN :
            [version |-> v, ext |-> e, sized |-> b] \in Offer
      OBVIOUS
    <3>3. "original" \in STRING /\ FALSE \in BOOLEAN
      BY LiteralsAreStrings
    <3> HIDE DEF Offer
    <3> QED
      BY <3>1, <3>2, <3>3
  <2> HIDE DEF Offer
  <2> QED
    BY <2>1, <2>2
<1>3. PICK i \in DOMAIN offered : r = NormalizeAsset(a)[i]
  BY <1>1 DEF ToSet, NormalizeAsset
<1>4. offered[i] \in Offer
  <2> HIDE DEF offered, Offer
  <2> QED
    BY <1>2
<1>5. /\ r.asset = a /\ r.version = offered[i].version /\ r.ext = offered[i].ext
  BY <1>3 DEF NormalizeAsset
<1> QED
  BY <1>4, <1>5

\* A resource's own path, and that it is where originals go.
LEMMA RelativePathFits ==
  ASSUME NEW r \in Resource
  PROVE  RelativePath(r) \in Path /\ Fits(RelativePath(r), r.asset)
<1> DEFINE base == IF config.policy = "always_asset_id"
                   THEN <<Name[r.asset], ShortId[r.asset]>> ELSE <<Name[r.asset]>>
<1>1. r.asset \in Asset /\ r.ext \in STRING
  BY ResourceFields
<1>2. Name[r.asset] \in STRING /\ ShortId[r.asset] \in STRING
  BY <1>1, ConstantsAssumption
<1>3. /\ base \in Seq(STRING) \ {<<>>}
      /\ Len(base) = 1 \/ base[Len(base)] = ShortId[r.asset]
  BY <1>2
<1>4. RelativePath(r) = InDestination(base, r.ext)
  BY DEF RelativePath
<1> HIDE DEF base
<1> QED
  BY <1>1, <1>3, <1>4 DEF InDestination, Path, Fits

\* So are its conflict paths, which bear the identifier of the asset and differ by their
\* numbers.
LEMMA ConflictPathsFit ==
  ASSUME NEW r \in Resource, NEW sameAsset \in BOOLEAN, NEW n \in Nat
  PROVE  LET p == ResolveConflict(r, sameAsset, n)
         IN p \in Path /\ Fits(p, r.asset) /\ Len(p.stem) # 1 /\ p.copy = n
<1> DEFINE base == RelativePath(r)
           suffix == ConflictSuffix(r, sameAsset)
           p == ResolveConflict(r, sameAsset, n)
<1>1. r.asset \in Asset /\ r.version \in STRING
  BY ResourceFields
<1>2. ShortId[r.asset] \in STRING /\ Stamp[r.asset] \in STRING
  BY <1>1, ConstantsAssumption
<1>3. /\ suffix \in Seq(STRING) /\ Len(suffix) > 0
      /\ suffix[Len(suffix)] = ShortId[r.asset]
  <2>1. CASE sameAsset
    BY <1>1, <1>2, <2>1 DEF ConflictSuffix
  <2>2. CASE ~sameAsset /\ config.policy = "timestamp"
    BY <1>2, <2>2 DEF ConflictSuffix
  <2>3. CASE ~sameAsset /\ config.policy # "timestamp"
    BY <1>2, <2>3 DEF ConflictSuffix
  <2> QED
    BY <2>1, <2>2, <2>3
<1>4. base \in Path /\ base.root = "destination" /\ base.made = 0
  BY RelativePathFits DEF Fits
<1>5. base.stem \in Seq(STRING) /\ Len(base.stem) > 0
  BY <1>4 DEF Path
<1>6. /\ base.stem \o suffix \in Seq(STRING) /\ Len(base.stem \o suffix) > 1
      /\ (base.stem \o suffix)[Len(base.stem \o suffix)] = ShortId[r.asset]
  <2> HIDE DEF base, suffix
  <2> QED
    BY <1>3, <1>5, ConcatProperties
<1>7. p = [base EXCEPT !.stem = base.stem \o suffix, !.copy = n]
  BY DEF ResolveConflict
<1>8. /\ p.root = "destination" /\ p.made = 0 /\ p.ext = base.ext /\ p.copy = n
      /\ p.stem = base.stem \o suffix
  BY <1>4, <1>7 DEF Path
<1> QED
  <2> HIDE DEF base, suffix, p
  <2>1. p \in Path
    <3> DEFINE stem == base.stem \o suffix
    <3>1. stem \in Seq(STRING) \ {<<>>}
      BY <1>6
    <3> HIDE DEF stem
    <3>2. p = [base EXCEPT !.stem = stem, !.copy = n]
      BY <1>7 DEF stem
    <3> QED
      BY <1>4, <3>1, <3>2 DEF Path
  <2>2. Fits(p, r.asset) /\ Len(p.stem) # 1
    BY <1>6, <1>8 DEF Fits
  <2> QED
    BY <1>8, <2>1, <2>2 DEF p

\* _conflict_path ends, with the least number whose path is assigned to no resource and
\* is not a directory.
Takes(r, sameAsset, assigned, n) ==
    LET p == ResolveConflict(r, sameAsset, n) IN p \notin DOMAIN assigned /\ At(p) # Directory

LEMMA ConflictNumber ==
  ASSUME NEW r \in Resource, NEW sameAsset \in BOOLEAN, NEW assigned,
         IsFiniteSet(DOMAIN assigned), IsFiniteSet(DOMAIN disk)
  PROVE  \E n \in Nat : /\ ConflictPath(r, sameAsset, assigned) = ResolveConflict(r, sameAsset, n)
                       /\ Takes(r, sameAsset, assigned, n)
                       /\ \A m \in Nat : m < n => ~Takes(r, sameAsset, assigned, m)
<1> DEFINE used == Cardinality(DOMAIN assigned) + Cardinality(DOMAIN disk)
           nth(n) == ResolveConflict(r, sameAsset, n)
           free == {n \in 0..used : nth(n) \notin DOMAIN assigned /\ At(nth(n)) # Directory}
<1>1. used \in Nat
  BY FS_CardinalityType
<1>2. free # {}
  <2> SUFFICES ASSUME \A n \in 0..used : nth(n) \in DOMAIN assigned \cup DOMAIN disk
               PROVE  FALSE
    BY ContentAssumption DEF At
  <2> DEFINE taken == DOMAIN assigned \cup DOMAIN disk
             f == [n \in 0..used |-> nth(n)]
  <2>1. IsFiniteSet(taken) /\ Cardinality(taken) <= used
    <3>1. Cardinality(DOMAIN assigned \cap DOMAIN disk) \in Nat
      BY FS_Intersection, FS_CardinalityType
    <3>2. Cardinality(DOMAIN assigned) \in Nat /\ Cardinality(DOMAIN disk) \in Nat
      BY FS_CardinalityType
    <3>3. /\ IsFiniteSet(taken)
          /\ Cardinality(taken) = Cardinality(DOMAIN assigned) + Cardinality(DOMAIN disk)
                                    - Cardinality(DOMAIN assigned \cap DOMAIN disk)
      BY FS_Union
    <3> HIDE DEF taken
    <3> QED
      BY <3>1, <3>2, <3>3
  <2>2. IsFiniteSet(0..used) /\ Cardinality(0..used) = used + 1
    BY <1>1, FS_Interval
  <2>3. f \in [0..used -> taken]
    OBVIOUS
  <2>4. Cardinality(taken) \in Nat
    BY <2>1, FS_CardinalityType
  <2>5. PICK m, n \in 0..used : m # n /\ f[m] = f[n]
    <3> HIDE DEF taken, f, used
    <3> QED
      BY <1>1, <2>1, <2>2, <2>3, <2>4, FS_PigeonHole
  <2>6. f[m].copy = m /\ f[n].copy = n
    <3>1. m \in Nat /\ n \in Nat
      BY <1>1
    <3> QED
      BY <3>1, ConflictPathsFit
  <2> QED
    BY <2>5, <2>6
<1>3. Min(free) \in free /\ \A m \in free : Min(free) <= m
  <2>1. free \in SUBSET Nat
    BY <1>1
  <2> HIDE DEF free
  <2> QED
    BY <1>2, <2>1, FirstNumber
<1>4. ConflictPath(r, sameAsset, assigned) = nth(Min(free))
  BY DEF ConflictPath
<1>5. Min(free) \in Nat /\ Min(free) <= used /\ Takes(r, sameAsset, assigned, Min(free))
  BY <1>1, <1>3 DEF Takes
<1>6. ASSUME NEW m \in Nat, m < Min(free), Takes(r, sameAsset, assigned, m) PROVE FALSE
  <2>1. m \in free
    BY <1>1, <1>5, <1>6 DEF Takes
  <2> HIDE DEF free
  <2> QED
    BY <1>3, <1>5, <1>6, <2>1
<1> QED
  BY <1>4, <1>5, <1>6

\* The path _conflict_path ends at is where originals go.
LEMMA ConflictPathIsFree ==
  ASSUME NEW r \in Resource, NEW sameAsset \in BOOLEAN, NEW assigned,
         IsFiniteSet(DOMAIN assigned), IsFiniteSet(DOMAIN disk)
  PROVE  LET p == ConflictPath(r, sameAsset, assigned)
         IN /\ p \in Path /\ Fits(p, r.asset) /\ Len(p.stem) # 1
            /\ p \notin DOMAIN assigned /\ At(p) # Directory
BY ConflictNumber, ConflictPathsFit DEF Takes

\* A JPEG path keeps the stem and differs from others of its file by the mark.
LEMMA JpegPathFields ==
  ASSUME NEW p \in Path, NEW n \in Nat
  PROVE  /\ JpegPath(p, n) \in Path
         /\ JpegPath(p, n).ext = "JPG" /\ JpegPath(p, n).made = n
         /\ JpegPath(p, n).stem = p.stem /\ JpegPath(p, n).copy = p.copy
<1> DEFINE root == IF config.jpegApart THEN "jpeg" ELSE p.root
<1>1. root \in {"destination", "jpeg"}
  BY DEF Path
<1>2. JpegPath(p, n) = [p EXCEPT !.root = root, !.ext = "JPG", !.made = n]
  BY DEF JpegPath
<1> HIDE DEF root
<1> QED
  BY <1>1, <1>2, LiteralsAreStrings DEF Path

\* jpeg_target ends, and at a path that is not protected.
LEMMA JpegTargetIsFree ==
  ASSUME NEW p \in Path, IsFiniteSet(protected)
  PROVE  /\ JpegTarget(p) \in Path /\ JpegTarget(p) \notin protected
         /\ JpegTarget(p).ext = "JPG"
         /\ JpegTarget(p).stem = p.stem /\ JpegTarget(p).copy = p.copy
<1> DEFINE used == Cardinality(protected)
           free == {n \in 0..used : JpegPath(p, n) \notin protected}
<1>1. used \in Nat
  BY FS_CardinalityType
<1>2. free # {}
  <2> SUFFICES ASSUME \A n \in 0..used : JpegPath(p, n) \in protected
               PROVE  FALSE
    OBVIOUS
  <2> DEFINE f == [n \in 0..used |-> JpegPath(p, n)]
  <2>1. IsFiniteSet(0..used) /\ Cardinality(0..used) = used + 1
    BY <1>1, FS_Interval
  <2>2. f \in [0..used -> protected] /\ Cardinality(protected) < used + 1
    BY <1>1
  <2>3. PICK m, n \in 0..used : m # n /\ f[m] = f[n]
    <3> HIDE DEF f, used
    <3> QED
      BY <2>1, <2>2, FS_PigeonHole
  <2>4. f[m].made = m /\ f[n].made = n
    <3>1. m \in Nat /\ n \in Nat
      BY <1>1
    <3> QED
      BY <3>1, JpegPathFields
  <2> QED
    BY <2>3, <2>4
<1>3. Min(free) \in free
  <2>1. free \in SUBSET Nat
    BY <1>1
  <2> HIDE DEF free
  <2> QED
    BY <1>2, <2>1, FirstNumber
<1>4. JpegTarget(p) = JpegPath(p, Min(free)) /\ Min(free) \in Nat
  BY <1>1, <1>3 DEF JpegTarget
<1> QED
  BY <1>3, <1>4, JpegPathFields

\* The JPEGs of two HEIC files of the destination have two places, unless the files are twins.
LEMMA JpegTargetsDiffer ==
  ASSUME NEW p \in Path, NEW q \in Path, p # q, IsFiniteSet(protected),
         p.root = q.root, p.made = q.made, {p.ext, q.ext} \subseteq HeicExtensions,
         JpegTarget(p) = JpegTarget(q)
  PROVE  Twins(p, q)
<1>1. p.stem = q.stem /\ p.copy = q.copy
  BY JpegTargetIsFree
<1>2. p = [q EXCEPT !.ext = p.ext]
  BY <1>1 DEF Path
<1> QED
  BY <1>2 DEF Twins

\* The kinds of content.
LEMMA Contents ==
  /\ \A r \in Resource : /\ Original(r) \in Sources /\ Original(r) \in Content
                         /\ Original(r) # UserFile /\ Original(r).kind = "original"
                         /\ Original(r).of = r
  /\ UserFile \in Sources /\ UserFile \in Content /\ UserFile.kind = "user"
  /\ \A c \in Sources : /\ JpegOf(c) \in Content /\ JpegOf(c).kind = "jpeg"
                        /\ JpegOf(c).of = c
  /\ \A c \in Content : c \in Sources \/ \E d \in Sources : c = JpegOf(d)
  /\ \A c \in Sources : c = UserFile \/ \E r \in Resource : c = Original(r)
  /\ NoFile # Directory /\ NoFile \notin Content /\ Directory \notin Content
BY ContentAssumption DEF Original, UserFile, JpegOf, Sources, Content

\* A file has a content, and the content is of a file.
LEMMA FileContent ==
  ASSUME TypeOK, NEW p
  PROVE  /\ IsFile(p) <=> p \in DOMAIN disk /\ disk[p] \in Content
         /\ IsFile(p) => At(p) = disk[p]
BY Contents DEF TypeOK, IsFile, At

\* The path a planner looks at first is assigned to no resource.
LEMMA FirstPathIsFree ==
  ASSUME NEW r \in Resource, NEW assigned,
         IsFiniteSet(DOMAIN assigned), IsFiniteSet(DOMAIN disk)
  PROVE  LET p == FirstPath(r, assigned)
         IN p \in Path /\ Fits(p, r.asset) /\ p \notin DOMAIN assigned
<1> DEFINE p == RelativePath(r)
           same == assigned[p].asset = r.asset
<1>1. same \in BOOLEAN
  OBVIOUS
<1>2. CASE p \in DOMAIN assigned
  <2>1. FirstPath(r, assigned) = ConflictPath(r, same, assigned)
    BY <1>2 DEF FirstPath
  <2> HIDE DEF same
  <2> QED
    BY <1>1, <2>1, ConflictPathIsFree
<1>3. CASE p \notin DOMAIN assigned
  BY <1>3, RelativePathFits DEF FirstPath
<1> QED
  BY <1>2, <1>3

\* The path of a new resource is free; a file there without a suffix belongs to no other row.
LEMMA UntrackedPathIsFree ==
  ASSUME NEW r \in Resource, NEW preferOwn \in BOOLEAN, NEW assigned,
         IsFiniteSet(DOMAIN assigned), IsFiniteSet(DOMAIN disk)
  PROVE  LET p == UntrackedPath(r, preferOwn, assigned)
         IN /\ p \in Path /\ Fits(p, r.asset)
            /\ p \notin DOMAIN assigned /\ At(p) # Directory
            /\ IsFile(p) /\ Len(p.stem) = 1 => Owners(p) \subseteq {r}
<1> DEFINE Free(p) == /\ p \in Path /\ Fits(p, r.asset) /\ p \notin DOMAIN assigned
           Good(p) == Free(p) /\ At(p) # Directory /\ Len(p.stem) # 1
<1>1. ASSUME NEW same \in BOOLEAN PROVE Good(ConflictPath(r, same, assigned))
  BY ConflictPathIsFree
<1>2. Free(FirstPath(r, assigned))
  BY FirstPathIsFree
<1>3. /\ Free(UnownedPath(r, preferOwn, assigned))
      /\ \/ Len(UnownedPath(r, preferOwn, assigned).stem) # 1
         \/ IsFile(UnownedPath(r, preferOwn, assigned))
              => Owners(UnownedPath(r, preferOwn, assigned)) \subseteq {r}
  <2> DEFINE p == FirstPath(r, assigned)
             others == IF IsFile(p) THEN Owners(p) \ {r} ELSE {}
             own == {q \in others : q.asset = r.asset}
             same == IF preferOwn THEN own # {} ELSE own = others
  <2>1. same \in BOOLEAN
    OBVIOUS
  <2>2. CASE others = {}
    <3>1. UnownedPath(r, preferOwn, assigned) = p
      BY <2>2 DEF UnownedPath
    <3> QED
      BY <1>2, <2>2, <3>1
  <2>3. CASE others # {}
    <3>1. UnownedPath(r, preferOwn, assigned) = ConflictPath(r, same, assigned)
      BY <2>3 DEF UnownedPath
    <3> HIDE DEF same
    <3> QED
      BY <1>1, <2>1, <3>1
  <2> QED
    BY <2>2, <2>3
<1>4. CASE At(UnownedPath(r, preferOwn, assigned)) = Directory
  <2>1. UntrackedPath(r, preferOwn, assigned) = ConflictPath(r, FALSE, assigned)
    BY <1>4 DEF UntrackedPath
  <2>2. Good(ConflictPath(r, FALSE, assigned))
    BY <1>1
  <2> QED
    BY <2>1, <2>2
<1>5. CASE At(UnownedPath(r, preferOwn, assigned)) # Directory
  <2>1. UntrackedPath(r, preferOwn, assigned) = UnownedPath(r, preferOwn, assigned)
    BY <1>5 DEF UntrackedPath
  <2> QED
    BY <1>3, <1>5, <2>1
<1> QED
  BY <1>4, <1>5

\* What a step of the planner does, in every case: it raises, or it gives the resource a
\* free path, the one of its row unless that one is another's.
Given(r, p, stage) ==
    /\ p \in Path /\ Fits(p, r.asset) /\ p \notin DOMAIN reserved
    /\ stage \in {"skip", "get", "repair"}
    /\ stage = "skip" => IsFile(p)
    /\ stage = "get" => ~IsFile(p)
    /\ r \in DOMAIN row => \/ row[r].path = p
                           \/ /\ row[r].path \in DOMAIN reserved /\ reserved[row[r].path] # r
                              /\ Len(p.stem) # 1 /\ stage = "repair"

PlansRow(r, p, stage) ==
    /\ Plan(r, p, stage) /\ Given(r, p, stage)
    /\ stage # "get" => r \in DOMAIN row
    /\ stage = "skip" => IsComplete(r) /\ disk[p] = row[r].content
    /\ r \in DOMAIN row /\ row[r].path = p /\ IsComplete(r) => stage = "skip"

Adopts(r, p) ==
    /\ Adopt(r, p) /\ Given(r, p, "skip") /\ r \notin DOMAIN row
    /\ Len(p.stem) = 1 => Owners(p) = {}

\* What the planner finds.
PlannerInv == TypeOK /\ FiniteInv /\ ReservedInv /\ PlaceInv

\* The cases of build are these three.
LEMMA PlannerSteps ==
  ASSUME PlannerInv, NEW r \in Resource, r \in todo, PlanResource(r)
  PROVE  \/ Raise
         \/ \E p \in Path, stage \in {"skip", "get", "repair"} : PlansRow(r, p, stage)
         \/ \E p \in Path : Adopts(r, p)
<1> USE DEF PlannerInv
<1>0. \A p \in DOMAIN reserved : reserved[p] # r
  BY DEF ReservedInv
<1>1. CASE PlanTracked(r)
  <2> DEFINE p == row[r].path
             same == reserved[p].asset = r.asset
             q == ConflictPath(r, same, reserved)
  <2>1. r \in DOMAIN row /\ p \in Path /\ Fits(p, r.asset)
    BY <1>1 DEF PlanTracked, TypeOK, PlaceInv
  <2>2. CASE p \in DOMAIN reserved
    <3>1. Raise \/ Plan(r, q, "repair")
      BY <1>0, <1>1, <2>2 DEF PlanTracked
    <3>2. same \in BOOLEAN
      OBVIOUS
    <3>3. /\ q \in Path /\ Fits(q, r.asset) /\ Len(q.stem) # 1 /\ q \notin DOMAIN reserved
      <4> HIDE DEF same
      <4> QED
        BY <3>2, ConflictPathIsFree DEF FiniteInv
    <3>4. Given(r, q, "repair")
      BY <1>0, <2>2, <3>3 DEF Given
    <3> HIDE DEF q
    <3> QED
      BY <2>1, <2>2, <3>1, <3>3, <3>4 DEF PlansRow
  <2>3. CASE p \notin DOMAIN reserved
    <3>1. CASE IsComplete(r)
      <4>1. Plan(r, p, "skip")
        BY <1>1, <2>3, <3>1 DEF PlanTracked
      <4>2. IsFile(p) /\ disk[p] = row[r].content
        BY <2>1, <3>1, Contents DEF IsComplete, IsFile, At, TypeOK
      <4>3. Given(r, p, "skip")
        BY <2>1, <2>3, <4>2 DEF Given
      <4> QED
        BY <2>1, <3>1, <4>1, <4>2, <4>3 DEF PlansRow
    <3>2. CASE ~IsComplete(r)
      <4>1. Plan(r, p, "repair")
        BY <1>1, <2>3, <3>2 DEF PlanTracked
      <4>2. Given(r, p, "repair")
        BY <2>1, <2>3 DEF Given
      <4> QED
        BY <2>1, <3>2, <4>1, <4>2 DEF PlansRow
    <3> QED
      BY <3>1, <3>2
  <2> QED
    BY <2>2, <2>3
<1>2. ASSUME NEW preferOwn \in BOOLEAN, PlanUntracked(r, preferOwn)
      PROVE  \/ Raise
             \/ \E p \in Path, stage \in {"skip", "get", "repair"} : PlansRow(r, p, stage)
             \/ \E p \in Path : Adopts(r, p)
  <2> DEFINE p == UntrackedPath(r, preferOwn, reserved)
  <2>1. /\ p \in Path /\ Fits(p, r.asset) /\ p \notin DOMAIN reserved
        /\ IsFile(p) /\ Len(p.stem) = 1 => Owners(p) \subseteq {r}
    BY UntrackedPathIsFree DEF FiniteInv
  <2>2. r \notin DOMAIN row /\ (Raise \/ (IsFile(p) /\ Adopt(r, p))
                                  \/ (~IsFile(p) /\ Plan(r, p, "get")))
    BY <1>2 DEF PlanUntracked
  <2> HIDE DEF p
  <2>3. CASE IsFile(p) /\ Adopt(r, p)
    <3>1. Given(r, p, "skip")
      BY <2>1, <2>2, <2>3 DEF Given
    <3>2. Len(p.stem) = 1 => Owners(p) = {}
      BY <2>1, <2>2, <2>3 DEF Owners
    <3> QED
      BY <2>1, <2>2, <2>3, <3>1, <3>2 DEF Adopts
  <2>4. CASE ~IsFile(p) /\ Plan(r, p, "get")
    <3>1. Given(r, p, "get")
      BY <2>1, <2>2, <2>4 DEF Given
    <3> QED
      BY <2>1, <2>2, <2>4, <3>1 DEF PlansRow
  <2> QED
    BY <2>2, <2>3, <2>4
<1> QED
  BY <1>1, <1>2 DEF PlanResource

\* The records of the state.
Task == [resource : Resource, path : Path, stage : Stages]
Entry == [path : Path, content : Content, status : Statuses]
Artifact == [resource : Resource, path : Path, content : Content, status : Statuses]

\* Stages change, tasks keep their resource and path.
LEMMA TaskFields ==
  ASSUME NEW t \in Task, NEW stage \in Stages
  PROVE  /\ t.resource \in Resource /\ t.path \in Path /\ t.stage \in Stages
         /\ [t EXCEPT !.stage = stage] \in Task
         /\ [t EXCEPT !.stage = stage].resource = t.resource
         /\ [t EXCEPT !.stage = stage].path = t.path
         /\ [t EXCEPT !.stage = stage].stage = stage
BY DEF Task

\* What the planners add to the tasks ...
LEMMA NewTask ==
  ASSUME NEW r \in Resource, NEW p \in Path, NEW stage \in Stages
  PROVE  LET t == [resource |-> r, path |-> p, stage |-> stage]
         IN t \in Task /\ t.resource = r /\ t.path = p /\ t.stage = stage
BY DEF Task

\* ... and a download or an adoption to the rows,
LEMMA NewEntry ==
  ASSUME NEW p \in Path, NEW c \in Content
  PROVE  LET e == [path |-> p, content |-> c, status |-> "VERIFIED"]
         IN e \in Entry /\ e.path = p /\ e.content = c
BY DEF Entry, Statuses

\* where a deletion changes the status only;
LEMMA MarkedEntry ==
  ASSUME NEW e \in Entry
  PROVE  LET d == [e EXCEPT !.status = "DELETED_REMOTE"]
         IN d \in Entry /\ d.path = e.path /\ d.content = e.content
BY DEF Entry, Statuses

\* the same for the rows of JPEGs ...
LEMMA NewArtifact ==
  ASSUME NEW r \in Resource, NEW p \in Path, NEW c \in Content
  PROVE  LET x == [resource |-> r, path |-> p, content |-> c, status |-> "VERIFIED"]
         IN x \in Artifact /\ x.resource = r /\ x.path = p
BY DEF Artifact, Statuses

\* ... and their deletion.
LEMMA MarkedArtifact ==
  ASSUME NEW x \in Artifact
  PROVE  LET y == [x EXCEPT !.status = "DELETED_REMOTE"]
         IN y \in Artifact /\ y.resource = x.resource /\ y.path = x.path
BY DEF Artifact, Statuses

\* The parts of the type invariant.
WorldOK ==
    /\ remote \in [Asset -> {"absent", "active", "deleted"}] /\ config \in Configs
    /\ failed \in BOOLEAN /\ foreign \in BOOLEAN /\ swayed \in BOOLEAN
    /\ settled \in BOOLEAN /\ renewed \in BOOLEAN /\ events \in 0..MaxEvents
DiskOK ==
    DOMAIN disk \subseteq Path /\ \A p \in DOMAIN disk : disk[p] \in Content \cup {Directory}
RowsOK == DOMAIN row \subseteq Resource /\ \A r \in DOMAIN row : row[r] \in Entry
RunOK ==
    /\ pc \in {"idle", "preview", "look", "plan", "build", "work", "delete"}
    /\ queue \subseteq Asset /\ limited \subseteq Asset /\ todo \subseteq Resource
    /\ DOMAIN reserved \subseteq Path /\ \A p \in DOMAIN reserved : reserved[p] \in Resource
    /\ protected \subseteq Path /\ tasks \subseteq Task
    /\ victims \subseteq Asset /\ planned \subseteq Task /\ made \subseteq Path
    /\ promise # Unknown => promise \subseteq Task

\* The type invariant is their conjunction.
LEMMA TypeParts ==
  TypeOK <=> WorldOK /\ DiskOK /\ RowsOK /\ artifacts \subseteq Artifact /\ RunOK
BY DEF TypeOK, WorldOK, DiskOK, RowsOK, RunOK, Task, Entry, Artifact

\* Every file of a task that becomes a JPEG is an original or a user's file.
LEMMA SourceOfTask ==
  ASSUME TypeOK, PlaceInv, TaskInv, NEW t \in tasks, t.stage \in {"kept", "converting"}
  PROVE  disk[t.path] \in Sources
<1>1. IsFile(t.path) /\ t.path.ext # "JPG"
  BY DEF TaskInv, HasFile, HeicExtensions
<1>2. t.path \in DOMAIN disk /\ disk[t.path] \in Content
  BY <1>1, FileContent
<1>3. disk[t.path].kind # "jpeg"
  BY <1>1, <1>2, Contents DEF PlaceInv
<1> QED
  BY <1>2, <1>3, Contents

\* One batch's resources.
LEMMA ResourcesOfType == \A S : ResourcesOf(S) \subseteq Resource
BY DEF ResourcesOf

Phases ==
    Preview \/ SelectAsset \/ EndPreview \/ StartRun \/ EndLook \/ PlanBatch \/ EndPlan
    \/ EndBatch \/ StartDeletions \/ Finish

\* The phases of a run leave files, rows and JPEGs alone.
LEMMA PhasesKeepData ==
  Phases => UNCHANGED <<remote, config, disk, row, artifacts, renewed, events>>
BY DEF Phases, Preview, SelectAsset, EndPreview, StartRun, EndLook, PlanBatch,
     EndPlan, EndBatch, StartDeletions,
       Finish, outsideVars, rowVars, historyVars

\* Every step keeps the types; the paths it writes are those of the planners and of JpegTarget.
LEMMA TypeStep ==
  ASSUME TypeOK, FiniteInv, ReservedInv, PlaceInv, TaskInv, [Next]_vars
  PROVE  TypeOK'
<1> SUFFICES WorldOK' /\ DiskOK' /\ RowsOK' /\ (artifacts \subseteq Artifact)' /\ RunOK'
  BY DEF TypeOK, WorldOK, DiskOK, RowsOK, RunOK, Task, Entry, Artifact
<1> USE DEF outsideVars, rowVars, planVars, workVars, historyVars
<1>0. WorldOK /\ DiskOK /\ RowsOK /\ artifacts \subseteq Artifact /\ RunOK
  BY TypeParts
<1>1. CASE Phases
  <2>1. DiskOK' /\ RowsOK' /\ (artifacts \subseteq Artifact)'
    BY <1>0, <1>1, PhasesKeepData DEF DiskOK, RowsOK
  <2>2. WorldOK'
    BY <1>0, <1>1, PhasesKeepData DEF WorldOK, Phases, Preview, SelectAsset, EndPreview, StartRun,
       EndLook, PlanBatch, EndPlan, EndBatch, StartDeletions, Finish, RunForgotten
  <2>3. RunOK'
    <3>0. {t.path : t \in tasks} \subseteq Path
      <4>1. \A t \in tasks : t.path \in Path
        BY <1>0, TaskFields DEF RunOK, Stages
      <4> QED
        BY <4>1
    <3>1. CASE Preview
      BY <1>0, <3>1 DEF RunOK, Preview, Listed
    <3>2. CASE EndPreview
      BY <1>0, <3>2 DEF RunOK, EndPreview
    <3>3. CASE StartRun
      BY <1>0, <3>3 DEF RunOK, StartRun, Listed
    <3>9. CASE SelectAsset
      BY <1>0, <3>9, ResourcesOfType DEF RunOK, SelectAsset
    <3>10. CASE EndLook
      BY <1>0, <3>10 DEF RunOK, EndLook, Listed
    <3>4. CASE PlanBatch
      BY <1>0, <3>4, ResourcesOfType DEF RunOK, PlanBatch
    <3>5. CASE EndPlan
      BY <1>0, <3>0, <3>5 DEF RunOK, EndPlan
    <3>6. CASE EndBatch
      BY <1>0, <3>6 DEF RunOK, EndBatch
    <3>7. CASE StartDeletions
      BY <1>0, <3>7 DEF RunOK, StartDeletions
    <3>8. CASE Finish
      BY <1>0, <3>8 DEF RunOK, Finish, RunForgotten
    <3> QED
      BY <1>1, <3>1, <3>2, <3>3, <3>4, <3>5, <3>6, <3>7, <3>8, <3>9, <3>10 DEF Phases
  <2> QED
    BY <1>0, <2>1, <2>2, <2>3
<1>2. ASSUME NEW r \in todo, PlanResource(r)
      PROVE  WorldOK' /\ DiskOK' /\ RowsOK' /\ (artifacts \subseteq Artifact)' /\ RunOK'
  <2>0. r \in Resource /\ PlannerInv
    BY <1>0 DEF RunOK, PlannerInv
  <2>1. /\ DiskOK' /\ (artifacts \subseteq Artifact)'
        /\ UNCHANGED <<outsideVars, failed, renewed, events>>
    BY <1>0, <1>2 DEF PlanResource, DiskOK
  <2>2. CASE Raise
    <3>1. DOMAIN reserved' = {}
      BY <2>2 DEF Raise
    <3>2. WorldOK'
      BY <1>0, <2>1, <2>2 DEF WorldOK, Raise, RunForgotten
    <3>3. RowsOK'
      BY <1>0, <2>2 DEF RowsOK, Raise
    <3> QED
      BY <1>0, <2>1, <2>2, <3>1, <3>2, <3>3 DEF RunOK, Raise, RunForgotten
  <2>3. ASSUME NEW p \in Path, NEW stage \in {"skip", "get", "repair"}, Reserve(r, p, stage)
        PROVE  RunOK' /\ swayed' \in BOOLEAN /\ settled' \in BOOLEAN
    <3>1. tasks' \subseteq Task
      <4>1. [resource |-> r, path |-> p, stage |-> stage] \in Task
        BY <2>0, NewTask DEF Stages
      <4> QED
        BY <1>0, <2>3, <4>1 DEF RunOK, Reserve
    <3>2. /\ DOMAIN reserved' = DOMAIN reserved \cup {p}
          /\ \A q \in DOMAIN reserved' : reserved'[q] \in Resource
      BY <1>0, <2>0, <2>3 DEF Put, RunOK, Reserve
    <3>3. swayed' \in BOOLEAN /\ settled' \in BOOLEAN
      BY <1>0, <2>3 DEF WorldOK, Reserve
    <3> QED
      BY <1>0, <2>3, <3>1, <3>2, <3>3 DEF RunOK, Reserve
  <2>4. ASSUME NEW p \in Path, NEW stage \in {"skip", "get", "repair"}, PlansRow(r, p, stage)
        PROVE  WorldOK' /\ RowsOK' /\ RunOK'
    <3>1. Reserve(r, p, stage) /\ UNCHANGED <<row, foreign>>
      BY <2>4 DEF PlansRow, Plan
    <3>2. RunOK' /\ swayed' \in BOOLEAN /\ settled' \in BOOLEAN
      BY <2>3, <3>1
    <3> QED
      BY <1>0, <2>1, <3>1, <3>2 DEF WorldOK, RowsOK
  <2>5. ASSUME NEW p \in Path, Adopts(r, p) PROVE WorldOK' /\ RowsOK' /\ RunOK'
    <3>1. Reserve(r, p, "skip")
      BY <2>5 DEF Adopts, Adopt
    <3>2. RunOK' /\ swayed' \in BOOLEAN /\ settled' \in BOOLEAN
      BY <2>3, <3>1
    <3>3. foreign' \in BOOLEAN
      BY <1>0, <2>5 DEF Adopts, Adopt, WorldOK
    <3>4. RowsOK'
      <4>1. disk[p] \in Content
        BY <2>5, FileContent DEF Adopts, Given
      <4>2. [path |-> p, content |-> disk[p], status |-> "VERIFIED"] \in Entry
        BY <4>1, NewEntry
      <4>3. \/ UNCHANGED row
            \/ row' = Put(row, r, [path |-> p, content |-> disk[p], status |-> "VERIFIED"])
        BY <2>5 DEF Adopts, Adopt
      <4> QED
        BY <1>0, <2>0, <4>2, <4>3 DEF Put, RowsOK
    <3> QED
      BY <1>0, <2>1, <3>2, <3>3, <3>4 DEF WorldOK
  <2> QED
    BY <1>2, <2>0, <2>1, <2>2, <2>4, <2>5, PlannerSteps
<1>3. ASSUME NEW t \in tasks, NEW stage \in Stages
      PROVE  AtStage(t, stage) \subseteq Task /\ tasks \ {t} \subseteq Task
  BY <1>0, TaskFields DEF RunOK, AtStage
<1>4. ASSUME NEW t \in tasks, NEW p \in Path, NEW c \in Content
      PROVE  Artifacts(t, p, c) \subseteq Artifact
  <2>1. t.resource \in Resource
    BY <1>0, TaskFields DEF RunOK, Stages
  <2>2. [resource |-> t.resource, path |-> p, content |-> c, status |-> "VERIFIED"] \in Artifact
    BY <2>1, NewArtifact
  <2> QED
    BY <1>0, <2>2 DEF Artifacts
<1>5. ASSUME NEW t \in tasks
      PROVE  /\ t.resource \in Resource /\ t.path \in Path
             /\ JpegTarget(t.path) \in Path
  BY <1>0, TaskFields, JpegTargetIsFree DEF RunOK, Stages, FiniteInv
<1>6. ASSUME NEW t \in tasks, Fetch(t)
      PROVE  WorldOK' /\ DiskOK' /\ RowsOK' /\ (artifacts \subseteq Artifact)' /\ RunOK'
  <2>1. Original(t.resource) \in Content
    BY <1>5, Contents
  <2>2. DiskOK'
    BY <1>0, <1>5, <1>6, <2>1 DEF Put, DiskOK, Fetch
  <2>3. RowsOK'
    <3>1. [path |-> t.path, content |-> Original(t.resource), status |-> "VERIFIED"] \in Entry
      BY <1>5, <2>1, NewEntry
    <3> QED
      BY <1>0, <1>5, <1>6, <3>1 DEF Put, RowsOK, Fetch
  <2>4. AtStage(t, "fetched") \subseteq Task
    BY <1>3 DEF Stages
  <2> QED
    BY <1>0, <1>6, <2>2, <2>3, <2>4 DEF Fetch, WorkStep, WorldOK, RunOK
<1>7. ASSUME NEW t \in tasks, LookForJpeg(t)
      PROVE  WorldOK' /\ DiskOK' /\ RowsOK' /\ (artifacts \subseteq Artifact)' /\ RunOK'
  <2>1. (artifacts \subseteq Artifact)'
    <3>1. IsFile(JpegTarget(t.path)) => disk[JpegTarget(t.path)] \in Content
      BY FileContent
    <3> QED
      BY <1>0, <1>4, <1>5, <1>7, <3>1 DEF LookForJpeg
  <2>2. tasks' \subseteq Task
    BY <1>3, <1>7 DEF LookForJpeg, Stages
  <2> QED
    BY <1>0, <1>7, <2>1, <2>2 DEF LookForJpeg, WorkStep, WorldOK, DiskOK, RowsOK, RunOK
<1>8. ASSUME NEW t \in tasks, Convert(t)
      PROVE  WorldOK' /\ DiskOK' /\ RowsOK' /\ (artifacts \subseteq Artifact)' /\ RunOK'
  <2>1. JpegOf(disk[t.path]) \in Content
    BY <1>8, SourceOfTask, Contents DEF Convert
  <2>2. DiskOK'
    BY <1>0, <1>5, <1>8, <2>1 DEF Put, DiskOK, Convert
  <2>3. (artifacts \subseteq Artifact)'
    BY <1>4, <1>5, <1>8, <2>1 DEF Convert
  <2>4. tasks' \subseteq Task
    BY <1>0, <1>8 DEF Convert, RunOK
  <2>5. made' \subseteq Path
    BY <1>0, <1>5, <1>8 DEF Convert, RunOK
  <2>6. UNCHANGED <<pc, queue, limited, todo, reserved, protected, victims, planned, promise>>
    BY <1>8 DEF Convert, WorkStep
  <2>7. WorldOK' /\ RowsOK'
    BY <1>0, <1>8 DEF Convert, WorkStep, WorldOK, RowsOK
  <2> QED
    BY <1>0, <2>2, <2>3, <2>4, <2>5, <2>6, <2>7 DEF RunOK
<1>9. ASSUME NEW t \in tasks, TaskFails(t)
      PROVE  WorldOK' /\ DiskOK' /\ RowsOK' /\ (artifacts \subseteq Artifact)' /\ RunOK'
  <2>1. events' \in 0..MaxEvents
    BY <1>0, <1>9, ConstantsAssumption DEF TaskFails, Event, WorldOK
  <2> QED
    BY <1>0, <1>9, <2>1 DEF TaskFails, WorkStep, WorldOK, DiskOK, RowsOK, RunOK
<1>10. ASSUME NEW a \in Asset, DeleteFiles(a)
       PROVE  WorldOK' /\ DiskOK' /\ RowsOK' /\ (artifacts \subseteq Artifact)' /\ RunOK'
  <2>1. WorldOK' /\ RunOK'
    BY <1>0, <1>10 DEF DeleteFiles, WorldOK, RunOK
  <2>2. CASE Refused(a)
    BY <1>0, <1>10, <2>1, <2>2 DEF DeleteFiles, DiskOK, RowsOK
  <2>3. CASE ~Refused(a)
    <3>1. DiskOK'
      BY <1>0, <1>10, <2>3 DEF DeleteFiles, DiskOK
    <3>2. RowsOK'
      BY <1>0, <1>10, <2>3, MarkedEntry DEF DeleteFiles, RowsOK
    <3>3. (artifacts \subseteq Artifact)'
      BY <1>0, <1>10, <2>3, MarkedArtifact DEF DeleteFiles
    <3> QED
      BY <2>1, <3>1, <3>2, <3>3
  <2> QED
    BY <2>2, <2>3
<1>11. ASSUME OutsideStep
       PROVE  /\ RunOK'
              /\ config' \in Configs /\ renewed' \in BOOLEAN
                 /\ remote' \in [Asset -> {"absent", "active", "deleted"}] => WorldOK'
  <2>1. RunOK' /\ UNCHANGED <<failed, foreign, swayed>> /\ settled' \in BOOLEAN
    BY <1>0, <1>11 DEF OutsideStep, RunOK
  <2>2. events' \in 0..MaxEvents
    BY <1>0, <1>11, ConstantsAssumption DEF OutsideStep, Event, WorldOK
  <2> QED
    BY <1>0, <2>1, <2>2 DEF WorldOK
<1>12. ASSUME NEW a \in Asset, RemoteChange(a)
       PROVE  WorldOK' /\ DiskOK' /\ RowsOK' /\ (artifacts \subseteq Artifact)' /\ RunOK'
  BY <1>0, <1>11, <1>12 DEF RemoteChange, WorldOK, DiskOK, RowsOK
<1>13. ASSUME NEW c \in Configs, ChangeConfig(c)
       PROVE  WorldOK' /\ DiskOK' /\ RowsOK' /\ (artifacts \subseteq Artifact)' /\ RunOK'
  BY <1>0, <1>11, <1>13 DEF ChangeConfig, WorldOK, DiskOK, RowsOK
<1>14. ASSUME UserPuts
       PROVE  WorldOK' /\ DiskOK' /\ RowsOK' /\ (artifacts \subseteq Artifact)' /\ RunOK'
  <2>1. PICK name \in UserNames, c \in {UserFile, Directory} :
          disk' = Put(disk, InDestination(name[1], name[2]), c)
    BY <1>14 DEF UserPuts
  <2>2. InDestination(name[1], name[2]) \in Path
    BY ConstantsAssumption DEF InDestination, Path
  <2>3. DiskOK'
    BY <1>0, <2>1, <2>2, Contents DEF Put, DiskOK
  <2> QED
    BY <1>0, <1>11, <1>14, <2>3 DEF UserPuts, WorldOK, RowsOK
<1>15. ASSUME NEW p \in DOMAIN disk, UserRemoves(p)
       PROVE  WorldOK' /\ DiskOK' /\ RowsOK' /\ (artifacts \subseteq Artifact)' /\ RunOK'
  BY <1>0, <1>11, <1>15 DEF UserRemoves, WorldOK, DiskOK, RowsOK
<1>16. CASE LoseDatabase
  BY <1>0, <1>11, <1>16 DEF LoseDatabase, WorldOK, DiskOK, RowsOK
<1>17. CASE UNCHANGED vars
  BY <1>0, <1>17 DEF vars, WorldOK, DiskOK, RowsOK, RunOK
<1> QED
  BY <1>1, <1>2, <1>6, <1>7, <1>8, <1>9, <1>10, <1>12, <1>13, <1>14, <1>15, <1>16, <1>17
     DEF Next, Phases

\* A map stays finite with one more entry.
LEMMA FinitePut ==
  ASSUME NEW f, NEW k, NEW v, IsFiniteSet(DOMAIN f)
  PROVE  IsFiniteSet(DOMAIN Put(f, k, v))
<1>1. DOMAIN Put(f, k, v) = DOMAIN f \cup {k}
  BY DEF Put
<1> QED
  BY <1>1, FS_AddElement

\* Every step leaves finitely many paths in use; those of the tasks are reserved.
LEMMA FiniteStep ==
  ASSUME FiniteInv, TaskInv, [Next]_vars
  PROVE  FiniteInv'
<1> USE DEF outsideVars, rowVars, planVars, workVars, historyVars
<1>1. IsFiniteSet(DOMAIN disk')
  <2>1. ASSUME NEW p, NEW c, disk' = Put(disk, p, c) PROVE IsFiniteSet(DOMAIN disk')
    BY <2>1, FinitePut DEF FiniteInv
  <2>2. ASSUME DOMAIN disk' \subseteq DOMAIN disk PROVE IsFiniteSet(DOMAIN disk')
    BY <2>2, FS_Subset DEF FiniteInv
  <2>3. \/ UNCHANGED disk \/ DOMAIN disk' \subseteq DOMAIN disk
        \/ \E p, c : disk' = Put(disk, p, c)
    <3>1. CASE Phases
      BY <3>1, PhasesKeepData
    <3>2. CASE \E r \in todo : PlanResource(r)
      BY <3>2 DEF PlanResource
    <3>3. CASE \E t \in tasks : Fetch(t) \/ LookForJpeg(t) \/ Convert(t) \/ TaskFails(t)
      BY <3>3 DEF Fetch, LookForJpeg, Convert, TaskFails
    <3>4. CASE \E a \in Asset : DeleteFiles(a) \/ RemoteChange(a)
      BY <3>4 DEF DeleteFiles, RemoteChange
    <3>5. CASE \E c \in Configs : ChangeConfig(c)
      BY <3>5 DEF ChangeConfig
    <3>6. CASE UserPuts \/ LoseDatabase
      BY <3>6 DEF UserPuts, LoseDatabase
    <3>7. CASE \E p \in DOMAIN disk : UserRemoves(p)
      BY <3>7 DEF UserRemoves
    <3>8. CASE UNCHANGED vars
      BY <3>8 DEF vars
    <3> QED
      BY <3>1, <3>2, <3>3, <3>4, <3>5, <3>6, <3>7, <3>8 DEF Next, Phases
  <2> QED
    BY <2>1, <2>2, <2>3
<1>2. IsFiniteSet(DOMAIN reserved') /\ IsFiniteSet(protected')
  <2>1. ASSUME NEW r, NEW p, NEW stage, Reserve(r, p, stage)
        PROVE  IsFiniteSet(DOMAIN reserved') /\ IsFiniteSet(protected')
    BY <2>1, FinitePut DEF Reserve, FiniteInv
  <2>2. CASE EndPlan
    <3>1. protected' \subseteq DOMAIN reserved
      BY <2>2 DEF EndPlan, TaskInv
    <3> QED
      BY <2>2, <3>1, FS_Subset DEF EndPlan, FiniteInv
  <2>3. IsFiniteSet(DOMAIN <<>>) /\ IsFiniteSet({})
    BY FS_EmptySet
  <2>4. CASE Phases /\ ~EndPlan
    BY <2>3, <2>4 DEF FiniteInv, Phases, Preview, SelectAsset, EndPreview, StartRun, EndLook,
       PlanBatch, EndBatch, StartDeletions, Finish
  <2>5. CASE Raise
    BY <2>3, <2>5 DEF Raise
  <2>6. CASE \E r \in todo : PlanResource(r)
    BY <2>1, <2>5, <2>6 DEF PlanResource, PlanTracked, PlanUntracked, Plan, Adopt
  <2>7. CASE \E t \in tasks : Fetch(t) \/ LookForJpeg(t) \/ Convert(t) \/ TaskFails(t)
    BY <2>7 DEF FiniteInv, Fetch, LookForJpeg, Convert, TaskFails, WorkStep
  <2>8. CASE \E a \in Asset : DeleteFiles(a)
    BY <2>8 DEF FiniteInv, DeleteFiles
  <2>9. CASE OutsideStep
    BY <2>9 DEF FiniteInv, OutsideStep
  <2>10. CASE UNCHANGED vars
    BY <2>10 DEF FiniteInv, vars
  <2> QED
    BY <2>2, <2>4, <2>6, <2>7, <2>8, <2>9, <2>10
       DEF Next, Phases, RemoteChange, ChangeConfig, UserPuts, UserRemoves, LoseDatabase
<1> QED
  BY <1>1, <1>2 DEF FiniteInv

\* The steps in groups.
LEMMA OutsideSteps ==
  [Next]_vars =>
    \/ Phases \/ \E r \in todo : PlanResource(r)
    \/ \E t \in tasks : Fetch(t) \/ LookForJpeg(t) \/ Convert(t) \/ TaskFails(t)
    \/ \E a \in Asset : DeleteFiles(a)
    \/ OutsideStep \/ UNCHANGED vars
BY DEF Next, Phases, RemoteChange, ChangeConfig, UserPuts, UserRemoves, LoseDatabase

\* A phase ends with what it was about: the resources, the tasks or the batches.
LEMMA ControlStep ==
  ASSUME ControlInv, [Next]_vars
  PROVE  ControlInv'
<1> USE DEF outsideVars, rowVars, planVars, workVars, historyVars
<1>1. CASE Phases
  BY <1>1 DEF ControlInv, Phases, Preview, SelectAsset, EndPreview, StartRun, EndLook, PlanBatch,
     EndPlan, EndBatch, StartDeletions, Finish
<1>2. ASSUME NEW r \in todo, PlanResource(r) PROVE ControlInv'
  <2>1. CASE Raise
    BY <2>1 DEF ControlInv, Raise
  <2>2. ASSUME NEW p, NEW stage \in {"skip", "get", "repair"}, Reserve(r, p, stage)
        PROVE  ControlInv'
    <3>1. pc \in {"preview", "look", "build"} /\ UNCHANGED <<pc, queue, limited>>
      BY <1>2, <2>2 DEF PlanResource, Reserve
    <3>2. \A t \in tasks' : t.stage \in {"skip", "get", "repair"}
      BY <2>2, <3>1 DEF ControlInv, Reserve
    <3> QED
      BY <3>1, <3>2 DEF ControlInv
  <2> QED
    BY <1>2, <2>1, <2>2 DEF PlanResource, PlanTracked, PlanUntracked, Plan, Adopt
<1>3. CASE \E t \in tasks : Fetch(t) \/ LookForJpeg(t) \/ Convert(t) \/ TaskFails(t)
  BY <1>3 DEF ControlInv, Fetch, LookForJpeg, Convert, TaskFails, WorkStep
<1>4. CASE \E a \in Asset : DeleteFiles(a)
  BY <1>4 DEF ControlInv, DeleteFiles
<1>5. CASE OutsideStep
  BY <1>5 DEF ControlInv, OutsideStep
<1>6. CASE UNCHANGED vars
  BY <1>6 DEF ControlInv, vars
<1> QED
  BY <1>1, <1>2, <1>3, <1>4, <1>5, <1>6, OutsideSteps

\* A path is assigned once; an asset's resources are planned in one batch of a run.
LEMMA ReservedStep ==
  ASSUME PlannerInv, ControlInv, [Next]_vars
  PROVE  ReservedInv'
<1> USE DEF PlannerInv, outsideVars, rowVars, planVars, workVars, historyVars, Fits
<1>1. CASE Phases
  <2>1. CASE Preview \/ StartRun
    BY <2>1 DEF ReservedInv, ControlInv, Preview, StartRun
  <2>2. CASE EndPreview \/ EndLook \/ Finish
    BY <2>2 DEF ReservedInv, ControlInv, EndPreview, EndLook, Finish
  <2>3. ASSUME NEW n, todo' = ResourcesOf(Newest(queue, n)), queue' = queue \ Newest(queue, n),
               UNCHANGED reserved
        PROVE  ReservedInv'
    <3>1. \A r \in todo' : r.asset \in Newest(queue, n)
      BY <2>3 DEF ResourcesOf
    <3>2. Newest(queue, n) \subseteq queue
      BY DEF Newest
    <3> QED
      BY <2>3, <3>1, <3>2 DEF ReservedInv
  <2>5. CASE SelectAsset \/ PlanBatch
    BY <2>3, <2>5 DEF SelectAsset, PlanBatch
  <2>4. CASE EndPlan \/ EndBatch \/ StartDeletions
    BY <2>4 DEF ReservedInv, EndPlan, EndBatch, StartDeletions
  <2> QED
    BY <1>1, <2>1, <2>2, <2>4, <2>5 DEF Phases
<1>2. ASSUME NEW r \in todo, PlanResource(r) PROVE ReservedInv'
  <2>0. r \in Resource
    BY DEF TypeOK
  <2>1. CASE Raise
    BY <2>1 DEF ReservedInv, Raise
  <2>2. ASSUME NEW p, NEW stage, Reserve(r, p, stage), Given(r, p, stage)
        PROVE  ReservedInv'
    <3>1. /\ DOMAIN reserved' = DOMAIN reserved \cup {p} /\ reserved'[p] = r
          /\ \A q \in DOMAIN reserved : reserved'[q] = reserved[q] /\ reserved[q] # r
      BY <2>2 DEF Reserve, Given, Put, ReservedInv
    <3>2. UNCHANGED queue /\ todo' = todo \ {r}
      BY <2>2 DEF Reserve
    <3>3. r.asset \notin queue /\ Fits(p, r.asset)
      BY <2>2 DEF ReservedInv, Given
    <3> QED
      BY <3>1, <3>2, <3>3 DEF ReservedInv
  <2> QED
    BY <1>2, <2>0, <2>1, <2>2, PlannerSteps DEF PlansRow, Adopts, Plan, Adopt
<1>3. CASE \E t \in tasks : Fetch(t) \/ LookForJpeg(t) \/ Convert(t) \/ TaskFails(t)
  BY <1>3 DEF ReservedInv, Fetch, LookForJpeg, Convert, TaskFails, WorkStep
<1>4. CASE \E a \in Asset : DeleteFiles(a)
  BY <1>4 DEF ReservedInv, DeleteFiles
<1>5. CASE OutsideStep
  BY <1>5 DEF ReservedInv, OutsideStep
<1>6. CASE UNCHANGED vars
  BY <1>6 DEF ReservedInv, vars
<1> QED
  BY <1>1, <1>2, <1>3, <1>4, <1>5, <1>6, OutsideSteps

\* Fields of a task of the state.
LEMMA TaskOfState ==
  ASSUME TypeOK, NEW t \in tasks
  PROVE  t \in Task /\ t.resource \in Resource /\ t.path \in Path /\ t.stage \in Stages
<1>1. t \in Task
  BY TypeParts DEF RunOK
<1> QED
  BY <1>1 DEF Task

\* A file written is a file, the others stay what they were.
LEMMA FileWritten ==
  ASSUME NEW q, NEW c \in Content, disk' = Put(disk, q, c), NEW p
  PROVE  /\ IsFile(p)' <=> p = q \/ IsFile(p)
         /\ p # q => At(p)' = At(p)
BY Contents DEF IsFile, At, Put

\* Downloads and adoptions go where originals go, conversions write JPEGs.
LEMMA PlaceStep ==
  ASSUME PlannerInv, ControlInv, TaskInv, [Next]_vars
  PROVE  PlaceInv'
<1> USE DEF PlannerInv, outsideVars, rowVars, planVars, workVars, historyVars
<1>0. /\ DOMAIN disk \subseteq Path
      /\ \A p \in DOMAIN disk : disk[p] \in Content \cup {Directory}
      /\ DOMAIN row \subseteq Resource /\ \A r \in DOMAIN row : row[r] \in Entry
      /\ todo \subseteq Resource
  BY TypeParts DEF DiskOK, RowsOK, RunOK
<1>1. CASE Phases
  BY <1>1, PhasesKeepData DEF PlaceInv, Fits
<1>2. ASSUME NEW r \in todo, PlanResource(r) PROVE PlaceInv'
  <2>1. UNCHANGED disk
    BY <1>2 DEF PlanResource
  <2>2. UNCHANGED row \/ \E p \in Path : Adopts(r, p)
    BY <1>0, <1>2, PlannerSteps DEF Raise, PlansRow, Plan
  <2>3. ASSUME NEW p \in Path, Adopts(r, p) PROVE PlaceInv'
    <3>1. Fits(p, r.asset)
      BY <2>3 DEF Adopts, Given
    <3>2. \A x \in DOMAIN row' : Fits(row'[x].path, x.asset)
      BY <2>3, <3>1 DEF Adopts, Adopt, Put, PlaceInv
    <3> QED
      BY <2>1, <3>2 DEF PlaceInv, Fits
  <2> QED
    BY <2>1, <2>2, <2>3 DEF PlaceInv, Fits
<1>3. ASSUME NEW t \in tasks, Fetch(t) PROVE PlaceInv'
  <2>1. t.resource \in Resource /\ Fits(t.path, t.resource.asset)
    BY TaskOfState DEF TaskInv, ReservedInv
  <2>2. \A x \in DOMAIN row' : Fits(row'[x].path, x.asset)
    BY <1>3, <2>1 DEF Fetch, Put, PlaceInv
  <2>3. \A p \in DOMAIN disk', x \in Resource : disk'[p] = Original(x) => Fits(p, x.asset)
    <3> SUFFICES ASSUME NEW p \in DOMAIN disk', NEW x \in Resource, disk'[p] = Original(x)
                 PROVE  Fits(p, x.asset)
      OBVIOUS
    <3>1. CASE p = t.path
      <4>1. Original(x) = Original(t.resource)
        BY <1>3, <3>1 DEF Fetch, Put
      <4> QED
        BY <2>1, <3>1, <4>1, Contents
    <3>2. CASE p # t.path
      BY <1>3, <3>2 DEF Fetch, Put, PlaceInv
    <3> QED
      BY <3>1, <3>2
  <2>4. \A p \in DOMAIN disk' : disk'[p] # Directory /\ disk'[p].kind = "jpeg" => p.ext = "JPG"
    BY <1>3, <2>1, Contents DEF Fetch, Put, PlaceInv
  <2> QED
    BY <2>2, <2>3, <2>4 DEF PlaceInv, Fits
<1>4. ASSUME NEW t \in tasks, Convert(t) PROVE PlaceInv'
  <2> DEFINE q == JpegTarget(t.path)
             c == JpegOf(disk[t.path])
  <2>1. disk[t.path] \in Sources
    BY <1>4, SourceOfTask DEF Convert
  <2>2. c.kind = "jpeg" /\ \A x \in Resource : c # Original(x)
    BY <2>1, Contents
  <2>3. q.ext = "JPG"
    BY TaskOfState, JpegTargetIsFree DEF FiniteInv
  <2>4. disk' = Put(disk, q, c) /\ UNCHANGED row
    BY <1>4 DEF Convert
  <2> HIDE DEF q, c
  <2> QED
    BY <2>2, <2>3, <2>4 DEF PlaceInv, Fits, Put
<1>5. CASE \E t \in tasks : LookForJpeg(t) \/ TaskFails(t)
  BY <1>5 DEF LookForJpeg, TaskFails, PlaceInv, Fits
<1>6. ASSUME NEW a \in Asset, DeleteFiles(a) PROVE PlaceInv'
  <2>1. /\ DOMAIN row' = DOMAIN row /\ \A r \in DOMAIN row : row'[r].path = row[r].path
    BY <1>0, <1>6, MarkedEntry DEF DeleteFiles
  <2>2. DOMAIN disk' \subseteq DOMAIN disk /\ \A p \in DOMAIN disk' : disk'[p] = disk[p]
    BY <1>6 DEF DeleteFiles
  <2> QED
    BY <2>1, <2>2 DEF PlaceInv, Fits
<1>7. CASE UserPuts
  <2>1. PICK name \in UserNames, c \in {UserFile, Directory} :
          disk' = Put(disk, InDestination(name[1], name[2]), c) /\ UNCHANGED row
    BY <1>7 DEF UserPuts
  <2>2. c # Directory => c.kind # "jpeg"
    BY Contents
  <2>3. \A x \in Resource : c # Original(x)
    BY Contents
  <2> QED
    BY <2>1, <2>2, <2>3 DEF PlaceInv, Fits, Put
<1>8. ASSUME NEW p \in DOMAIN disk, UserRemoves(p) PROVE PlaceInv'
  BY <1>8 DEF UserRemoves, PlaceInv, Fits
<1>11. CASE LoseDatabase
  <2>1. row' = <<>> /\ UNCHANGED disk
    BY <1>11 DEF LoseDatabase
  <2>2. DOMAIN row' = {}
    BY <2>1
  <2> QED
    BY <2>1, <2>2 DEF PlaceInv, Fits
<1>9. CASE (\E a \in Asset : RemoteChange(a)) \/ (\E c \in Configs : ChangeConfig(c))
  BY <1>9 DEF RemoteChange, ChangeConfig, PlaceInv, Fits
<1>10. CASE UNCHANGED vars
  BY <1>10 DEF vars, PlaceInv, Fits
<1> QED
  BY <1>1, <1>2, <1>3, <1>4, <1>5, <1>6, <1>7, <1>8, <1>9, <1>10, <1>11 DEF Next, Phases

\* The tasks of a batch have each their path, and a JPEG being made has its own.
LEMMA TaskStep ==
  ASSUME PlannerInv, ControlInv, TaskInv, [Next]_vars
  PROVE  TaskInv'
<1> USE DEF PlannerInv, outsideVars, rowVars, planVars, workVars, historyVars, HasFile
<1>0. todo \subseteq Resource
  BY TypeParts DEF RunOK
<1>1. ASSUME tasks' = {} PROVE TaskInv'
  BY <1>1 DEF TaskInv
<1>2. CASE Phases
  <2>1. CASE EndPlan
    <3>1. \A t \in tasks : t.stage \in {"skip", "get", "repair"} /\ t.path \in protected'
      BY <2>1 DEF EndPlan, ControlInv
    <3> QED
      BY <2>1, <3>1 DEF EndPlan, TaskInv, IsFile, At
  <2>2. CASE SelectAsset
    BY <2>2 DEF SelectAsset, TaskInv, IsFile, At
  <2>3. CASE Phases /\ ~EndPlan /\ ~SelectAsset
    BY <1>1, <2>3 DEF ControlInv, Phases, Preview, EndPreview, StartRun, EndLook, PlanBatch,
       EndBatch, StartDeletions, Finish
  <2> QED
    BY <1>2, <2>1, <2>2, <2>3
<1>3. ASSUME NEW r \in todo, PlanResource(r) PROVE TaskInv'
  <2>1. CASE Raise
    BY <1>1, <2>1 DEF Raise
  <2>2. ASSUME NEW p, NEW stage \in {"skip", "get", "repair"}, Reserve(r, p, stage),
               Given(r, p, stage)
        PROVE  TaskInv'
    <3> DEFINE new == [resource |-> r, path |-> p, stage |-> stage]
    <3>1. /\ reserved'[p] = r /\ p \in DOMAIN reserved'
          /\ \A q \in DOMAIN reserved :
               q \in DOMAIN reserved' /\ reserved'[q] = reserved[q] /\ reserved[q] # r
      BY <2>2 DEF Reserve, Given, Put, ReservedInv
    <3>2. tasks' = tasks \cup {new}
      BY <2>2 DEF Reserve
    <3>3. \A q : IsFile(q)' <=> IsFile(q)
      BY <1>3 DEF PlanResource, IsFile, At
    <3>4. pc' # "work" /\ \A t \in tasks : t.stage \in {"skip", "get", "repair"}
      BY <1>3, <2>2 DEF PlanResource, Reserve, ControlInv
    <3>5. new.resource = r /\ new.path = p /\ new.stage = stage
      OBVIOUS
    <3>6. (stage = "skip" => IsFile(p)) /\ (stage = "get" => ~IsFile(p))
      BY <2>2 DEF Given
    <3> HIDE DEF new
    <3>7. \A t, u \in tasks' : t.resource = u.resource => t = u
      BY <3>1, <3>2, <3>5 DEF TaskInv
    <3>8. ASSUME NEW t \in tasks'
          PROVE  /\ t.path \in DOMAIN reserved' /\ reserved'[t.path] = t.resource
                 /\ t.stage \in {"skip", "get", "repair"}
                 /\ t.stage = "skip" => IsFile(t.path)'
                 /\ t.stage = "get" => ~IsFile(t.path)'
      <4>1. CASE t = new
        BY <3>1, <3>3, <3>5, <3>6, <4>1
      <4>2. CASE t \in tasks
        BY <3>1, <3>3, <3>4, <4>2 DEF TaskInv
      <4> QED
        BY <3>2, <4>1, <4>2
    <3> QED
      BY <3>4, <3>7, <3>8 DEF TaskInv
  <2> QED
    BY <1>0, <1>3, <2>1, <2>2, PlannerSteps DEF PlansRow, Adopts, Plan, Adopt
<1>4. ASSUME pc = "work", UNCHANGED <<pc, reserved, protected, config>>,
             NEW t \in tasks
      PROVE  /\ t.path \in protected
             /\ \A u \in tasks : u # t => u.path # t.path
             /\ JpegTarget(t.path)' = JpegTarget(t.path)
             /\ JpegTarget(t.path) \notin protected
  <2>1. t.path \in protected /\ \A u \in tasks : u # t => u.path # t.path
    BY <1>4 DEF TaskInv
  <2>2. JpegTarget(t.path)' = JpegTarget(t.path)
    BY <1>4 DEF JpegTarget, JpegPath
  <2>3. JpegTarget(t.path) \notin protected
    BY TaskOfState, JpegTargetIsFree DEF FiniteInv
  <2> QED
    BY <2>1, <2>2, <2>3
<1>5. ASSUME NEW t \in tasks, Fetch(t) PROVE TaskInv'
  <2>1. /\ pc = "work" /\ UNCHANGED <<pc, reserved, protected, config>>
        /\ disk' = Put(disk, t.path, Original(t.resource)) /\ tasks' = AtStage(t, "fetched")
    BY <1>5 DEF Fetch, WorkStep
  <2>2. \A q : IsFile(q)' <=> q = t.path \/ IsFile(q)
    BY <2>1, TaskOfState, Contents, FileWritten
  <2> DEFINE new == [t EXCEPT !.stage = "fetched"]
  <2>3. /\ tasks' = (tasks \ {t}) \cup {new}
        /\ new.resource = t.resource /\ new.path = t.path /\ new.stage = "fetched"
    BY <2>1, TaskOfState, TaskFields DEF AtStage, Stages
  <2> HIDE DEF new
  <2>4. \A x, y \in tasks' : x.resource = y.resource => x = y
    BY <2>3 DEF TaskInv
  <2>5. ASSUME NEW u \in tasks'
        PROVE  /\ u.path \in DOMAIN reserved' /\ reserved'[u.path] = u.resource
               /\ u.path \in protected'
               /\ u.stage \in HasFile => IsFile(u.path)'
               /\ u.stage = "get" => ~IsFile(u.path)'
               /\ u.stage \in {"kept", "converting"} =>
                    u.path.ext \in HeicExtensions
    <3>1. CASE u = new
      BY <1>4, <2>1, <2>2, <2>3, <3>1 DEF TaskInv
    <3>2. CASE u \in tasks \ {t}
      <4>1. u.path # t.path
        BY <1>4, <2>1, <3>2
      <4> QED
        BY <2>1, <2>2, <3>2, <4>1 DEF TaskInv
    <3> QED
      BY <2>3, <3>1, <3>2
  <2> QED
    BY <2>4, <2>5 DEF TaskInv
<1>6. ASSUME NEW t \in tasks, LookForJpeg(t) PROVE TaskInv'
  <2>1. pc = "work" /\ UNCHANGED <<pc, reserved, protected, config, disk>>
    BY <1>6 DEF LookForJpeg, WorkStep
  <2>3. \A q : IsFile(q)' <=> IsFile(q)
    BY <2>1 DEF IsFile, At
  <2>5. CASE tasks' = tasks \ {t}
    BY <2>1, <2>3, <2>5 DEF TaskInv
  <2>6. ASSUME NEW stage \in {"kept", "converting"}, tasks' = AtStage(t, stage),
               WantsJpeg(t), t.stage \in {"skip", "fetched"}
        PROVE  TaskInv'
    <3> DEFINE new == [t EXCEPT !.stage = stage]
    <3>1. /\ tasks' = (tasks \ {t}) \cup {new}
          /\ new.resource = t.resource /\ new.path = t.path /\ new.stage = stage
      BY <2>6, TaskOfState, TaskFields DEF AtStage, Stages
    <3>2. t.path.ext \in HeicExtensions
      BY <2>6 DEF WantsJpeg
    <3> HIDE DEF new
    <3>4. \A x, y \in tasks' : x.resource = y.resource => x = y
      BY <3>1 DEF TaskInv
    <3>5. ASSUME NEW u \in tasks'
          PROVE  /\ u.path \in DOMAIN reserved' /\ reserved'[u.path] = u.resource
                 /\ u.path \in protected'
                 /\ u.stage \in HasFile => IsFile(u.path)'
                 /\ u.stage = "get" => ~IsFile(u.path)'
                 /\ u.stage \in {"kept", "converting"} =>
                      u.path.ext \in HeicExtensions
      <4>1. CASE u = new
        BY <2>1, <2>3, <2>6, <3>1, <3>2, <4>1 DEF TaskInv
      <4>2. CASE u \in tasks \ {t}
        BY <2>1, <2>3, <4>2 DEF TaskInv
      <4> QED
        BY <3>1, <4>1, <4>2
    <3> QED
      BY <3>4, <3>5 DEF TaskInv
  <2> QED
    BY <1>6, <2>5, <2>6 DEF LookForJpeg
<1>7. ASSUME NEW t \in tasks, Convert(t) PROVE TaskInv'
  <2> DEFINE q == JpegTarget(t.path)
  <2>1. /\ pc = "work" /\ UNCHANGED <<pc, reserved, protected, config>>
        /\ disk' = Put(disk, q, JpegOf(disk[t.path])) /\ tasks' = tasks \ {t}
        /\ t.stage \in {"kept", "converting"}
    BY <1>7 DEF Convert, WorkStep
  <2>2. JpegOf(disk[t.path]) \in Content
    BY <2>1, SourceOfTask, Contents
  <2>3. q \notin protected
    BY <1>4, <2>1
  <2> HIDE DEF q
  <2>5. \A p : IsFile(p)' <=> p = q \/ IsFile(p)
    BY <2>1, <2>2, FileWritten
  <2>7. \A u \in tasks : u.path # q
    BY <1>4, <2>1, <2>3
  <2> QED
    BY <2>1, <2>5, <2>7 DEF TaskInv
<1>8. ASSUME NEW t \in tasks, TaskFails(t) PROVE TaskInv'
  <2>1. /\ pc = "work" /\ UNCHANGED <<pc, reserved, protected, config, disk>>
        /\ tasks' = tasks \ {t}
    BY <1>8 DEF TaskFails, WorkStep
  <2>3. \A q : IsFile(q)' <=> IsFile(q)
    BY <2>1 DEF IsFile, At
  <2> QED
    BY <2>1, <2>3 DEF TaskInv
<1>9. CASE \E a \in Asset : DeleteFiles(a)
  BY <1>1, <1>9 DEF ControlInv, DeleteFiles
<1>10. CASE OutsideStep
  BY <1>1, <1>10 DEF ControlInv, OutsideStep
<1>11. CASE UNCHANGED vars
  BY <1>11 DEF vars, TaskInv, IsFile, At
<1> QED
  BY <1>2, <1>3, <1>5, <1>6, <1>7, <1>8, <1>9, <1>10, <1>11, OutsideSteps

\* A path that is tried for a JPEG is tried again, while the batch and the configuration last.
LEMMA TargetsStay ==
  ASSUME UNCHANGED <<protected, config>>
  PROVE  \A p : JpegTarget(p)' = JpegTarget(p)
BY DEF JpegTarget, JpegPath

\* Only the conversion of a twin writes where a conversion is going to.
LEMMA JpegStep ==
  ASSUME PlannerInv, ControlInv, TaskInv, JpegInv, [Next]_vars
  PROVE  JpegInv'
<1> USE DEF PlannerInv, outsideVars, rowVars, planVars, workVars, historyVars
<1>1. ASSUME \A t \in tasks' : t.stage \in {"skip", "get", "repair"} PROVE JpegInv'
  BY <1>1 DEF JpegInv, Making
<1>2. CASE Phases
  <2>1. tasks' \in {{}, tasks}
    BY <1>2 DEF Phases, Preview, SelectAsset, EndPreview, StartRun, EndLook, PlanBatch, EndPlan,
       EndBatch, StartDeletions, Finish
  <2>2. pc \in {"preview", "look", "build"} \/ tasks = {}
    BY <1>2 DEF ControlInv, Phases, Preview, SelectAsset, EndPreview, StartRun, EndLook,
       PlanBatch, EndPlan, EndBatch, StartDeletions, Finish
  <2> QED
    BY <1>1, <2>1, <2>2 DEF ControlInv
<1>3. ASSUME NEW r \in todo, PlanResource(r) PROVE JpegInv'
  <2>1. r \in Resource /\ \A t \in tasks : t.stage \in {"skip", "get", "repair"}
    BY <1>3, TypeParts DEF RunOK, PlanResource, ControlInv
  <2>2. CASE Raise
    BY <1>1, <2>2 DEF Raise
  <2>3. ASSUME NEW p, NEW stage \in {"skip", "get", "repair"}, Reserve(r, p, stage)
        PROVE  JpegInv'
    <3>1. \A t \in tasks' : t.stage \in {"skip", "get", "repair"}
      BY <2>1, <2>3 DEF Reserve
    <3> QED
      BY <1>1, <3>1
  <2> QED
    BY <1>3, <2>1, <2>2, <2>3, PlannerSteps DEF PlansRow, Adopts, Plan, Adopt
<1>4. ASSUME NEW t \in tasks, Fetch(t) PROVE JpegInv'
  <2> DEFINE new == [t EXCEPT !.stage = "fetched"]
  <2>1. /\ pc = "work" /\ UNCHANGED <<protected, config, made>>
        /\ disk' = Put(disk, t.path, Original(t.resource)) /\ tasks' = AtStage(t, "fetched")
        /\ \A u \in tasks : u.stage # "skip" /\ u.stage # "kept"
    BY <1>4 DEF Fetch, WorkStep
  <2>2. tasks' = (tasks \ {t}) \cup {new} /\ new.stage = "fetched"
    BY <2>1, TaskOfState, TaskFields DEF AtStage, Stages
  <2> HIDE DEF new
  <2>3. t.path \in protected
    BY <2>1 DEF TaskInv
  <2>4. ASSUME NEW u \in Making', IsFile(JpegTarget(u.path))'
        PROVE  u \in Making /\ JpegTarget(u.path)' = JpegTarget(u.path)
               /\ IsFile(JpegTarget(u.path))
    <3>1. u \in Making
      BY <2>2 DEF Making
    <3>2. JpegTarget(u.path)' = JpegTarget(u.path)
      BY <2>1, TargetsStay
    <3>3. JpegTarget(u.path) # t.path
      BY <2>3, <3>1, TaskOfState, JpegTargetIsFree DEF FiniteInv, Making
    <3> QED
      BY <2>1, <2>4, <3>1, <3>2, <3>3, TaskOfState, Contents DEF IsFile, At, Put
  <2>5. \A x, u \in tasks' :
          x.stage \in {"skip", "kept"} => u.stage \notin {"fetched", "converting"}
    BY <2>1, <2>2
  <2>6. \A x, u \in Making' : x.stage = "kept" => x = u
    BY <2>1, <2>2 DEF Making
  <2> QED
    BY <2>1, <2>4, <2>5, <2>6 DEF JpegInv
<1>5. ASSUME NEW t \in tasks, LookForJpeg(t) PROVE JpegInv'
  <2>1. UNCHANGED <<protected, config, disk, made>> /\ t.stage \in {"skip", "fetched"}
        /\ (t.stage = "skip" => \A u \in tasks : u.stage # "kept")
    BY <1>5 DEF LookForJpeg, WorkStep
  <2>2. \A p : JpegTarget(p)' = JpegTarget(p) /\ (IsFile(p)' <=> IsFile(p))
    BY <2>1, TargetsStay DEF IsFile, At
  <2>3. \A p : IsFile(JpegTarget(p))' <=> IsFile(JpegTarget(p))
    BY <2>1, <2>2 DEF IsFile, At
  <2>4. CASE tasks' = tasks \ {t}
    BY <2>1, <2>2, <2>3, <2>4 DEF JpegInv, Making
  <2>5. ASSUME NEW stage, stage = IF t.stage = "skip" THEN "kept" ELSE "converting",
               tasks' = AtStage(t, stage), ~IsFile(JpegTarget(t.path))
        PROVE  JpegInv'
    <3> DEFINE new == [t EXCEPT !.stage = stage]
    <3>1. tasks' = (tasks \ {t}) \cup {new} /\ new.path = t.path /\ new.stage = stage
      BY <2>5, TaskOfState, TaskFields DEF AtStage, Stages
    <3> HIDE DEF new
    <3>2. /\ stage = "kept" => t.stage = "skip"
          /\ stage = "converting" => t.stage = "fetched" /\ stage # "kept"
          /\ stage \in {"kept", "converting"}
      BY <2>1, <2>5
    <3>3. \A x, u \in tasks' :
            x.stage \in {"skip", "kept"} => u.stage \notin {"fetched", "converting"}
      BY <3>1, <3>2 DEF JpegInv
    <3>4. \A x, u \in Making' : x.stage = "kept" => x = u
      <4>1. \A u \in tasks \ {t} : u.stage = "kept" => stage # "kept" /\ stage # "converting"
        BY <2>1, <3>2 DEF JpegInv
      <4>2. \A u \in tasks \ {t} : stage = "kept" => u.stage # "converting"
        BY <3>2 DEF JpegInv
      <4> QED
        BY <3>1, <3>2, <4>1, <4>2 DEF JpegInv, Making
    <3>5. ASSUME NEW u \in Making', IsFile(JpegTarget(u.path))' PROVE u \in Making
      <4>1. IsFile(JpegTarget(u.path))
        BY <2>3, <3>5
      <4>2. u # new
        BY <2>5, <3>1, <4>1
      <4> QED
        BY <3>1, <3>5, <4>2 DEF Making
    <3> QED
      BY <2>1, <2>2, <2>3, <3>3, <3>4, <3>5 DEF JpegInv
  <2> QED
    BY <1>5, <2>4, <2>5 DEF LookForJpeg
<1>6. ASSUME NEW t \in tasks, Convert(t) PROVE JpegInv'
  <2>1. PICK q : q = JpegTarget(t.path)
    OBVIOUS
  <2>2. /\ pc = "work" /\ UNCHANGED <<protected, config>>
        /\ disk' = Put(disk, q, JpegOf(disk[t.path])) /\ tasks' = tasks \ {t}
        /\ t.stage \in {"kept", "converting"} /\ made' = made \cup {q}
    BY <1>6, <2>1 DEF Convert, WorkStep
  <2>3. JpegOf(disk[t.path]) \in Content
    BY <2>2, SourceOfTask, Contents
  <2>4. t \in Making /\ Making' \subseteq Making \ {t}
    BY <2>2 DEF Making
  <2>5. ASSUME NEW u \in Making', IsFile(JpegTarget(u.path))'
        PROVE  /\ u.stage = "converting"
               /\ JpegTarget(u.path)' \in made' /\ \E x \in protected : Twins(u.path, x)
    <3>1. PICK p : p = JpegTarget(u.path)
      OBVIOUS
    <3>2. u \in Making /\ u # t /\ u \in tasks
      BY <2>4 DEF Making
    <3>3. u.stage = "converting"
      BY <2>4, <3>2 DEF JpegInv, Making
    <3>4. p = JpegTarget(u.path)' /\ IsFile(p)'
      <4>1. JpegTarget(u.path)' = JpegTarget(u.path)
        BY <2>2, TargetsStay
      <4> QED
        BY <2>5, <3>1, <4>1 DEF IsFile, At
    <3>5. CASE p = q
      <4>1. u.path # t.path /\ u.path \in Path /\ t.path \in Path /\ t.path \in protected
        BY <2>2, <3>2, TaskOfState DEF TaskInv
      <4>2. /\ u.path.root = "destination" /\ t.path.root = "destination"
            /\ u.path.made = 0 /\ t.path.made = 0
        BY <3>2 DEF TaskInv, ReservedInv, Fits
      <4>3. {u.path.ext, t.path.ext} \subseteq HeicExtensions
        BY <2>2, <3>2, <3>3 DEF TaskInv
      <4>4. Twins(u.path, t.path)
        BY <2>1, <3>1, <3>5, <4>1, <4>2, <4>3, JpegTargetsDiffer DEF FiniteInv
      <4> QED
        BY <2>2, <3>3, <3>4, <3>5, <4>1, <4>4
    <3>6. CASE p # q
      <4>1. IsFile(p)
        BY <2>2, <2>3, <3>4, <3>6, FileWritten
      <4> QED
        BY <2>2, <3>1, <3>2, <3>3, <3>4, <4>1 DEF JpegInv
    <3> QED
      BY <3>5, <3>6
  <2>6. \A x, u \in tasks' :
          x.stage \in {"skip", "kept"} => u.stage \notin {"fetched", "converting"}
    BY <2>2 DEF JpegInv
  <2>7. \A x, u \in Making' : x.stage = "kept" => x = u
    BY <2>4 DEF JpegInv
  <2> QED
    BY <2>2, <2>5, <2>6, <2>7 DEF JpegInv
<1>7. ASSUME NEW t \in tasks, TaskFails(t) PROVE JpegInv'
  <2>1. UNCHANGED <<protected, config, disk, made>> /\ tasks' = tasks \ {t}
    BY <1>7 DEF TaskFails, WorkStep
  <2>2. \A p : JpegTarget(p)' = JpegTarget(p)
    BY <2>1, TargetsStay
  <2>3. \A p : IsFile(JpegTarget(p))' <=> IsFile(JpegTarget(p))
    BY <2>1, <2>2 DEF IsFile, At
  <2> QED
    BY <2>1, <2>2, <2>3 DEF JpegInv, Making
<1>8. CASE \E a \in Asset : DeleteFiles(a)
  BY <1>1, <1>8 DEF ControlInv, DeleteFiles
<1>9. CASE OutsideStep
  BY <1>1, <1>9 DEF ControlInv, OutsideStep
<1>10. CASE UNCHANGED vars
  <2>1. UNCHANGED <<protected, config, disk, made, tasks>>
    BY <1>10 DEF vars
  <2>2. \A p : JpegTarget(p)' = JpegTarget(p)
    BY <2>1, TargetsStay
  <2>3. \A p : IsFile(JpegTarget(p))' <=> IsFile(JpegTarget(p))
    BY <2>1, <2>2 DEF IsFile, At
  <2> QED
    BY <2>1, <2>2, <2>3 DEF JpegInv, Making
<1> QED
  BY <1>2, <1>3, <1>4, <1>5, <1>6, <1>7, <1>8, <1>9, <1>10, OutsideSteps

\* A task goes on, with another stage or none.
LEMMA WorkTasks ==
  ASSUME TypeOK, NEW t \in tasks, LookForJpeg(t) \/ Convert(t) \/ TaskFails(t),
         NEW u \in tasks'
  PROVE  \E v \in tasks : /\ u.resource = v.resource /\ u.path = v.path
                          /\ u.stage \in HasFile => v.stage \in HasFile
<1>1. CASE u \in tasks
  BY <1>1
<1>2. ASSUME NEW stage \in {"kept", "converting"}, tasks' = AtStage(t, stage),
             t.stage \in {"skip", "fetched"}, u \notin tasks
      PROVE  u.resource = t.resource /\ u.path = t.path /\ t.stage \in HasFile
  <2>1. t \in Task /\ stage \in Stages
    BY TaskOfState DEF Stages
  <2>2. u = [t EXCEPT !.stage = stage]
    BY <1>2 DEF AtStage
  <2> QED
    BY <1>2, <2>1, <2>2, TaskFields DEF HasFile
<1> QED
  BY <1>1, <1>2 DEF LookForJpeg, Convert, TaskFails

\* When a row changes, its task follows it; a new task has the path of its row unless that
\* one is another's.
LEMMA MovedStep ==
  ASSUME PlannerInv, ControlInv, TaskInv, MovedInv, [Next]_vars
  PROVE  MovedInv'
<1> USE DEF PlannerInv, outsideVars, rowVars, planVars, workVars, historyVars
<1>0. todo \subseteq Resource
  BY TypeParts DEF RunOK
<1>1. ASSUME tasks' = {} PROVE MovedInv'
  BY <1>1 DEF MovedInv
<1>2. CASE Phases
  <2>1. CASE EndPlan
    BY <2>1 DEF EndPlan, MovedInv
  <2>2. CASE SelectAsset
    BY <2>2 DEF SelectAsset, MovedInv
  <2>3. CASE Phases /\ ~EndPlan /\ ~SelectAsset
    BY <1>1, <2>3 DEF ControlInv, Phases, Preview, EndPreview, StartRun, EndLook, PlanBatch,
       EndBatch, StartDeletions, Finish
  <2> QED
    BY <1>2, <2>1, <2>2, <2>3
<1>3. ASSUME NEW r \in todo, PlanResource(r) PROVE MovedInv'
  <2>1. CASE Raise
    BY <1>1, <2>1 DEF Raise
  <2>2. ASSUME NEW p, NEW stage, Reserve(r, p, stage), Given(r, p, stage),
               \/ UNCHANGED row
               \/ r \notin DOMAIN row /\ \E s, c :
                    row' = Put(row, r, [path |-> p, content |-> c, status |-> s])
        PROVE  MovedInv'
    <3> DEFINE new == [resource |-> r, path |-> p, stage |-> stage]
    <3>1. /\ p \notin DOMAIN reserved
          /\ \A q \in DOMAIN reserved :
               q \in DOMAIN reserved' /\ reserved'[q] = reserved[q] /\ reserved[q] # r
      BY <2>2 DEF Reserve, Given, Put, ReservedInv
    <3>2. tasks' = tasks \cup {new} /\ new.resource = r /\ new.path = p
      BY <2>2 DEF Reserve
    <3> HIDE DEF new
    <3>3. \A x \in DOMAIN row' : x # r => x \in DOMAIN row /\ row'[x] = row[x]
      BY <2>2 DEF Put
    <3>4. r \in DOMAIN row' =>
            \/ row'[r].path = p
            \/ row'[r].path \in DOMAIN reserved /\ reserved[row'[r].path] # r
      BY <2>2 DEF Put, Given
    <3>5. ASSUME NEW u \in tasks', u.resource \in DOMAIN row', row'[u.resource].path # u.path
          PROVE  /\ row'[u.resource].path \in DOMAIN reserved'
                 /\ reserved'[row'[u.resource].path] # u.resource
      <4>1. CASE u = new
        BY <3>1, <3>2, <3>4, <3>5, <4>1
      <4>2. CASE u \in tasks
        <5>1. u.resource # r
          BY <3>1, <4>2 DEF TaskInv
        <5>2. u.resource \in DOMAIN row /\ row'[u.resource] = row[u.resource]
          BY <3>3, <3>5, <5>1
        <5> QED
          BY <3>1, <3>5, <4>2, <5>2 DEF MovedInv
      <4> QED
        BY <3>2, <4>1, <4>2
    <3> QED
      BY <3>5 DEF MovedInv
  <2>3. ASSUME NEW p \in Path, NEW stage \in {"skip", "get", "repair"}, PlansRow(r, p, stage)
        PROVE  MovedInv'
    BY <2>2, <2>3 DEF PlansRow, Plan
  <2>4. ASSUME NEW p \in Path, Adopts(r, p) PROVE MovedInv'
    <3>1. /\ \/ UNCHANGED row
             \/ \E s, c : row' = Put(row, r, [path |-> p, content |-> c, status |-> s])
          /\ Reserve(r, p, "skip") /\ Given(r, p, "skip") /\ r \notin DOMAIN row
      BY <2>4 DEF Adopts, Adopt
    <3> QED
      BY <2>2, <3>1
  <2> QED
    BY <1>0, <1>3, <2>1, <2>3, <2>4, PlannerSteps
<1>4. ASSUME NEW t \in tasks, Fetch(t) PROVE MovedInv'
  <2> DEFINE new == [t EXCEPT !.stage = "fetched"]
             e == [path |-> t.path, content |-> Original(t.resource), status |-> "VERIFIED"]
  <2>1. /\ row' = Put(row, t.resource, e) /\ UNCHANGED reserved
        /\ tasks' = (tasks \ {t}) \cup {new} /\ new.resource = t.resource /\ new.path = t.path
    BY <1>4, TaskOfState, TaskFields DEF Fetch, WorkStep, AtStage, Stages
  <2>2. e.path = t.path
    OBVIOUS
  <2> HIDE DEF new, e
  <2>3. ASSUME NEW u \in tasks', u.resource \in DOMAIN row', row'[u.resource].path # u.path
        PROVE  /\ row'[u.resource].path \in DOMAIN reserved'
               /\ reserved'[row'[u.resource].path] # u.resource
    <3>1. row'[t.resource] = e
      BY <2>1 DEF Put
    <3>2. u \in tasks /\ u.resource # t.resource
      BY <2>1, <2>2, <2>3, <3>1 DEF TaskInv
    <3>3. u.resource \in DOMAIN row /\ row'[u.resource] = row[u.resource]
      BY <2>1, <2>3, <3>2 DEF Put
    <3> QED
      BY <2>1, <2>3, <3>2, <3>3 DEF MovedInv
  <2> QED
    BY <2>3 DEF MovedInv
<1>5. ASSUME NEW t \in tasks, LookForJpeg(t) \/ Convert(t) \/ TaskFails(t) PROVE MovedInv'
  <2>1. UNCHANGED <<row, reserved>>
    BY <1>5 DEF LookForJpeg, Convert, TaskFails, WorkStep
  <2> QED
    BY <1>5, <2>1, WorkTasks DEF MovedInv
<1>6. CASE \E a \in Asset : DeleteFiles(a)
  BY <1>1, <1>6 DEF ControlInv, DeleteFiles
<1>7. CASE OutsideStep
  BY <1>1, <1>7 DEF ControlInv, OutsideStep
<1>8. CASE UNCHANGED vars
  BY <1>8 DEF vars, MovedInv
<1> QED
  BY <1>2, <1>3, <1>4, <1>5, <1>6, <1>7, <1>8, OutsideSteps

\* An original of no new database has a row; a row at a path without a suffix moves away
\* only when another resource has that path, and nothing is adopted that has an owner.
LEMMA KnownStep ==
  ASSUME PlannerInv, ControlInv, TaskInv, MovedInv, KnownInv, [Next]_vars
  PROVE  KnownInv'
<1> USE DEF PlannerInv, outsideVars, rowVars, planVars, workVars, historyVars
<1>0. todo \subseteq Resource
  BY TypeParts DEF RunOK
<1>1. ASSUME UNCHANGED renewed,
             \A p \in DOMAIN disk' : \A x \in Resource : disk'[p] = Original(x) =>
               p \in DOMAIN disk /\ disk[p] = Original(x),
             DOMAIN row' = DOMAIN row, \A r \in DOMAIN row : row'[r].path = row[r].path,
             UNCHANGED reserved \/ reserved' = <<>>
      PROVE  KnownInv'
  <2>1. \A p \in DOMAIN reserved' : p \in DOMAIN reserved /\ reserved'[p] = reserved[p]
    BY <1>1
  <2> QED
    BY <1>1, <2>1 DEF KnownInv
<1>2. CASE Phases
  <2>1. UNCHANGED <<disk, row, renewed>>
    BY <1>2, PhasesKeepData
  <2>2. UNCHANGED reserved \/ reserved' = <<>>
    BY <1>2 DEF Phases, Preview, SelectAsset, EndPreview, StartRun, EndLook, PlanBatch,
     EndPlan, EndBatch,
       StartDeletions, Finish
  <2> QED
    BY <1>1, <2>1, <2>2
<1>3. ASSUME NEW r \in todo, PlanResource(r) PROVE KnownInv'
  <2>0. UNCHANGED <<disk, renewed>>
    BY <1>3 DEF PlanResource
  <2>1. CASE Raise
    BY <1>1, <2>0, <2>1 DEF Raise
  <2>2. ASSUME NEW p, Reserve(r, p, "skip") \/ Reserve(r, p, "get") \/ Reserve(r, p, "repair"),
               p \notin DOMAIN reserved,
               \A x \in DOMAIN row : x \in DOMAIN row' /\ row'[x] = row[x],
               ~renewed => \A x \in Resource :
                 p \in DOMAIN disk /\ disk[p] = Original(x) /\ Len(p.stem) = 1 =>
                   r \in DOMAIN row' /\ row'[r].path = p
        PROVE  KnownInv'
    <3>1. /\ \A q \in DOMAIN reserved' : q = p \/ q \in DOMAIN reserved
          /\ \A q \in DOMAIN reserved : reserved'[q] = reserved[q]
          /\ reserved'[p] = r
      BY <2>2 DEF Reserve, Put
    <3>2. ASSUME ~renewed, NEW q \in DOMAIN disk, NEW x \in Resource, disk[q] = Original(x)
          PROVE  /\ x \in DOMAIN row'
                 /\ Len(q.stem) = 1 => \E y \in DOMAIN row' : row'[y].path = q
                 /\ Len(q.stem) = 1 /\ q \in DOMAIN reserved' =>
                      reserved'[q] \in DOMAIN row' /\ row'[reserved'[q]].path = q
      <4>1. x \in DOMAIN row' /\ (Len(q.stem) = 1 => \E y \in DOMAIN row' : row'[y].path = q)
        BY <2>2, <3>2 DEF KnownInv
      <4>2. CASE q = p
        BY <2>2, <3>1, <3>2, <4>1, <4>2
      <4>3. CASE q # p
        BY <2>2, <3>1, <3>2, <4>1, <4>3 DEF KnownInv
      <4> QED
        BY <4>2, <4>3
    <3> QED
      BY <2>0, <3>2 DEF KnownInv
  <2>3. ASSUME NEW p \in Path, NEW stage \in {"skip", "get", "repair"}, PlansRow(r, p, stage)
        PROVE  KnownInv'
    <3>1. Reserve(r, p, stage) /\ UNCHANGED row /\ Given(r, p, stage)
      BY <2>3 DEF PlansRow, Plan
    <3>2. ASSUME NEW x \in Resource, p \in DOMAIN disk, disk[p] = Original(x), Len(p.stem) = 1
          PROVE  r \in DOMAIN row /\ row[r].path = p
      <4>1. IsFile(p)
        BY <3>2, Contents, FileContent
      <4>2. stage # "get"
        BY <3>1, <4>1 DEF Given
      <4> QED
        BY <2>3, <3>1, <3>2, <4>2 DEF PlansRow, Given
    <3>3. p \notin DOMAIN reserved
      BY <3>1 DEF Given
    <3> QED
      BY <2>2, <3>1, <3>2, <3>3
  <2>4. ASSUME NEW p \in Path, Adopts(r, p) PROVE KnownInv'
    <3>1. /\ Reserve(r, p, "skip") /\ p \notin DOMAIN reserved /\ r \notin DOMAIN row
          /\ Len(p.stem) = 1 => Owners(p) = {}
      BY <2>4 DEF Adopts, Adopt, Given
    <3>2. \A x \in DOMAIN row : x \in DOMAIN row' /\ row'[x] = row[x]
      BY <2>4, <3>1 DEF Adopts, Adopt, Put
    <3>3. ~renewed => \A x \in Resource :
            ~(p \in DOMAIN disk /\ disk[p] = Original(x) /\ Len(p.stem) = 1)
      BY <3>1 DEF KnownInv, Owners
    <3> QED
      BY <2>2, <3>1, <3>2, <3>3
  <2> QED
    BY <1>0, <1>3, <2>1, <2>3, <2>4, PlannerSteps
<1>4. ASSUME NEW t \in tasks, Fetch(t) PROVE KnownInv'
  <2> DEFINE e == [path |-> t.path, content |-> Original(t.resource), status |-> "VERIFIED"]
  <2>1. /\ row' = Put(row, t.resource, e) /\ disk' = Put(disk, t.path, Original(t.resource))
        /\ UNCHANGED <<reserved, renewed>>
    BY <1>4 DEF Fetch, WorkStep
  <2>2. e.path = t.path
    OBVIOUS
  <2> HIDE DEF e
  <2>3. /\ t.resource \in DOMAIN row' /\ row'[t.resource].path = t.path
        /\ \A x \in DOMAIN row : x \in DOMAIN row' /\ (x # t.resource => row'[x] = row[x])
    BY <2>1, <2>2 DEF Put
  <2>4. t.path \in DOMAIN reserved /\ reserved[t.path] = t.resource
    BY DEF TaskInv
  <2>5. ASSUME ~renewed, NEW p \in DOMAIN disk', NEW x \in Resource, disk'[p] = Original(x)
        PROVE  /\ x \in DOMAIN row'
               /\ Len(p.stem) = 1 => \E r \in DOMAIN row' : row'[r].path = p
               /\ Len(p.stem) = 1 /\ p \in DOMAIN reserved =>
                    reserved[p] \in DOMAIN row' /\ row'[reserved[p]].path = p
    <3>1. CASE p = t.path
      <4>1. x = t.resource
        BY <2>1, <2>5, <3>1, TaskOfState, Contents DEF Put
      <4> QED
        BY <2>3, <2>4, <3>1, <4>1
    <3>2. CASE p # t.path
      <4>1. p \in DOMAIN disk /\ disk[p] = Original(x)
        BY <2>1, <2>5, <3>2 DEF Put
      <4>2. x \in DOMAIN row'
        BY <2>3, <2>5, <4>1 DEF KnownInv
      <4>3. ASSUME Len(p.stem) = 1, p \in DOMAIN reserved
            PROVE  reserved[p] \in DOMAIN row' /\ row'[reserved[p]].path = p
        <5>1. reserved[p] \in DOMAIN row /\ row[reserved[p]].path = p
          BY <2>5, <4>1, <4>3 DEF KnownInv
        <5>2. reserved[p] # t.resource
          BY <2>4, <3>2, <4>3 DEF ReservedInv
        <5> QED
          BY <2>3, <5>1, <5>2
      <4>4. ASSUME Len(p.stem) = 1 PROVE \E r \in DOMAIN row' : row'[r].path = p
        <5>1. PICK r \in DOMAIN row : row[r].path = p
          BY <2>5, <4>1, <4>4 DEF KnownInv
        <5>2. CASE r # t.resource
          BY <2>3, <5>1, <5>2
        <5>3. CASE r = t.resource
          BY <3>2, <4>3, <4>4, <5>1, <5>3 DEF MovedInv
        <5> QED
          BY <5>2, <5>3
      <4> QED
        BY <4>2, <4>3, <4>4
    <3> QED
      BY <3>1, <3>2
  <2> QED
    BY <2>1, <2>5 DEF KnownInv
<1>5. ASSUME NEW t \in tasks, Convert(t) PROVE KnownInv'
  <2> DEFINE q == JpegTarget(t.path)
             c == JpegOf(disk[t.path])
  <2>1. disk' = Put(disk, q, c) /\ UNCHANGED <<row, reserved, renewed>>
        /\ t.stage \in {"kept", "converting"}
    BY <1>5 DEF Convert, WorkStep
  <2>2. \A x \in Resource : c # Original(x)
    BY <2>1, SourceOfTask, Contents
  <2> HIDE DEF q, c
  <2> QED
    BY <1>1, <2>1, <2>2 DEF Put
<1>6. CASE \E t \in tasks : LookForJpeg(t) \/ TaskFails(t)
  BY <1>1, <1>6 DEF LookForJpeg, TaskFails, WorkStep
<1>7. ASSUME NEW a \in Asset, DeleteFiles(a) PROVE KnownInv'
  <2>1. \A r \in DOMAIN row : row[r] \in Entry
    BY TypeParts DEF RowsOK
  <2>2. /\ DOMAIN row' = DOMAIN row /\ \A r \in DOMAIN row : row'[r].path = row[r].path
    BY <1>7, <2>1, MarkedEntry DEF DeleteFiles
  <2>3. DOMAIN disk' \subseteq DOMAIN disk /\ \A p \in DOMAIN disk' : disk'[p] = disk[p]
    BY <1>7 DEF DeleteFiles
  <2>4. UNCHANGED <<reserved, renewed>>
    BY <1>7 DEF DeleteFiles
  <2> QED
    BY <1>1, <2>2, <2>3, <2>4
<1>8. CASE UserPuts
  <2>1. PICK name \in UserNames, c \in {UserFile, Directory} :
          disk' = Put(disk, InDestination(name[1], name[2]), c)
    BY <1>8 DEF UserPuts
  <2>2. \A x \in Resource : c # Original(x)
    BY Contents
  <2>3. UNCHANGED <<row, reserved, renewed>>
    BY <1>8 DEF UserPuts, OutsideStep
  <2> QED
    BY <1>1, <2>1, <2>2, <2>3 DEF Put
<1>9. ASSUME NEW p \in DOMAIN disk, UserRemoves(p) PROVE KnownInv'
  BY <1>1, <1>9 DEF UserRemoves, OutsideStep
<1>10. CASE LoseDatabase
  BY <1>10 DEF LoseDatabase, KnownInv
<1>11. CASE (\E a \in Asset : RemoteChange(a)) \/ (\E c \in Configs : ChangeConfig(c))
  BY <1>1, <1>11 DEF RemoteChange, ChangeConfig, OutsideStep
<1>12. CASE UNCHANGED vars
  BY <1>1, <1>12 DEF vars
<1> QED
  BY <1>2, <1>3, <1>4, <1>5, <1>6, <1>7, <1>8, <1>9, <1>10, <1>11, <1>12 DEF Next, Phases

\* What a row records and a task has belongs to its asset: two assets share no path.
LEMMA OwnStep ==
  ASSUME PlannerInv, ControlInv, TaskInv, KnownInv, OwnInv, [Next]_vars
  PROVE  OwnInv'
<1> USE DEF PlannerInv, outsideVars, rowVars, planVars, workVars, historyVars
<1>0. todo \subseteq Resource /\ \A r \in DOMAIN row : row[r] \in Entry
  BY TypeParts DEF RunOK, RowsOK
<1>1. ASSUME UNCHANGED renewed, tasks' = {} \/ UNCHANGED <<tasks, disk>>,
             DOMAIN row' = DOMAIN row,
             \A r \in DOMAIN row : row'[r].content = row[r].content
      PROVE  OwnInv'
  BY <1>1 DEF OwnInv
<1>2. CASE Phases
  <2>1. UNCHANGED <<disk, row, renewed>>
    BY <1>2, PhasesKeepData
  <2>2. tasks' = {} \/ UNCHANGED tasks
    BY <1>2 DEF Phases, Preview, SelectAsset, EndPreview, StartRun, EndLook, PlanBatch,
     EndPlan, EndBatch,
       StartDeletions, Finish
  <2> QED
    BY <1>1, <2>1, <2>2
<1>3. ASSUME NEW r \in todo, PlanResource(r) PROVE OwnInv'
  <2>0. UNCHANGED <<disk, renewed>> /\ r \in Resource
    BY <1>0, <1>3 DEF PlanResource
  <2>1. CASE Raise
    BY <1>1, <2>0, <2>1 DEF Raise
  <2>2. ASSUME NEW p, NEW stage, Reserve(r, p, stage),
               ~renewed => \A x \in Resource :
                 stage \in HasFile /\ disk[p] = Original(x) =>
                   ShortId[x.asset] = ShortId[r.asset],
               ~renewed => \A y \in DOMAIN row', x \in Resource :
                 row'[y].content = Original(x) => ShortId[x.asset] = ShortId[y.asset]
        PROVE  OwnInv'
    <3> DEFINE new == [resource |-> r, path |-> p, stage |-> stage]
    <3>1. /\ tasks' = tasks \cup {new}
          /\ new.resource = r /\ new.path = p /\ new.stage = stage
      BY <2>2 DEF Reserve
    <3> HIDE DEF new
    <3>2. ASSUME ~renewed, NEW u \in tasks', NEW x \in Resource, u.stage \in HasFile,
                 disk[u.path] = Original(x)
          PROVE  ShortId[x.asset] = ShortId[u.resource.asset]
      BY <2>2, <3>1, <3>2 DEF OwnInv
    <3> QED
      BY <2>0, <2>2, <3>2 DEF OwnInv
  <2>3. ASSUME NEW p \in Path, NEW stage \in {"skip", "get", "repair"}, PlansRow(r, p, stage)
        PROVE  OwnInv'
    <3>1. Reserve(r, p, stage) /\ UNCHANGED row
      BY <2>3 DEF PlansRow, Plan
    <3>2. stage \in HasFile => r \in DOMAIN row /\ disk[p] = row[r].content
      BY <2>3 DEF PlansRow, HasFile
    <3> QED
      BY <2>2, <3>1, <3>2 DEF OwnInv
  <2>4. ASSUME NEW p \in Path, Adopts(r, p) PROVE OwnInv'
    <3> DEFINE e == [path |-> p, content |-> disk[p], status |-> "VERIFIED"]
    <3>1. /\ Reserve(r, p, "skip") /\ (UNCHANGED row \/ row' = Put(row, r, e))
          /\ Fits(p, r.asset) /\ IsFile(p)
          /\ Len(p.stem) = 1 => Owners(p) = {}
      BY <2>4 DEF Adopts, Adopt, Given
    <3>2. e.content = disk[p] /\ p \in DOMAIN disk
      BY <3>1, FileContent
    <3>3. ASSUME ~renewed, NEW x \in Resource, disk[p] = Original(x)
          PROVE  ShortId[x.asset] = ShortId[r.asset]
      <4>1. Len(p.stem) # 1
        BY <3>1, <3>2, <3>3 DEF KnownInv, Owners
      <4>2. Fits(p, x.asset)
        BY <3>2, <3>3 DEF PlaceInv
      <4> QED
        BY <3>1, <4>1, <4>2 DEF Fits
    <3> HIDE DEF e
    <3>4. ASSUME ~renewed, NEW y \in DOMAIN row', NEW x \in Resource,
                 row'[y].content = Original(x)
          PROVE  ShortId[x.asset] = ShortId[y.asset]
      BY <3>1, <3>2, <3>3, <3>4 DEF OwnInv, Put
    <3> QED
      BY <2>2, <3>1, <3>3, <3>4
  <2> QED
    BY <1>0, <1>3, <2>1, <2>3, <2>4, PlannerSteps
<1>4. ASSUME pc = "work", NEW t \in tasks
      PROVE  /\ t.path \in protected
             /\ \A u \in tasks : u # t => u.path # t.path
             /\ t.stage \in HasFile => t.path \in DOMAIN disk
  BY <1>4, FileContent DEF TaskInv
<1>5. ASSUME NEW t \in tasks, Fetch(t) PROVE OwnInv'
  <2> DEFINE new == [t EXCEPT !.stage = "fetched"]
             e == [path |-> t.path, content |-> Original(t.resource), status |-> "VERIFIED"]
  <2>1. /\ row' = Put(row, t.resource, e) /\ disk' = Put(disk, t.path, Original(t.resource))
        /\ UNCHANGED renewed /\ pc = "work"
        /\ tasks' = (tasks \ {t}) \cup {new} /\ new.resource = t.resource /\ new.path = t.path
    BY <1>5, TaskOfState, TaskFields DEF Fetch, WorkStep, AtStage, Stages
  <2>2. e.content = Original(t.resource)
    OBVIOUS
  <2>3. \A x \in Resource : Original(t.resource) = Original(x) => x = t.resource
    BY TaskOfState, Contents
  <2> HIDE DEF new, e
  <2>4. ASSUME ~renewed, NEW y \in DOMAIN row', NEW x \in Resource,
               row'[y].content = Original(x)
        PROVE  ShortId[x.asset] = ShortId[y.asset]
    BY <2>1, <2>2, <2>3, <2>4 DEF OwnInv, Put
  <2>5. ASSUME ~renewed, NEW u \in tasks', NEW x \in Resource, u.stage \in HasFile,
               disk'[u.path] = Original(x)
        PROVE  ShortId[x.asset] = ShortId[u.resource.asset]
    <3>1. CASE u = new
      BY <2>1, <2>3, <2>5, <3>1 DEF Put
    <3>2. CASE u \in tasks \ {t}
      <4>1. u.path # t.path /\ u.path \in DOMAIN disk
        BY <1>4, <2>1, <2>5, <3>2
      <4>2. disk[u.path] = Original(x)
        BY <2>1, <2>5, <4>1 DEF Put
      <4> QED
        BY <2>5, <3>2, <4>2 DEF OwnInv
    <3> QED
      BY <2>1, <3>1, <3>2
  <2> QED
    BY <2>1, <2>4, <2>5 DEF OwnInv
<1>6. ASSUME NEW t \in tasks, LookForJpeg(t) \/ Convert(t) \/ TaskFails(t) PROVE OwnInv'
  <2>1. pc = "work" /\ UNCHANGED <<row, renewed>>
    BY <1>6 DEF LookForJpeg, Convert, TaskFails, WorkStep
  <2>2. \A v \in tasks : v.stage \in HasFile => disk'[v.path] = disk[v.path]
    <3>1. CASE Convert(t)
      <4>1. \A v \in tasks : v.path # JpegTarget(t.path)
        BY <1>4, <2>1, TaskOfState, JpegTargetIsFree DEF FiniteInv
      <4>2. disk' = Put(disk, JpegTarget(t.path), JpegOf(disk[t.path]))
        BY <3>1 DEF Convert
      <4> QED
        BY <1>4, <2>1, <4>1, <4>2 DEF Put
    <3>2. CASE LookForJpeg(t) \/ TaskFails(t)
      BY <3>2 DEF LookForJpeg, TaskFails
    <3> QED
      BY <1>6, <3>1, <3>2
  <2>3. ASSUME ~renewed, NEW u \in tasks', NEW x \in Resource, u.stage \in HasFile,
               disk'[u.path] = Original(x)
        PROVE  ShortId[x.asset] = ShortId[u.resource.asset]
    <3>1. PICK v \in tasks : /\ u.resource = v.resource /\ u.path = v.path
                             /\ v.stage \in HasFile
      BY <1>6, <2>3, WorkTasks
    <3> QED
      BY <2>2, <2>3, <3>1 DEF OwnInv
  <2> QED
    BY <2>1, <2>3 DEF OwnInv
<1>7. ASSUME NEW a \in Asset, DeleteFiles(a) PROVE OwnInv'
  <2>1. DOMAIN row' = DOMAIN row /\ \A r \in DOMAIN row : row'[r].content = row[r].content
    BY <1>0, <1>7, MarkedEntry DEF DeleteFiles
  <2>2. tasks' = {} /\ UNCHANGED renewed
    BY <1>7 DEF DeleteFiles, ControlInv
  <2> QED
    BY <1>1, <2>1, <2>2
<1>8. CASE OutsideStep /\ (UNCHANGED <<row, renewed>> \/ renewed')
  <2>1. tasks' = {}
    BY <1>8 DEF OutsideStep, ControlInv
  <2> QED
    BY <1>8, <2>1 DEF OwnInv
<1>9. CASE UNCHANGED vars
  BY <1>1, <1>9 DEF vars
<1> QED
  BY <1>2, <1>3, <1>5, <1>6, <1>7, <1>8, <1>9
     DEF Next, Phases, RemoteChange, ChangeConfig, UserPuts, UserRemoves, LoseDatabase

\* _record_artifacts forgets no path of an asset.
LEMMA ArtifactsStay ==
  ASSUME TypeOK, NEW t \in tasks, NEW p \in Path, NEW c \in Content
  PROVE  /\ \A y \in artifacts : \E z \in Artifacts(t, p, c) :
              z.path = y.path /\ z.resource = y.resource
         /\ \E z \in Artifacts(t, p, c) : z.path = p /\ z.resource = t.resource
<1> DEFINE new == [resource |-> t.resource, path |-> p, content |-> c, status |-> "VERIFIED"]
<1>1. new.path = p /\ new.resource = t.resource
  OBVIOUS
<1>2. Artifacts(t, p, c) = {x \in artifacts : x.resource # t.resource \/ x.path # p} \cup {new}
  BY DEF Artifacts
<1> HIDE DEF new
<1> QED
  BY <1>1, <1>2

\* A JPEG is recorded with the asset whose file it was made from.
LEMMA MadeStep ==
  ASSUME PlannerInv, ControlInv, TaskInv, OwnInv, MadeInv, [Next]_vars
  PROVE  MadeInv'
<1> USE DEF PlannerInv, outsideVars, rowVars, planVars, workVars, historyVars
<1>1. ASSUME UNCHANGED renewed,
             \A p \in DOMAIN disk' : \A x \in Resource :
               disk'[p] = JpegOf(Original(x)) =>
                 p \in DOMAIN disk /\ disk[p] = JpegOf(Original(x)),
             \A y \in artifacts :
               \E z \in artifacts' : z.path = y.path /\ z.resource = y.resource
      PROVE  MadeInv'
  BY <1>1 DEF MadeInv
<1>2. CASE UNCHANGED <<disk, artifacts, renewed>>
  BY <1>1, <1>2
<1>3. ASSUME NEW t \in tasks, Fetch(t) PROVE MadeInv'
  <2>1. /\ disk' = Put(disk, t.path, Original(t.resource)) /\ UNCHANGED <<artifacts, renewed>>
    BY <1>3 DEF Fetch, WorkStep
  <2>2. \A x \in Resource : Original(t.resource) # JpegOf(Original(x))
    BY TaskOfState, Contents
  <2> QED
    BY <1>1, <2>1, <2>2 DEF Put
<1>4. ASSUME NEW t \in tasks, LookForJpeg(t) PROVE MadeInv'
  <2> DEFINE p == JpegTarget(t.path)
  <2>1. UNCHANGED <<disk, renewed>>
    BY <1>4 DEF LookForJpeg, WorkStep
  <2>2. p \in Path
    BY TaskOfState, JpegTargetIsFree DEF FiniteInv
  <2>3. UNCHANGED artifacts \/ (IsFile(p) /\ artifacts' = Artifacts(t, p, disk[p]))
    BY <1>4 DEF LookForJpeg
  <2> HIDE DEF p
  <2>4. IsFile(p) => disk[p] \in Content
    BY FileContent
  <2> QED
    BY <1>1, <2>1, <2>2, <2>3, <2>4, ArtifactsStay
<1>5. ASSUME NEW t \in tasks, Convert(t) PROVE MadeInv'
  <2> DEFINE p == JpegTarget(t.path)
             c == JpegOf(disk[t.path])
  <2>1. /\ t.stage \in {"kept", "converting"} /\ UNCHANGED renewed
        /\ disk' = Put(disk, p, c) /\ artifacts' = Artifacts(t, p, c)
    BY <1>5 DEF Convert, WorkStep
  <2>2. disk[t.path] \in Sources /\ c \in Content
    BY <2>1, SourceOfTask, Contents
  <2>3. \A x \in Resource : c = JpegOf(Original(x)) => disk[t.path] = Original(x)
    BY <2>2, Contents
  <2>4. p \in Path
    BY TaskOfState, JpegTargetIsFree DEF FiniteInv
  <2> HIDE DEF p, c
  <2>5. /\ \A y \in artifacts : \E z \in artifacts' : z.path = y.path /\ z.resource = y.resource
        /\ \E z \in artifacts' : z.path = p /\ z.resource = t.resource
    BY <2>1, <2>2, <2>4, ArtifactsStay
  <2>6. ASSUME ~renewed, NEW q \in DOMAIN disk', NEW x \in Resource,
               disk'[q] = JpegOf(Original(x))
        PROVE  \E z \in artifacts' : z.path = q /\ ShortId[z.resource.asset] = ShortId[x.asset]
    <3>1. CASE q = p
      <4>1. disk[t.path] = Original(x)
        BY <2>1, <2>3, <2>6, <3>1 DEF Put
      <4>2. ShortId[x.asset] = ShortId[t.resource.asset]
        BY <2>1, <2>6, <4>1 DEF OwnInv, HasFile
      <4> QED
        BY <2>5, <3>1, <4>2
    <3>2. CASE q # p
      <4>1. q \in DOMAIN disk /\ disk[q] = JpegOf(Original(x))
        BY <2>1, <2>6, <3>2 DEF Put
      <4> QED
        BY <2>5, <2>6, <4>1 DEF MadeInv
    <3> QED
      BY <3>1, <3>2
  <2> QED
    BY <2>1, <2>6 DEF MadeInv
<1>6. ASSUME NEW a \in Asset, DeleteFiles(a) PROVE MadeInv'
  <2>1. artifacts \subseteq Artifact
    BY TypeParts
  <2>2. \A y \in artifacts : \E z \in artifacts' : z.path = y.path /\ z.resource = y.resource
    <3> SUFFICES ASSUME NEW y \in artifacts
                 PROVE  \E z \in artifacts' : z.path = y.path /\ z.resource = y.resource
      OBVIOUS
    <3> DEFINE z == IF y.resource \in Managed(a)
                    THEN [y EXCEPT !.status = "DELETED_REMOTE"] ELSE y
    <3>1. z.path = y.path /\ z.resource = y.resource
      BY <2>1, MarkedArtifact
    <3>2. UNCHANGED artifacts \/ z \in artifacts'
      BY <1>6 DEF DeleteFiles
    <3> HIDE DEF z
    <3> QED
      BY <3>1, <3>2
  <2>3. DOMAIN disk' \subseteq DOMAIN disk /\ \A p \in DOMAIN disk' : disk'[p] = disk[p]
    BY <1>6 DEF DeleteFiles
  <2>4. UNCHANGED renewed
    BY <1>6 DEF DeleteFiles
  <2> QED
    BY <1>1, <2>2, <2>3, <2>4
<1>7. CASE UserPuts
  <2>1. PICK name \in UserNames, c \in {UserFile, Directory} :
          disk' = Put(disk, InDestination(name[1], name[2]), c)
    BY <1>7 DEF UserPuts
  <2>2. \A x \in Resource : c # JpegOf(Original(x))
    BY Contents
  <2>3. UNCHANGED <<artifacts, renewed>>
    BY <1>7 DEF UserPuts
  <2> QED
    BY <1>1, <2>1, <2>2, <2>3 DEF Put
<1>8. ASSUME NEW p \in DOMAIN disk, UserRemoves(p) PROVE MadeInv'
  BY <1>1, <1>8 DEF UserRemoves
<1>9. CASE LoseDatabase
  BY <1>9 DEF LoseDatabase, MadeInv
<1>10. CASE Phases
  BY <1>2, <1>10, PhasesKeepData
<1>11. CASE UNCHANGED vars
  BY <1>2, <1>11 DEF vars
<1> QED
  BY <1>2, <1>3, <1>4, <1>5, <1>6, <1>7, <1>8, <1>9, <1>10, <1>11
     DEF Next, Phases, PlanResource, TaskFails, WorkStep, RemoteChange, ChangeConfig

\* Which resources are wanted changes between runs only.
LEMMA ListedStays ==
  ASSUME UNCHANGED outsideVars
  PROVE  Listed' = Listed /\ ResourcesOf(Listed)' = ResourcesOf(Listed)
BY DEF outsideVars, Listed, ResourcesOf, AssetAllowed, SelectResources

LEMMA VictimsStep ==
  ASSUME VictimsInv, [Next]_vars
  PROVE  VictimsInv'
<1> USE DEF VictimsInv, outsideVars, rowVars, planVars, workVars, historyVars
<1>1. CASE Phases
  BY <1>1 DEF Phases, Preview, SelectAsset, EndPreview, StartRun, EndLook, PlanBatch,
     EndPlan, EndBatch, StartDeletions, Finish
<1>2. ASSUME NEW r \in todo, PlanResource(r) PROVE VictimsInv'
  <2>1. UNCHANGED remote /\ (Raise \/ UNCHANGED <<pc, victims>>)
    BY <1>2 DEF PlanResource, PlanTracked, PlanUntracked, Plan, Adopt, Reserve
  <2> QED
    BY <2>1 DEF Raise
<1>3. ASSUME NEW t \in tasks, Fetch(t) \/ LookForJpeg(t) \/ Convert(t) \/ TaskFails(t)
      PROVE  VictimsInv'
  BY <1>3 DEF Fetch, LookForJpeg, Convert, TaskFails, WorkStep
<1>4. CASE \E a \in Asset : DeleteFiles(a)
  BY <1>4 DEF DeleteFiles
<1>5. CASE OutsideStep
  BY <1>5 DEF OutsideStep
<1>6. CASE UNCHANGED vars
  BY <1>6 DEF vars
<1> QED
  BY <1>1, <1>2, <1>3, <1>4, <1>5, <1>6, OutsideSteps

\* Nothing but its own download writes over the file of a row, and a deletion asks who
\* else has the path, so the rows of the assets that are not deleted keep their files.
LEMMA FilesStay ==
  ASSUME TypeOK, VictimsInv,
         NEW r \in ResourcesOf(Listed), r \in DOMAIN row, IsFile(row[r].path),
         \A t \in Making : JpegTarget(t.path) # row[r].path,
         \/ \E t \in tasks : LookForJpeg(t) \/ Convert(t) \/ TaskFails(t)
         \/ \E a \in Asset : DeleteFiles(a)
  PROVE  /\ r \in DOMAIN row' /\ row'[r] = row[r]
         /\ row[r].path \in DOMAIN disk /\ row[r].path \in DOMAIN disk'
         /\ disk'[row[r].path] = disk[row[r].path]
<1> USE DEF rowVars
<1>0. row[r].path \in DOMAIN disk /\ At(row[r].path) = disk[row[r].path]
  BY FileContent
<1>1. ASSUME NEW t \in tasks, LookForJpeg(t) \/ TaskFails(t)
      PROVE  UNCHANGED <<row, disk>>
  BY <1>1 DEF LookForJpeg, TaskFails
<1>2. ASSUME NEW t \in tasks, Convert(t)
      PROVE  /\ UNCHANGED row /\ DOMAIN disk \subseteq DOMAIN disk'
             /\ disk'[row[r].path] = disk[row[r].path]
  <2>1. UNCHANGED row /\ disk' = Put(disk, JpegTarget(t.path), JpegOf(disk[t.path]))
    BY <1>2 DEF Convert
  <2>2. JpegTarget(t.path) # row[r].path
    BY <1>2 DEF Convert, Making
  <2> QED
    BY <1>0, <2>1, <2>2 DEF Put
<1>3. ASSUME NEW a \in Asset, DeleteFiles(a)
      PROVE  /\ r \in DOMAIN row' /\ row'[r] = row[r] /\ row[r].path \in DOMAIN disk'
             /\ disk'[row[r].path] = disk[row[r].path]
  <2>1. CASE Refused(a)
    BY <1>0, <1>3, <2>1 DEF DeleteFiles
  <2>2. CASE ~Refused(a)
    <3>1. r.asset # a
      BY <1>3 DEF ResourcesOf, Listed, DeleteFiles, VictimsInv
    <3>2. r \notin Managed(a)
      BY <3>1 DEF Managed
    <3>3. ASSUME NEW e \in Entries(a) PROVE e.path # row[r].path
      <4>1. OwnerAssets(e.path) = {a}
        BY <2>2 DEF Refused
      <4>2. e.path = row[r].path => r.asset \in OwnerAssets(e.path)
        BY DEF OwnerAssets
      <4> QED
        BY <3>1, <4>1, <4>2
    <3>4. /\ disk' = [p \in DOMAIN disk \ {e.path : e \in Entries(a)} |-> disk[p]]
          /\ DOMAIN row' = DOMAIN row /\ row'[r] = row[r]
      BY <1>3, <2>2, <3>2 DEF DeleteFiles
    <3> QED
      BY <1>0, <3>3, <3>4
  <2> QED
    BY <2>1, <2>2
<1> QED
  BY <1>0, <1>1, <1>2, <1>3

\* What Kept says, apart from what the run has reserved.
LEMMA KeptMeans ==
  ASSUME TypeOK, NEW r, Kept(r)
  PROVE  /\ r \in DOMAIN row /\ IsFile(row[r].path) /\ row[r].path \in DOMAIN disk
         /\ disk[row[r].path] = row[r].content
BY FileContent, Contents, TypeParts DEF Kept, RowsOK, Entry, IsFile, At

\* JPEGs are made while the tasks of a batch are done.
LEMMA NoneIsMade ==
  ASSUME ControlInv, pc # "work"
  PROVE  Making = {}
BY DEF ControlInv, Making

\* Each resource of a listed asset waits, for its batch, its turn or its download, or has its
\* file; a failure is noted.
LEMMA CompleteStep ==
  ASSUME PlannerInv, ControlInv, TaskInv, VictimsInv, OrderInv, CompleteInv, [Next]_vars,
         ControlInv'
  PROVE  CompleteInv'
<1> USE DEF PlannerInv, outsideVars, rowVars, planVars, workVars, historyVars
<1>0. todo \subseteq Resource /\ tasks \subseteq Task
  BY TypeParts DEF RunOK
<1>1. CASE Phases
  <2>0. Making' = {}
    <3>1. CASE pc' # "work"
      <4>1. \A t \in tasks' : t.stage \notin {"kept", "converting"}
        BY <3>1 DEF ControlInv
      <4> QED
        BY <4>1 DEF Making
    <3>2. CASE pc' = "work"
      <4>1. UNCHANGED tasks /\ pc = "build"
        BY <1>1, <3>2 DEF Phases, Preview, SelectAsset, EndPreview, StartRun, EndLook, PlanBatch,
           EndPlan, EndBatch, StartDeletions, Finish
      <4> QED
        BY <4>1, NoneIsMade DEF Making
    <3> QED
      BY <3>1, <3>2
  <2>1. Listed' = Listed /\ \A S : ResourcesOf(S)' = ResourcesOf(S)
    BY <1>1, ListedStays, PhasesKeepData DEF ResourcesOf, AssetAllowed, SelectResources
  <2>2. ASSUME UNCHANGED <<row, disk, reserved, foreign>>, NEW r, Kept(r)
        PROVE  Kept(r)'
    BY <2>2 DEF Kept, At
  <2>3. CASE pc' \in {"idle", "preview", "look"}
    BY <2>3 DEF CompleteInv
  <2>4. CASE (StartRun \/ EndLook) /\ pc' # "look"
    <3>1. queue' = limited'
      BY <2>4 DEF StartRun, EndLook
    <3>2. \A r \in ResourcesOf(limited') : r.asset \in queue'
      BY <3>1 DEF ResourcesOf
    <3> QED
      BY <2>0, <2>1, <3>2 DEF CompleteInv, Waiting
  <2>5. CASE PlanBatch
    <3>1. ASSUME NEW r \in ResourcesOf(limited), r.asset \in queue
          PROVE  r.asset \in queue' \/ r \in todo'
      BY <2>5, <3>1 DEF PlanBatch, ResourcesOf
    <3>2. /\ pc = "plan" /\ todo = {}
          /\ UNCHANGED <<failed, limited, tasks, row, disk, reserved, foreign>>
      BY <2>5 DEF PlanBatch, ControlInv
    <3> QED
      BY <2>0, <2>1, <2>2, <3>1, <3>2 DEF CompleteInv, Waiting
  <2>6. CASE EndPlan \/ EndBatch \/ StartDeletions
    <3>1. /\ pc \in {"build", "work", "plan"}
          /\ UNCHANGED <<failed, queue, limited, todo, tasks, row, disk, reserved, foreign>>
      BY <2>6 DEF EndPlan, EndBatch, StartDeletions
    <3> QED
      BY <2>0, <2>1, <2>2, <3>1 DEF CompleteInv, Waiting
  <2> QED
    BY <1>1, <2>3, <2>4, <2>5, <2>6 DEF Phases, Preview, SelectAsset, EndPreview, EndLook,
       StartRun, Finish
<1>2. ASSUME NEW r \in todo, PlanResource(r) PROVE CompleteInv'
  <2>0. CASE pc # "build"
    <3>1. pc' \in {"idle", pc} /\ pc \in {"preview", "look"}
      BY <1>2, <2>0 DEF PlanResource, PlanTracked, PlanUntracked, Plan, Adopt, Reserve, Raise
    <3> QED
      BY <3>1 DEF CompleteInv
  <2>1. \A S : ResourcesOf(S)' = ResourcesOf(S)
    BY <1>2 DEF PlanResource, ResourcesOf, AssetAllowed, SelectResources
  <2>2. CASE Raise
    BY <2>2 DEF Raise, CompleteInv
  <2>3. ASSUME NEW p, NEW stage, Reserve(r, p, stage), Given(r, p, stage),
               \A q \in DOMAIN row : q \in DOMAIN row' /\ row'[q] = row[q],
               foreign \in BOOLEAN, foreign' \in BOOLEAN, foreign => foreign',
               stage \in {"get", "repair"} \/ Kept(r)', pc = "build"
        PROVE  CompleteInv'
    <3> DEFINE new == [resource |-> r, path |-> p, stage |-> stage]
    <3>1. /\ p \notin DOMAIN reserved
          /\ \A q \in DOMAIN reserved : q \in DOMAIN reserved' /\ reserved'[q] = reserved[q]
      BY <2>3 DEF Reserve, Given, Put
    <3>2. /\ tasks' = tasks \cup {new} /\ new.resource = r /\ new.stage = stage
          /\ todo' = todo \ {r} /\ UNCHANGED <<queue, limited, pc, disk, failed>>
      BY <1>2, <2>3 DEF Reserve, PlanResource
    <3> HIDE DEF new
    <3>3. ASSUME NEW q, Kept(q) PROVE Kept(q)'
      BY <2>3, <3>1, <3>2, <3>3 DEF Kept, At
    <3>4. ASSUME NEW q, Waiting(q), q # r PROVE Waiting(q)'
      BY <3>2, <3>4 DEF Waiting
    <3>5. Waiting(r)' \/ Kept(r)'
      BY <2>3, <3>2 DEF Waiting
    <3>6. Making' = {}
      <4>1. \A u \in tasks' : u.stage \notin {"kept", "converting"}
        BY <2>3, <3>2 DEF ControlInv
      <4> QED
        BY <4>1 DEF Making
    <3> QED
      BY <2>1, <3>2, <3>3, <3>4, <3>5, <3>6 DEF CompleteInv
  <2>4. ASSUME NEW p \in Path, NEW stage \in {"skip", "get", "repair"}, PlansRow(r, p, stage),
               pc = "build"
        PROVE  CompleteInv'
    <3>1. Reserve(r, p, stage) /\ Given(r, p, stage) /\ UNCHANGED <<row, foreign>>
      BY <2>4 DEF PlansRow, Plan
    <3>2. foreign \in BOOLEAN
      BY TypeParts DEF WorldOK
    <3>3. ASSUME stage = "skip" PROVE Kept(r)'
      <4>1. r \in DOMAIN row /\ IsComplete(r) /\ row[r].path = p /\ UNCHANGED disk
        BY <1>2, <2>4, <3>3 DEF PlansRow, Given, PlanResource
      <4>2. p \in DOMAIN reserved' /\ reserved'[p] = r
        BY <3>1 DEF Reserve, Put
      <4> QED
        BY <3>1, <4>1, <4>2 DEF Kept, IsComplete, At
    <3> QED
      BY <2>3, <2>4, <3>1, <3>2, <3>3
  <2>5. ASSUME NEW p \in Path, Adopts(r, p), pc = "build" PROVE CompleteInv'
    <3> DEFINE e == [path |-> p, content |-> disk[p], status |-> "VERIFIED"]
    <3>1. /\ Reserve(r, p, "skip") /\ Given(r, p, "skip") /\ r \notin DOMAIN row
          /\ UNCHANGED disk
      BY <1>2, <2>5 DEF Adopts, Adopt, PlanResource
    <3>2. foreign \in BOOLEAN
      BY TypeParts DEF WorldOK
    <3>3. row' = Put(row, r, e) /\ foreign' = (foreign \/ disk[p] # Original(r))
      BY <2>5 DEF Adopts, Adopt
    <3>4. p \in DOMAIN disk
      BY <3>1, FileContent DEF Given
    <3>5. e.path = p /\ e.content = disk[p] /\ e.status = "VERIFIED"
      OBVIOUS
    <3> HIDE DEF e
    <3>6. Kept(r)'
      <4>1. r \in DOMAIN row' /\ row'[r] = e
        BY <3>3 DEF Put
      <4>2. p \in DOMAIN reserved' /\ reserved'[p] = r
        BY <3>1 DEF Reserve, Put
      <4> QED
        BY <3>1, <3>3, <3>4, <3>5, <4>1, <4>2 DEF Kept, At
    <3>7. /\ \A q \in DOMAIN row : q \in DOMAIN row' /\ row'[q] = row[q]
          /\ foreign' \in BOOLEAN
          /\ foreign => foreign'
      BY <3>1, <3>2, <3>3 DEF Put
    <3> QED
      BY <2>3, <2>5, <3>1, <3>2, <3>6, <3>7
  <2> QED
    BY <1>0, <1>2, <2>0, <2>2, <2>4, <2>5, PlannerSteps
<1>3. ASSUME NEW t \in tasks, Fetch(t) PROVE CompleteInv'
  <2> DEFINE r == t.resource
             e == [path |-> t.path, content |-> Original(r), status |-> "VERIFIED"]
             new == [t EXCEPT !.stage = "fetched"]
  <2>1. /\ row' = Put(row, r, e) /\ disk' = Put(disk, t.path, Original(r))
        /\ tasks' = (tasks \ {t}) \cup {new} /\ pc = "work"
        /\ UNCHANGED <<pc, queue, limited, todo, reserved, protected, config, foreign, failed>>
    BY <1>3 DEF Fetch, WorkStep, AtStage
  <2>2. \A S : ResourcesOf(S)' = ResourcesOf(S)
    BY <2>1 DEF ResourcesOf, AssetAllowed, SelectResources
  <2>3. e.path = t.path /\ e.content = Original(r) /\ e.status = "VERIFIED"
    OBVIOUS
  <2>4. t.path \in DOMAIN reserved /\ reserved[t.path] = r
    BY DEF TaskInv
  <2> HIDE DEF e, new
  <2>5. Kept(r)'
    BY <2>1, <2>3, <2>4 DEF Kept, At, Put
  <2>6. ASSUME NEW q, Kept(q), q # r PROVE Kept(q)'
    <3>1. q \in DOMAIN row' /\ row'[q] = row[q] /\ row[q].path # t.path
      BY <2>1, <2>4, <2>6 DEF Put, Kept
    <3> QED
      BY <2>1, <2>6, <3>1 DEF Kept, At, Put
  <2>7. ASSUME NEW q, Waiting(q), q # r PROVE Waiting(q)'
    BY <2>1, <2>7 DEF Waiting
  <2>8. Making' \subseteq Making
    <3>1. new.stage = "fetched"
      BY <1>0, TaskFields DEF new, Stages
    <3> QED
      BY <2>1, <3>1 DEF Making
  <2>9. \A u : JpegTarget(u.path)' = JpegTarget(u.path)
    BY <2>1, TargetsStay
  <2> QED
    BY <2>1, <2>2, <2>5, <2>6, <2>7, <2>8, <2>9 DEF CompleteInv
<1>4. ASSUME NEW t \in tasks, LookForJpeg(t) \/ Convert(t) \/ TaskFails(t)
      PROVE  CompleteInv'
  <2>1. /\ pc = "work" 
        /\ UNCHANGED <<pc, queue, limited, todo, reserved, protected, config, foreign>>
    BY <1>4 DEF LookForJpeg, Convert, TaskFails, WorkStep
  <2>2. \A S : ResourcesOf(S)' = ResourcesOf(S)
    BY <2>1 DEF ResourcesOf, AssetAllowed, SelectResources
  <2>3. CASE TaskFails(t)
    BY <2>3 DEF TaskFails, CompleteInv
  <2>4. CASE LookForJpeg(t) \/ Convert(t)
    <3>1. UNCHANGED failed /\ t.stage \notin {"get", "repair"} /\ tasks \ {t} \subseteq tasks'
      BY <2>4 DEF LookForJpeg, Convert, AtStage
    <3>2. ASSUME NEW q, Waiting(q) PROVE Waiting(q)'
      BY <2>1, <3>1, <3>2 DEF Waiting
    <3>3. ASSUME ~failed, NEW q \in ResourcesOf(limited), Kept(q) PROVE Kept(q)'
      <4>0. q \in ResourcesOf(Listed)
        BY DEF OrderInv, ResourcesOf
      <4>2. \A u \in Making : JpegTarget(u.path) # row[q].path
        BY <2>1, <3>3 DEF CompleteInv, Kept
      <4>1. /\ q \in DOMAIN row' /\ row'[q] = row[q] /\ row[q].path \in DOMAIN disk
            /\ row[q].path \in DOMAIN disk' /\ disk'[row[q].path] = disk[row[q].path]
        BY <1>4, <3>3, <4>0, <4>2, KeptMeans, FilesStay
      <4> QED
        BY <2>1, <3>3, <4>1 DEF Kept, At
    <3>4. ASSUME ~failed, NEW u \in Making' PROVE JpegTarget(u.path) \notin DOMAIN reserved
      <4>1. CASE u \in Making
        BY <2>1, <3>4, <4>1 DEF CompleteInv
      <4>2. CASE u \notin Making
        <5>0. u \in tasks' /\ u \notin tasks
          BY <3>4, <4>2 DEF Making
        <5>3. LookForJpeg(t)
          BY <2>4, <5>0 DEF Convert
        <5>1. PICK stage \in {"kept", "converting"} : tasks' = AtStage(t, stage)
          BY <5>0, <5>3 DEF LookForJpeg
        <5>2. u.path = t.path
          <6>1. u = [t EXCEPT !.stage = stage]
            BY <5>0, <5>1 DEF AtStage
          <6> QED
            BY <1>0, <6>1, TaskFields DEF Stages
        <5>4. ~IsFile(JpegTarget(t.path))
          BY <5>0, <5>3 DEF LookForJpeg
        <5>5. PICK p : p = JpegTarget(t.path)
          OBVIOUS
        <5>6. p \notin protected
          <6>1. t.path \in Path
            BY <1>0 DEF Task
          <6> QED
            BY <5>5, <6>1, JpegTargetIsFree DEF FiniteInv
        <5> SUFFICES ASSUME p \in DOMAIN reserved PROVE FALSE
          BY <5>2, <5>5
        <5>7. PICK x : x = reserved[p]
          OBVIOUS
        <5>8. x \in ResourcesOf(limited) /\ x \notin todo /\ x.asset \notin queue
          BY <2>1, <5>7 DEF OrderInv, Scope, ReservedInv
        <5>9. ~Kept(x)
          <6> SUFFICES ASSUME Kept(x) PROVE FALSE
            OBVIOUS
          <6>1. row[x].path = p
            BY <5>7 DEF Kept, ReservedInv
          <6> QED
            BY <5>4, <5>5, <6>1, KeptMeans
        <5>10. PICK v \in tasks : v.resource = x /\ v.stage \in {"get", "repair"}
          BY <2>1, <3>4, <5>8, <5>9 DEF CompleteInv, Waiting
        <5>11. v.path = p
          BY <5>7, <5>10 DEF TaskInv, ReservedInv
        <5> QED
          BY <2>1, <5>6, <5>10, <5>11 DEF TaskInv
      <4> QED
        BY <4>1, <4>2
    <3>5. \A u : JpegTarget(u.path)' = JpegTarget(u.path)
      BY <2>1, TargetsStay
    <3> QED
      BY <2>1, <2>2, <3>1, <3>2, <3>3, <3>4, <3>5 DEF CompleteInv
  <2> QED
    BY <1>4, <2>3, <2>4
<1>5. ASSUME NEW a \in Asset, DeleteFiles(a) PROVE CompleteInv'
  <2>1. /\ pc = "delete" /\ failed \in BOOLEAN /\ failed' \in {failed, TRUE}
        /\ UNCHANGED <<pc, queue, limited, todo, tasks, reserved, config, foreign>>
    BY <1>5, TypeParts DEF DeleteFiles, WorldOK
  <2>2. \A S : ResourcesOf(S)' = ResourcesOf(S)
    BY <2>1 DEF ResourcesOf, AssetAllowed, SelectResources
  <2>4. Making = {} /\ Making' = {}
    BY <2>1, NoneIsMade DEF Making
  <2>3. ASSUME NEW q \in ResourcesOf(limited), Kept(q) PROVE Kept(q)'
    <3>0. q \in ResourcesOf(Listed)
      BY DEF OrderInv, ResourcesOf
    <3>1. /\ q \in DOMAIN row' /\ row'[q] = row[q] /\ row[q].path \in DOMAIN disk
          /\ row[q].path \in DOMAIN disk' /\ disk'[row[q].path] = disk[row[q].path]
      BY <1>5, <2>3, <2>4, <3>0, KeptMeans, FilesStay
    <3> QED
      BY <2>1, <2>3, <3>1 DEF Kept, At
  <2> QED
    BY <2>1, <2>2, <2>3, <2>4 DEF CompleteInv, Waiting
<1>6. CASE OutsideStep
  BY <1>6 DEF OutsideStep, CompleteInv
<1>7. CASE UNCHANGED vars
  <2>1. \A S : ResourcesOf(S)' = ResourcesOf(S)
    BY <1>7 DEF vars, ResourcesOf, AssetAllowed, SelectResources
  <2>2. \A u : JpegTarget(u.path)' = JpegTarget(u.path)
    BY <1>7, TargetsStay DEF vars
  <2> QED
    BY <1>7, <2>1, <2>2 DEF vars, CompleteInv, Waiting, Kept, At, Making
<1> QED
  BY <1>1, <1>2, <1>3, <1>4, <1>5, <1>6, <1>7, OutsideSteps

\* A complete run leaves no resource without a file of its own; a run that starts there
\* finds every row complete and its path unassigned, and so downloads nothing.
LEMMA SettledStep ==
  ASSUME PlannerInv, ControlInv, TaskInv, VictimsInv, CompleteInv, SettledInv, [Next]_vars,
         ControlInv'
  PROVE  SettledInv'
<1> USE DEF PlannerInv, outsideVars, rowVars, planVars, workVars, historyVars
<1>0. todo \subseteq Resource /\ tasks \subseteq Task
  BY TypeParts DEF RunOK
<1>1. ASSUME ~settled' PROVE SettledInv'
  BY <1>1 DEF SettledInv
<1>2. CASE Phases
  <2>1. Listed' = Listed /\ ResourcesOf(Listed)' = ResourcesOf(Listed)
    BY <1>2, ListedStays, PhasesKeepData
  <2>2. ASSUME NEW r, Whole(r) PROVE Whole(r)'
    BY <1>2, <2>2, PhasesKeepData DEF Whole, IsComplete, At
  <2>0. Making' = {}
    <3>1. CASE pc' # "work"
      <4>1. \A t \in tasks' : t.stage \notin {"kept", "converting"}
        BY <3>1 DEF ControlInv
      <4> QED
        BY <4>1 DEF Making
    <3>2. CASE pc' = "work"
      <4>1. UNCHANGED tasks /\ pc = "build"
        BY <1>2, <3>2 DEF Phases, Preview, SelectAsset, EndPreview, StartRun, EndLook, PlanBatch,
           EndPlan, EndBatch, StartDeletions, Finish
      <4> QED
        BY <4>1, NoneIsMade DEF Making
    <3> QED
      BY <3>1, <3>2
  <2>3. CASE Finish
    <3>1. tasks = {} /\ todo = {} /\ queue = {}
      BY <2>3 DEF Finish, ControlInv
    <3>2. ASSUME ~failed, ~foreign, limited = Listed, NEW r \in ResourcesOf(Listed)
          PROVE  Whole(r) /\ row[r].path \in DOMAIN reserved /\ reserved[row[r].path] = r
      <4>1. Kept(r)
        BY <2>3, <3>1, <3>2 DEF CompleteInv, Waiting, Finish
      <4> QED
        BY <3>2, <4>1 DEF Kept, Whole, IsComplete
    <3>3. planned' = {} /\ DOMAIN reserved' = {} /\ UNCHANGED <<row, tasks, todo, queue>>
      BY <2>3 DEF Finish, RunForgotten
    <3>4. ASSUME settled' PROVE SettledInv'
      <4>0. ~failed /\ ~foreign /\ limited = Listed
        BY <2>3, <3>4, Zenon DEF Finish
      <4>1. \A r \in ResourcesOf(Listed) : Whole(r)'
        BY <2>2, <3>2, <4>0
      <4>2. \A r, q \in ResourcesOf(Listed) : row'[r].path = row'[q].path => r = q
        BY <3>2, <3>3, <4>0
      <4> QED
        BY <2>0, <2>1, <3>1, <3>3, <4>1, <4>2 DEF SettledInv
    <3> QED
      BY <1>1, <3>4
  <2>4. ASSUME UNCHANGED <<settled, row>>, settled => \A t \in planned' \ planned : t.stage = "skip",
               settled => /\ todo' \subseteq ResourcesOf(Listed) /\ queue' \subseteq Listed
                          /\ tasks' \subseteq tasks,
               DOMAIN reserved' = {} \/ UNCHANGED reserved
        PROVE  SettledInv'
    BY <2>0, <2>1, <2>2, <2>4 DEF SettledInv
  <2>5. CASE Preview
    BY <2>4, <2>5 DEF Preview, SettledInv
  <2>6. CASE StartRun
    BY <2>4, <2>6 DEF StartRun, SettledInv
  <2>11. CASE EndLook
    <3>1. /\ UNCHANGED <<settled, row, todo, planned>> /\ DOMAIN reserved' = {}
          /\ queue' \subseteq Listed /\ tasks' = {}
      BY <2>11 DEF EndLook
    <3>2. settled => todo' \subseteq ResourcesOf(Listed)
      BY <3>1 DEF SettledInv
    <3> QED
      BY <2>4, <3>1, <3>2
  <2>7. CASE PlanBatch \/ SelectAsset
    <3>1. \A n : ResourcesOf(Newest(queue, n)) \subseteq ResourcesOf(queue)
      BY DEF ResourcesOf, Newest
    <3>2. queue \subseteq Listed => ResourcesOf(queue) \subseteq ResourcesOf(Listed)
      BY DEF ResourcesOf
    <3>3. UNCHANGED <<settled, row, planned, tasks, reserved>> /\ queue' \subseteq queue
          /\ \E n : todo' = ResourcesOf(Newest(queue, n))
      BY <2>7 DEF PlanBatch, SelectAsset
    <3>4. settled => queue \subseteq Listed
      BY DEF SettledInv
    <3> QED
      BY <2>4, <3>1, <3>2, <3>3, <3>4
  <2>8. CASE EndPlan
    <3>1. settled => \A t \in tasks : t.stage = "skip"
      BY <2>8 DEF EndPlan, ControlInv, SettledInv
    <3>2. /\ UNCHANGED <<settled, row, todo, queue, tasks, reserved>>
          /\ planned' = planned \cup tasks
      BY <2>8 DEF EndPlan
    <3>3. settled => \A t \in planned' \ planned : t.stage = "skip"
      BY <3>1, <3>2
    <3>4. settled => /\ todo' \subseteq ResourcesOf(Listed) /\ queue' \subseteq Listed
                     /\ tasks' \subseteq tasks
      BY <3>2 DEF SettledInv
    <3> QED
      BY <2>4, <3>2, <3>3, <3>4
  <2>9. CASE EndPreview
    <3>1. /\ DOMAIN reserved' = {} /\ tasks' = {} /\ queue' = {}
          /\ UNCHANGED <<settled, row, planned, todo>>
      BY <2>9 DEF EndPreview
    <3> QED
      BY <2>0, <2>1, <2>2, <3>1 DEF SettledInv
  <2>10. CASE EndBatch \/ StartDeletions
    BY <2>4, <2>10 DEF EndBatch, StartDeletions, SettledInv
  <2> QED
    BY <1>2, <2>3, <2>5, <2>6, <2>7, <2>8, <2>9, <2>10, <2>11 DEF Phases
<1>3. ASSUME NEW r \in todo, PlanResource(r), settled, settled' PROVE SettledInv'
  <2>1. Listed' = Listed /\ ResourcesOf(Listed)' = ResourcesOf(Listed)
    BY <1>3, ListedStays DEF PlanResource
  <2>2. r \in ResourcesOf(Listed) /\ Whole(r)
    BY <1>3 DEF SettledInv
  <2>3. ~(row[r].path \in DOMAIN reserved /\ reserved[row[r].path] # r)
    BY <1>3, <2>2 DEF SettledInv
  <2>4. ~Raise
    BY <1>3 DEF Raise
  <2>5. PICK p \in Path, stage \in {"skip", "get", "repair"} : PlansRow(r, p, stage)
    BY <1>0, <1>3, <2>2, <2>4, PlannerSteps DEF Whole, Adopts
  <2>6. row[r].path = p /\ stage = "skip"
    BY <2>2, <2>3, <2>5 DEF PlansRow, Given, Whole
  <2> DEFINE new == [resource |-> r, path |-> p, stage |-> stage]
  <2>7. /\ reserved' = Put(reserved, p, r) /\ tasks' = tasks \cup {new}
        /\ todo' \subseteq todo /\ UNCHANGED <<row, disk, queue, planned>>
        /\ new.stage = "skip"
    BY <1>3, <2>5, <2>6 DEF PlansRow, Plan, Reserve, PlanResource
  <2> HIDE DEF new
  <2>8. ASSUME NEW q, Whole(q) PROVE Whole(q)'
    BY <2>7, <2>8 DEF Whole, IsComplete, At
  <2>9. \A t \in tasks' : t.stage \notin {"get", "repair"}
    BY <1>3, <2>7 DEF SettledInv
  <2>11. Making' = {}
    <3>1. Making = {}
      BY <1>3, NoneIsMade DEF PlanResource
    <3> QED
      BY <2>7, <3>1 DEF Making
  <2>10. \A q \in DOMAIN reserved' :
           reserved'[q] \in ResourcesOf(Listed) /\ row[reserved'[q]].path = q
    BY <1>3, <2>2, <2>6, <2>7 DEF SettledInv, Put
  <2> QED
    BY <1>3, <2>1, <2>7, <2>8, <2>9, <2>10, <2>11 DEF SettledInv
<1>4. ASSUME NEW t \in tasks, Fetch(t) PROVE SettledInv'
  <2>1. ~settled /\ UNCHANGED settled
    BY <1>4 DEF Fetch, WorkStep, SettledInv
  <2> QED
    BY <1>1, <2>1
<1>5. ASSUME \/ \E t \in tasks : LookForJpeg(t) \/ Convert(t) \/ TaskFails(t)
             \/ \E a \in Asset : DeleteFiles(a),
             settled
      PROVE  SettledInv'
  <2>1. /\ UNCHANGED <<queue, todo, reserved, remote, config, planned, settled>>
        /\ \A u \in tasks' : u \in tasks \/ u.stage \in {"kept", "converting"}
    <3>1. ASSUME NEW t \in tasks, LookForJpeg(t) \/ Convert(t) \/ TaskFails(t)
          PROVE  /\ UNCHANGED <<queue, todo, reserved, remote, config, planned, settled>>
                 /\ \A u \in tasks' : u \in tasks \/ u.stage \in {"kept", "converting"}
      <4>1. \A stage \in {"kept", "converting"} :
               \A u \in AtStage(t, stage) : u \in tasks \/ u.stage = stage
        <5>1. \A stage \in {"kept", "converting"} : [t EXCEPT !.stage = stage].stage = stage
          BY <1>0, <3>1, TaskFields DEF Stages
        <5> QED
          BY <5>1 DEF AtStage
      <4>2. \/ tasks' = tasks \ {t}
            \/ \E stage \in {"kept", "converting"} : tasks' = AtStage(t, stage)
        BY <3>1 DEF LookForJpeg, Convert, TaskFails
      <4>3. UNCHANGED <<queue, todo, reserved, remote, config, planned, settled>>
        BY <3>1 DEF LookForJpeg, Convert, TaskFails, WorkStep
      <4> QED
        BY <4>1, <4>2, <4>3
    <3> QED
      BY <1>5, <3>1 DEF DeleteFiles
  <2>2. Listed' = Listed /\ ResourcesOf(Listed)' = ResourcesOf(Listed)
    BY <2>1, ListedStays
  <2>3. ASSUME NEW q \in ResourcesOf(Listed)
        PROVE  Whole(q)' /\ row'[q] = row[q] /\ q \in DOMAIN row /\ IsFile(row[q].path)
    <3>1. Whole(q)
      BY <1>5 DEF SettledInv
    <3>2. IsFile(row[q].path)
      BY <3>1, Contents, TypeParts DEF Whole, IsComplete, RowsOK, Entry, IsFile
    <3>3. \A t \in Making : JpegTarget(t.path) # row[q].path
      BY <1>5 DEF SettledInv
    <3>4. /\ q \in DOMAIN row' /\ row'[q] = row[q] /\ row[q].path \in DOMAIN disk
          /\ row[q].path \in DOMAIN disk' /\ disk'[row[q].path] = disk[row[q].path]
      BY <1>5, <3>1, <3>2, <3>3, FilesStay DEF Whole
    <3> QED
      BY <3>1, <3>2, <3>4 DEF Whole, IsComplete, At
  <2>4. ASSUME NEW u \in Making', NEW q \in ResourcesOf(Listed)
        PROVE  row[q].path # JpegTarget(u.path)'
    <3>1. CASE \E a \in Asset : DeleteFiles(a)
      BY <3>1, <2>4, NoneIsMade DEF DeleteFiles, Making
    <3>2. ASSUME NEW t \in tasks, LookForJpeg(t) \/ Convert(t) \/ TaskFails(t)
          PROVE  row[q].path # JpegTarget(u.path)'
      <4>0. JpegTarget(u.path)' = JpegTarget(u.path)
        <5>1. UNCHANGED <<protected, config>>
          BY <3>2 DEF LookForJpeg, Convert, TaskFails, WorkStep
        <5> QED
          BY <5>1, TargetsStay
      <4>1. CASE u \in Making
        BY <1>5, <4>0, <4>1 DEF SettledInv
      <4>2. CASE u \notin Making
        <5>0. u \in tasks' /\ u \notin tasks
          BY <2>4, <4>2 DEF Making
        <5>3. LookForJpeg(t)
          BY <3>2, <5>0 DEF Convert, TaskFails
        <5>1. PICK stage \in {"kept", "converting"} : tasks' = AtStage(t, stage)
          BY <5>0, <5>3 DEF LookForJpeg
        <5>2. u.path = t.path
          <6>1. u = [t EXCEPT !.stage = stage]
            BY <5>0, <5>1 DEF AtStage
          <6> QED
            BY <1>0, <6>1, TaskFields DEF Stages
        <5>4. ~IsFile(JpegTarget(t.path))
          BY <5>0, <5>3 DEF LookForJpeg
        <5>5. IsFile(row[q].path)
          BY <2>3
        <5> QED
          BY <4>0, <5>2, <5>4, <5>5
      <4> QED
        BY <4>1, <4>2
    <3> QED
      BY <1>5, <3>1, <3>2
  <2> QED
    BY <1>5, <2>1, <2>2, <2>3, <2>4 DEF SettledInv
<1>6. CASE OutsideStep
  BY <1>1, <1>6 DEF OutsideStep
<1>7. CASE UNCHANGED vars
  <2>1. Listed' = Listed /\ ResourcesOf(Listed)' = ResourcesOf(Listed)
    BY <1>7, ListedStays DEF vars
  <2>2. \A u : JpegTarget(u.path)' = JpegTarget(u.path)
    BY <1>7, TargetsStay DEF vars
  <2> QED
    BY <1>7, <2>1, <2>2 DEF vars, SettledInv, Whole, IsComplete, At, Making
<1>8. CASE \E r \in todo : PlanResource(r)
  <2>1. settled' => settled
    BY <1>8 DEF PlanResource, PlanTracked, PlanUntracked, Plan, Adopt, Reserve, Raise
  <2> QED
    BY <1>1, <1>3, <1>8, <2>1
<1>9. CASE \/ \E t \in tasks : LookForJpeg(t) \/ Convert(t) \/ TaskFails(t)
           \/ \E a \in Asset : DeleteFiles(a)
  <2>1. UNCHANGED settled
    BY <1>9 DEF LookForJpeg, Convert, TaskFails, WorkStep, DeleteFiles
  <2> QED
    BY <1>1, <1>5, <1>9, <2>1
<1> QED
  BY <1>2, <1>4, <1>6, <1>7, <1>8, <1>9, OutsideSteps

\* Two resources of the plan are never planned at the same time.
LEMMA PlanIsOrdered ==
  ASSUME NEW S \in SUBSET Asset, NEW q \in ResourcesOf(S), NEW r \in ResourcesOf(S), q # r
  PROVE  Before(q, r) \/ Before(r, q)
<1>1. q \in Resource /\ r \in Resource /\ q.asset \in Asset /\ r.asset \in Asset
  BY ResourcesOfType, ResourceFields
<1>2. CASE q.asset # r.asset
  BY <1>1, <1>2, ConstantsAssumption DEF Before, Newer
<1>3. CASE q.asset = r.asset
  <2> DEFINE rs == SelectResources(r.asset)
  <2>1. PICK i, j \in DOMAIN rs : q = rs[i] /\ r = rs[j]
    BY <1>3 DEF ResourcesOf, ToSet
  <2>2. DOMAIN rs \subseteq Int
    <3>1. PICK x, y : rs = x \o y
      BY DEF SelectResources, Select
    <3> QED
      BY <3>1
  <2>3. i < j \/ j < i
    <3> HIDE DEF rs
    <3> QED
      BY <2>1, <2>2
  <2> QED
    BY <1>3, <2>1, <2>3 DEF Before
<1> QED
  BY <1>2, <1>3

\* The order of the plan rests on the configuration only.
LEMMA OrderStays ==
  ASSUME UNCHANGED config, NEW q, NEW r
  PROVE  Before(q, r)' <=> Before(q, r)
BY DEF Before, SelectResources

\* A batch has the newest assets of those still to come.
LEMMA NewestFirst ==
  ASSUME NEW S \in SUBSET Asset, NEW n \in Nat, NEW a \in Newest(S, n), NEW b \in S \ Newest(S, n)
  PROVE  Newer(a, b)
<1> DEFINE above(c) == {d \in S : Newer(d, c)}
<1>1. a \in S /\ Cardinality(above(a)) < n /\ ~(Cardinality(above(b)) < n)
  BY DEF Newest
<1>2. AddedAt[a] \in Nat /\ AddedAt[b] \in Nat /\ \A d \in S : AddedAt[d] \in Nat
  BY <1>1, ConstantsAssumption
<1>3. IsFiniteSet(above(a)) /\ IsFiniteSet(above(b))
  BY FS_Subset, ConstantsAssumption
<1>4. SUFFICES ASSUME ~Newer(a, b) PROVE FALSE
  OBVIOUS
<1>5. AddedAt[b] >= AddedAt[a]
  BY <1>2, <1>4 DEF Newer
<1>6. above(b) \subseteq above(a)
  BY <1>2, <1>5 DEF Newer
<1>7. /\ Cardinality(above(b)) <= Cardinality(above(a))
      /\ Cardinality(above(a)) \in Nat /\ Cardinality(above(b)) \in Nat
  BY <1>3, <1>6, FS_Subset, FS_CardinalityType
<1> QED
  <2> HIDE DEF above
  <2> QED
    BY <1>1, <1>7

\* The one that a scan or a preview selects is the newest.
LEMMA NewestIsOne ==
  ASSUME NEW S \in SUBSET Asset, NEW a \in Newest(S, 1), NEW b \in S
  PROVE  a = b \/ Newer(a, b)
<1> DEFINE above == {d \in S : Newer(d, a)}
<1>1. a \in S /\ Cardinality(above) < 1 /\ IsFiniteSet(above)
  BY FS_Subset, ConstantsAssumption DEF Newest
<1>2. above = {}
  <2> HIDE DEF above
  <2>1. Cardinality(above) \in Nat /\ (Cardinality(above) = 0 => above = {})
    BY <1>1, FS_CardinalityType, FS_EmptySet
  <2> QED
    BY <1>1, <2>1
<1>3. ~Newer(b, a)
  BY <1>2
<1>4. AddedAt[a] \in Nat /\ AddedAt[b] \in Nat /\ (AddedAt[a] = AddedAt[b] => a = b)
  BY <1>1, ConstantsAssumption
<1> QED
  BY <1>3, <1>4 DEF Newer

\* Which resource is planned next is settled, also across batches.
LEMMA OrderStep ==
  ASSUME PlannerInv, ControlInv, OrderInv, [Next]_vars
  PROVE  OrderInv'
<1> USE DEF PlannerInv, outsideVars, rowVars, planVars, workVars, historyVars
<1>0. /\ queue \subseteq Asset /\ todo \subseteq Resource /\ Listed \subseteq Asset
      /\ limited \subseteq Asset /\ Scope \subseteq Asset
      /\ \A p \in DOMAIN reserved : reserved[p] \in Resource
  BY TypeParts DEF RunOK, Listed, Scope
<1>1. ASSUME UNCHANGED <<remote, config, queue, limited, todo, reserved>>,
             pc' \in {"preview", "look"} <=> pc \in {"preview", "look"}, pc # "idle"
      PROVE  OrderInv'
  <2>1. Listed' = Listed /\ \A S : ResourcesOf(S)' = ResourcesOf(S)
    BY <1>1, ListedStays DEF ResourcesOf, AssetAllowed, SelectResources
  <2>2. Scope' = Scope
    BY <1>1, <2>1 DEF Scope
  <2>3. \A r : Dealt(r)' <=> Dealt(r)
    BY <1>1 DEF Dealt
  <2>4. \A q, r : Before(q, r)' <=> Before(q, r)
    BY <1>1, OrderStays
  <2> QED
    BY <1>1, <2>1, <2>2, <2>3, <2>4 DEF OrderInv, Rest
<1>2. ASSUME DOMAIN reserved' = {}, todo' = {}, queue' = {}, limited' = {}, pc' = "idle"
      PROVE  OrderInv'
  BY <1>2 DEF OrderInv
<1>3. ASSUME DOMAIN reserved' = {}, todo' = {}, UNCHANGED <<remote, config>>,
             queue' = Scope', limited' \subseteq Listed
      PROVE  OrderInv'
  <2>1. Listed' = Listed /\ \A S : ResourcesOf(S)' = ResourcesOf(S)
    BY <1>3, ListedStays DEF ResourcesOf, AssetAllowed, SelectResources
  <2>2. \A S : \A r \in ResourcesOf(S) : r.asset \in S
    BY DEF ResourcesOf
  <2>3. pc' \in {"preview", "look"} => queue' = Listed
    BY <1>3, <2>1 DEF Scope
  <2> QED
    BY <1>3, <2>1, <2>2, <2>3 DEF OrderInv, Rest
<1>4. CASE Preview
  <2>1. DOMAIN reserved' = {} /\ todo' = {} /\ limited' = {} /\ queue' = Listed
        /\ UNCHANGED <<remote, config>> /\ pc' = "preview"
    BY <1>4 DEF Preview, ControlInv
  <2> QED
    BY <1>3, <2>1, ListedStays DEF Scope
<1>5. CASE StartRun
  <2>1. DOMAIN reserved' = {} /\ todo' = {} /\ queue' = Listed /\ UNCHANGED <<remote, config>>
        /\ \/ pc' = "plan" /\ limited' = Listed
           \/ pc' = "look" /\ limited' = {}
    BY <1>5 DEF StartRun, ControlInv
  <2> QED
    BY <1>3, <2>1, ListedStays DEF Scope
<1>6. CASE EndLook
  <2>1. DOMAIN reserved' = {} /\ todo' = {} /\ queue' = limited' /\ UNCHANGED <<remote, config>>
        /\ pc' = "plan" /\ limited' \subseteq Listed
    BY <1>6 DEF EndLook
  <2> QED
    BY <1>3, <2>1 DEF Scope
<1>7. CASE EndPreview
  BY <1>2, <1>7 DEF EndPreview, ControlInv
\* The next assets are selected from those still to come.
<1>8. ASSUME NEW n \in Nat, todo' = ResourcesOf(Newest(queue, n)),
             queue' = queue \ Newest(queue, n), todo = {}, Scope' = Scope,
             UNCHANGED <<remote, config, limited, reserved>>, pc # "idle",
             pc' \in {"preview", "look"} => pc' = pc /\ n = 1
      PROVE  OrderInv'
  <2> DEFINE new == Newest(queue, n)
  <2>1. /\ Listed' = Listed /\ \A S : ResourcesOf(S)' = ResourcesOf(S)
        /\ \A r : Dealt(r)' <=> Dealt(r)
    BY <1>8, ListedStays DEF Dealt, ResourcesOf, AssetAllowed, SelectResources
  <2>2. \A q, r : Before(q, r)' <=> Before(q, r)
    BY <1>8, OrderStays
  <2>3. new \subseteq queue /\ queue \subseteq Scope
    BY DEF Newest, OrderInv
  <2>4. /\ \A r \in todo' : r \in ResourcesOf(Scope) /\ r.asset \in new
        /\ \A r \in ResourcesOf(Scope) : r.asset \in new => r \in todo'
    BY <1>8, <2>3 DEF ResourcesOf
  <2> HIDE DEF new
  <2>5. \A r \in ResourcesOf(Scope) : Dealt(r) \/ r \in todo' \/ r.asset \in queue'
    BY <1>8, <2>4 DEF OrderInv, new
  <2>6. ASSUME NEW p \in DOMAIN reserved, NEW r \in todo'
        PROVE  Before(reserved[p], r) /\ ~Before(r, reserved[p])
    <3>1. Newer(reserved[p].asset, r.asset)
      BY <2>3, <2>4 DEF OrderInv
    <3>2. ~Newer(r.asset, reserved[p].asset) /\ r.asset # reserved[p].asset
      <4>1. AddedAt[r.asset] \in Nat /\ AddedAt[reserved[p].asset] \in Nat
        BY <1>0, <2>3, <2>4, ResourceFields, ConstantsAssumption
      <4> QED
        BY <3>1, <4>1 DEF Newer
    <3> QED
      BY <3>1, <3>2 DEF Before
  <2>7. \A a \in queue', r \in todo' : Newer(r.asset, a)
    BY <1>0, <1>8, <2>4, NewestFirst DEF new
  <2>8. \A a \in queue', p \in DOMAIN reserved : Newer(reserved[p].asset, a)
    BY <1>8 DEF OrderInv
  <2>9. ASSUME pc' \in {"preview", "look"}
        PROVE  /\ \A a \in Listed \ queue', b \in queue' : Newer(a, b)
               /\ \A r \in todo', a \in Listed \ queue' : a = r.asset \/ Newer(a, r.asset)
    <3>1. n = 1 /\ \A a \in Listed \ queue, b \in queue : Newer(a, b)
      BY <1>8, <2>9 DEF OrderInv, Rest
    <3>2. \A a \in new, b \in queue' : Newer(a, b)
      BY <1>0, <1>8, NewestFirst DEF new
    <3>3. \A a \in new, b \in queue : a = b \/ Newer(a, b)
      BY <1>0, <3>1, NewestIsOne DEF new
    <3>4. Listed \ queue' = (Listed \ queue) \cup (Listed \cap new) /\ queue' \subseteq queue
      BY <1>8, <2>3 DEF new
    <3> QED
      BY <2>3, <2>4, <3>1, <3>2, <3>3, <3>4
  <2>10. queue' \subseteq Scope /\ limited \subseteq Listed
         /\ \A p \in DOMAIN reserved : reserved[p] \in ResourcesOf(Scope)
    BY <1>8 DEF OrderInv
  <2>11. \A r \in todo' : r \in ResourcesOf(Scope)
    BY <2>4
  <2> QED
    BY <1>8, <2>1, <2>2, <2>5, <2>6, <2>7, <2>8, <2>9, <2>10, <2>11 DEF OrderInv, Rest
<1>9. CASE PlanBatch
  <2>1. /\ todo' = ResourcesOf(Newest(queue, BatchSize)) /\ queue' = queue \ Newest(queue, BatchSize)
        /\ todo = {} /\ UNCHANGED <<remote, config, limited, reserved>>
        /\ pc = "plan" /\ pc' = "build"
    BY <1>9 DEF PlanBatch, ControlInv
  <2>2. Scope' = Scope /\ BatchSize \in Nat
    BY <2>1, ConstantsAssumption DEF Scope
  <2> QED
    BY <1>8, <2>1, <2>2
<1>10. CASE SelectAsset
  <2>1. /\ todo' = ResourcesOf(Newest(queue, 1)) /\ queue' = queue \ Newest(queue, 1)
        /\ todo = {} /\ UNCHANGED <<remote, config, limited, reserved, pc>>
        /\ pc # "idle"
    BY <1>10 DEF SelectAsset
  <2>2. Scope' = Scope
    BY <2>1, ListedStays DEF Scope
  <2> QED
    BY <1>8, <2>1, <2>2
<1>11. CASE EndPlan \/ EndBatch \/ StartDeletions
  BY <1>1, <1>11 DEF EndPlan, EndBatch, StartDeletions
<1>12. CASE Finish
  BY <1>2, <1>12 DEF Finish, ControlInv
<1>13. ASSUME NEW r \in todo, PlanResource(r) PROVE OrderInv'
  <2>0. /\ r \in Resource /\ UNCHANGED <<remote, config>> /\ pc # "idle"
        /\ \A q \in todo : ~Before(q, r)
    BY <1>0, <1>13 DEF PlanResource
  <2>1. CASE Raise
    BY <1>2, <2>1 DEF Raise
  <2>2. ASSUME NEW p, NEW stage, Reserve(r, p, stage), Given(r, p, stage)
        PROVE  OrderInv'
    <3>1. /\ DOMAIN reserved' = DOMAIN reserved \cup {p} /\ reserved'[p] = r
          /\ \A q \in DOMAIN reserved : reserved'[q] = reserved[q] /\ reserved[q] # r
      BY <2>2 DEF Reserve, Given, Put, ReservedInv
    <3>2. UNCHANGED <<pc, queue, limited>> /\ todo' = todo \ {r}
      BY <2>2 DEF Reserve
    <3>3. /\ Listed' = Listed /\ \A S : ResourcesOf(S)' = ResourcesOf(S)
      BY <2>0, ListedStays DEF ResourcesOf, AssetAllowed, SelectResources
    <3>4. \A q : Dealt(q)' <=> Dealt(q) \/ q = r
      BY <3>1 DEF Dealt
    <3>5. \A x, y : Before(x, y)' <=> Before(x, y)
      BY <2>0, OrderStays
    <3>6. \A q \in todo' : Before(r, q) /\ ~Before(q, r)
      BY <1>0, <2>0, <3>2, PlanIsOrdered DEF OrderInv
    <3>7. \A a \in queue : Newer(r.asset, a)
      BY DEF OrderInv
    <3>8. Scope' = Scope
      BY <3>2, <3>3 DEF Scope
    <3>9. \A q \in ResourcesOf(Scope) : Dealt(q)' \/ q \in todo' \/ q.asset \in queue'
      BY <2>0, <3>2, <3>4 DEF OrderInv
    <3>10. \A q \in DOMAIN reserved' :
            /\ reserved'[q] \in ResourcesOf(Scope)
            /\ \A x \in todo' : Before(reserved'[q], x) /\ ~Before(x, reserved'[q])
      BY <3>1, <3>2, <3>6 DEF OrderInv
    <3>11. \A a \in queue' :
             /\ \A q \in DOMAIN reserved' : Newer(reserved'[q].asset, a)
             /\ \A x \in todo' : Newer(x.asset, a)
      BY <3>1, <3>2, <3>7 DEF OrderInv
    <3>12. /\ todo' \subseteq ResourcesOf(Scope) /\ queue' \subseteq Scope
           /\ limited' \subseteq Listed
      BY <3>2 DEF OrderInv
    <3>13. pc \in {"preview", "look"} =>
             /\ \A a \in Listed \ queue, b \in queue : Newer(a, b)
             /\ \A x \in todo', a \in Listed \ queue : a = x.asset \/ Newer(a, x.asset)
      BY <3>2 DEF OrderInv, Rest
    <3> QED
      BY <3>2, <3>3, <3>5, <3>8, <3>9, <3>10, <3>11, <3>12, <3>13 DEF OrderInv, Rest
  <2> QED
    BY <1>13, <2>0, <2>1, <2>2, PlannerSteps DEF PlansRow, Adopts, Plan, Adopt
<1>14. CASE \E t \in tasks : Fetch(t) \/ LookForJpeg(t) \/ Convert(t) \/ TaskFails(t)
  BY <1>1, <1>14 DEF Fetch, LookForJpeg, Convert, TaskFails, WorkStep
<1>15. CASE \E a \in Asset : DeleteFiles(a)
  BY <1>1, <1>15 DEF DeleteFiles
<1>16. CASE OutsideStep
  BY <1>2, <1>16 DEF OutsideStep, ControlInv
<1>17. CASE UNCHANGED vars
  <2>1. CASE pc = "idle"
    BY <1>2, <1>17, <2>1 DEF vars, ControlInv
  <2> QED
    BY <1>1, <1>17, <2>1 DEF vars
<1> QED
  BY <1>4, <1>5, <1>6, <1>7, <1>9, <1>10, <1>11, <1>12, <1>13, <1>14, <1>15, <1>16, <1>17,
     OutsideSteps DEF Phases

\* _conflict_path takes the first number that is free, ...
Numbered(r, sameAsset, assigned) ==
    IsFiniteSet(DOMAIN disk) =>
        \E n \in Nat :
            /\ ConflictPath(r, sameAsset, assigned) = ResolveConflict(r, sameAsset, n)
            /\ Takes(r, sameAsset, assigned, n)
            /\ \A m \in Nat : m < n => ~Takes(r, sameAsset, assigned, m)

\* ... in this state and, the assigned paths being the same, in the next.
LEMMA NumberedTwice ==
  ASSUME NEW r \in Resource, NEW sameAsset \in BOOLEAN, NEW assigned,
         IsFiniteSet(DOMAIN assigned)
  PROVE  Numbered(r, sameAsset, assigned) /\ Numbered(r, sameAsset, assigned)'
<1>1. Numbered(r, sameAsset, assigned)
  BY ConflictNumber DEF Numbered
<1> QED
  BY <1>1, PTL

\* _conflict_path asks of the disk only where the directories are.
LEMMA ConflictPathStays ==
  ASSUME NEW r \in Resource, NEW sameAsset \in BOOLEAN, NEW assigned,
         IsFiniteSet(DOMAIN assigned), IsFiniteSet(DOMAIN disk), IsFiniteSet(DOMAIN disk'),
         UNCHANGED config, \A p : At(p)' = Directory <=> At(p) = Directory
  PROVE  ConflictPath(r, sameAsset, assigned)' = ConflictPath(r, sameAsset, assigned)
<1>1. \A n : ResolveConflict(r, sameAsset, n)' = ResolveConflict(r, sameAsset, n)
  BY DEF ResolveConflict, RelativePath, ConflictSuffix
<1>2. \A n : Takes(r, sameAsset, assigned, n)' <=> Takes(r, sameAsset, assigned, n)
  BY <1>1 DEF Takes
<1>3. PICK n \in Nat :
        /\ ConflictPath(r, sameAsset, assigned) = ResolveConflict(r, sameAsset, n)
        /\ Takes(r, sameAsset, assigned, n)
        /\ \A m \in Nat : m < n => ~Takes(r, sameAsset, assigned, m)
  BY NumberedTwice DEF Numbered
<1>4. PICK k \in Nat :
        /\ ConflictPath(r, sameAsset, assigned)' = ResolveConflict(r, sameAsset, k)'
        /\ Takes(r, sameAsset, assigned, k)'
        /\ \A m \in Nat : m < k => ~Takes(r, sameAsset, assigned, m)'
  BY NumberedTwice DEF Numbered
<1>5. n = k
  <2>1. ~(n < k) /\ ~(k < n)
    BY <1>2, <1>3, <1>4
  <2> QED
    BY <2>1
<1> QED
  BY <1>1, <1>3, <1>4, <1>5

\* A step that writes, at most, to assigned paths and to those in M, and changes no owner of the
\* path it looks at, does not change what the planner decides about r, unless it looks into M.
Spares(r, assigned, M) ==
    /\ UNCHANGED config
    /\ \A p : At(p)' = Directory <=> At(p) = Directory
    /\ \A p : p \notin DOMAIN assigned \cup M => At(p)' = At(p)
    /\ \A p : r \notin DOMAIN row /\ p \notin DOMAIN assigned /\ p = FirstPath(r, assigned) =>
         Owners(p)' = Owners(p)
    /\ r \in DOMAIN row' <=> r \in DOMAIN row
    /\ r \in DOMAIN row => row'[r] = row[r]

\* Where it looks first stays, and with it where a new resource goes.
LEMMA UntrackedPathStays ==
  ASSUME NEW r \in Resource, NEW preferOwn \in BOOLEAN, NEW assigned, NEW M,
         IsFiniteSet(DOMAIN assigned), IsFiniteSet(DOMAIN disk), IsFiniteSet(DOMAIN disk'),
         Spares(r, assigned, M), r \notin DOMAIN row
  PROVE  /\ FirstPath(r, assigned)' = FirstPath(r, assigned)
         /\ FirstPath(r, assigned) \notin M =>
              UntrackedPath(r, preferOwn, assigned)' = UntrackedPath(r, preferOwn, assigned)
<1>0. \A same \in BOOLEAN :
        ConflictPath(r, same, assigned)' = ConflictPath(r, same, assigned)
  BY ConflictPathStays DEF Spares
<1>1. PICK f : f = FirstPath(r, assigned)
  OBVIOUS
<1>2. FirstPath(r, assigned)' = f
  <2>1. RelativePath(r)' = RelativePath(r)
    BY DEF Spares, RelativePath
  <2>2. PICK p : p = RelativePath(r)
    OBVIOUS
  <2>3. PICK same \in BOOLEAN : same = (assigned[p].asset = r.asset)
    OBVIOUS
  <2>4. f = IF p \in DOMAIN assigned THEN ConflictPath(r, same, assigned) ELSE p
    BY <1>1, <2>3, <2>2 DEF FirstPath
  <2>5. FirstPath(r, assigned)'
          = IF p \in DOMAIN assigned THEN ConflictPath(r, same, assigned)' ELSE p
    BY <2>1, <2>3, <2>2 DEF FirstPath
  <2> QED
    BY <1>0, <2>4, <2>5
<1>3. ASSUME f \notin M
      PROVE  UntrackedPath(r, preferOwn, assigned)' = UntrackedPath(r, preferOwn, assigned)
  <2>1. (IsFile(f))' <=> IsFile(f)
    <3>1. f \notin DOMAIN assigned
      BY <1>1, FirstPathIsFree
    <3> QED
      BY <1>3, <3>1 DEF Spares, IsFile
  <2>2. Owners(f)' = Owners(f)
    BY <1>1, FirstPathIsFree DEF Spares
  <2>3. UnownedPath(r, preferOwn, assigned)' = UnownedPath(r, preferOwn, assigned)
    <3>1. PICK others : others = IF IsFile(f) THEN Owners(f) \ {r} ELSE {}
      OBVIOUS
    <3>2. PICK own : own = {q \in others : q.asset = r.asset}
      OBVIOUS
    <3>3. PICK same \in BOOLEAN : same = IF preferOwn THEN own # {} ELSE own = others
      OBVIOUS
    <3>4. UnownedPath(r, preferOwn, assigned)
            = IF others = {} THEN f ELSE ConflictPath(r, same, assigned)
      BY <1>1, <3>3, <3>1, <3>2 DEF UnownedPath
    <3>5. UnownedPath(r, preferOwn, assigned)'
            = IF others = {} THEN f ELSE ConflictPath(r, same, assigned)'
      BY <1>2, <2>1, <2>2, <3>3, <3>1, <3>2 DEF UnownedPath
    <3> QED
      BY <1>0, <3>4, <3>5
  <2>4. PICK u : u = UnownedPath(r, preferOwn, assigned)
    OBVIOUS
  <2>5. At(u)' = Directory <=> At(u) = Directory
    BY DEF Spares
  <2> QED
    BY <1>0, <2>3, <2>4, <2>5 DEF UntrackedPath
<1> QED
  BY <1>1, <1>2, <1>3

\* Either it looks into M afterwards, or it looks and decides as before.
LEMMA DecisionStays ==
  ASSUME NEW r \in Resource, NEW assigned, NEW M,
         IsFiniteSet(DOMAIN assigned), IsFiniteSet(DOMAIN disk), IsFiniteSet(DOMAIN disk'),
         Spares(r, assigned, M)
  PROVE  \/ Looked(r, assigned)' \cap M # {}
         \/ /\ Looked(r, assigned)' = Looked(r, assigned)
            /\ \A b \in BOOLEAN : Decision(r, b, assigned)' = Decision(r, b, assigned)
<1>1. CASE r \in DOMAIN row
  <2>1. r \in DOMAIN row' /\ row'[r] = row[r]
    BY <1>1 DEF Spares
  <2>2. PICK p : p = row[r].path
    OBVIOUS
  <2>3. Looked(r, assigned) = {p} /\ Looked(r, assigned)' = {p}
    BY <1>1, <2>1, <2>2 DEF Looked
  <2>4. ASSUME p \notin M, NEW b \in BOOLEAN
        PROVE  Decision(r, b, assigned)' = Decision(r, b, assigned)
    <3>1. CASE p \in DOMAIN assigned
      <4>1. PICK same \in BOOLEAN : same = (assigned[p].asset = r.asset)
        OBVIOUS
      <4>2. ConflictPath(r, same, assigned)' = ConflictPath(r, same, assigned)
        BY ConflictPathStays DEF Spares
      <4>3. Decision(r, b, assigned)
              = [resource |-> r, stage |-> "repair", path |-> ConflictPath(r, same, assigned)]
        BY <1>1, <2>2, <3>1, <4>1 DEF Decision
      <4>4. Decision(r, b, assigned)'
              = [resource |-> r, stage |-> "repair", path |-> ConflictPath(r, same, assigned)']
        BY <2>1, <2>2, <3>1, <4>1 DEF Decision
      <4> QED
        BY <4>2, <4>3, <4>4
    <3>2. CASE p \notin DOMAIN assigned
      <4>1. At(p)' = At(p)
        BY <2>4, <3>2 DEF Spares
      <4>2. IsComplete(r)' <=> IsComplete(r)
        BY <2>1, <2>2, <4>1 DEF IsComplete, Original
      <4>3. Decision(r, b, assigned)
              = [resource |-> r, path |-> p, stage |-> IF IsComplete(r) THEN "skip" ELSE "repair"]
        BY <1>1, <2>2, <3>2 DEF Decision
      <4>4. Decision(r, b, assigned)'
              = [resource |-> r, path |-> p, stage |-> IF IsComplete(r)' THEN "skip" ELSE "repair"]
        BY <2>1, <2>2, <3>2 DEF Decision
      <4> QED
        BY <4>2, <4>3, <4>4
    <3> QED
      BY <3>1, <3>2
  <2> QED
    BY <2>3, <2>4
<1>2. CASE r \notin DOMAIN row
  <2>1. r \notin DOMAIN row'
    BY <1>2 DEF Spares
  <2>2. FirstPath(r, assigned)' = FirstPath(r, assigned)
    BY <1>2, UntrackedPathStays
  <2>3. CASE FirstPath(r, assigned) \in M
    BY <2>1, <2>2, <2>3 DEF Looked
  <2>4. CASE FirstPath(r, assigned) \notin M
    <3>1. \A b \in BOOLEAN :
            UntrackedPath(r, b, assigned)' = UntrackedPath(r, b, assigned)
      BY <1>2, <2>4, UntrackedPathStays
    <3>2. Looked(r, assigned)' = Looked(r, assigned)
      BY <1>2, <2>1, <2>2, <3>1 DEF Looked
    <3>3. CASE \E b \in BOOLEAN : UntrackedPath(r, b, assigned) \in M
      BY <2>1, <3>1, <3>3 DEF Looked
    <3>4. ASSUME NEW b \in BOOLEAN, UntrackedPath(r, b, assigned) \notin M
          PROVE  Decision(r, b, assigned)' = Decision(r, b, assigned)
      <4>1. PICK p : p = UntrackedPath(r, b, assigned)
        OBVIOUS
      <4>2. At(p)' = At(p)
        BY <3>4, <4>1, UntrackedPathIsFree DEF Spares
      <4>3. UntrackedPath(r, b, assigned)' = p
        BY <3>1, <4>1
      <4>4. IsFile(p)' <=> IsFile(p)
        BY <4>2 DEF IsFile
      <4> QED
        BY <1>2, <2>1, <4>1, <4>3, <4>4 DEF Decision
    <3> QED
      BY <3>2, <3>3, <3>4
  <2> QED
    BY <2>3, <2>4
<1> QED
  BY <1>1, <1>2

\* What a planner decides rests on which paths are assigned to whom.
Agree(f, g) == DOMAIN f = DOMAIN g /\ \A p \in DOMAIN f : f[p] = g[p]

\* ... not on how a path map came about.
LEMMA SameDecision ==
  ASSUME NEW r, NEW f, NEW g, Agree(f, g), NEW b \in BOOLEAN
  PROVE  /\ Decision(r, b, f) = Decision(r, b, g)
         /\ UntrackedPath(r, b, f) = UntrackedPath(r, b, g)
         /\ Looked(r, f) = Looked(r, g)
<1>1. \A same : ConflictPath(r, same, f) = ConflictPath(r, same, g)
  BY DEF ConflictPath, Agree
<1>2. FirstPath(r, f) = FirstPath(r, g)
  BY <1>1 DEF FirstPath, Agree
<1>3. ASSUME NEW c \in BOOLEAN
      PROVE  UntrackedPath(r, c, f) = UntrackedPath(r, c, g)
  <2>1. PICK others : others = IF IsFile(FirstPath(r, f)) THEN Owners(FirstPath(r, f)) \ {r} ELSE {}
    OBVIOUS
  <2>2. PICK own : own = {q \in others : q.asset = r.asset}
    OBVIOUS
  <2>3. PICK same \in BOOLEAN : same = IF c THEN own # {} ELSE own = others
    OBVIOUS
  <2>4. UnownedPath(r, c, f)
          = IF others = {} THEN FirstPath(r, f) ELSE ConflictPath(r, same, f)
    BY <2>1, <2>2, <2>3 DEF UnownedPath
  <2>5. UnownedPath(r, c, g)
          = IF others = {} THEN FirstPath(r, g) ELSE ConflictPath(r, same, g)
    BY <1>2, <2>1, <2>2, <2>3 DEF UnownedPath
  <2>6. UnownedPath(r, c, f) = UnownedPath(r, c, g)
    BY <1>1, <1>2, <2>4, <2>5
  <2> QED
    BY <1>1, <2>6 DEF UntrackedPath
<1>4. Looked(r, f) = Looked(r, g)
  BY <1>2, <1>3 DEF Looked
<1>5. Decision(r, b, f) = Decision(r, b, g)
  <2>1. CASE r \in DOMAIN row
    BY <1>1, <2>1 DEF Decision, Agree
  <2>2. CASE r \notin DOMAIN row
    BY <1>3, <2>2 DEF Decision
  <2> QED
    BY <2>1, <2>2
<1> QED
  BY <1>3, <1>4, <1>5

\* A plan as a path map.
LEMMA PriorOf ==
  ASSUME NEW plan, OnePathEach(plan), NEW r
  PROVE  /\ \A p \in DOMAIN Prior(plan, r) :
              \E t \in plan : t.path = p /\ t.resource \in Earlier(r)
         /\ \A t \in plan :
              t.resource \in Earlier(r) =>
                /\ t.path \in DOMAIN Prior(plan, r)
                /\ Prior(plan, r)[t.path] = t.resource
<1>1. DOMAIN Prior(plan, r) = {t.path : t \in {u \in plan : u.resource \in Earlier(r)}}
  BY DEF Prior
<1>2. ASSUME NEW t \in plan, t.resource \in Earlier(r)
      PROVE  /\ t.path \in DOMAIN Prior(plan, r)
             /\ Prior(plan, r)[t.path] = t.resource
  <2>1. (CHOOSE u \in plan : u.path = t.path) = t
    BY DEF OnePathEach
  <2>2. t.path \in DOMAIN Prior(plan, r)
    BY <1>1, <1>2
  <2>3. Prior(plan, r)[t.path] = (CHOOSE u \in plan : u.path = t.path).resource
    BY <1>1, <2>2 DEF Prior
  <2> QED
    BY <2>1, <2>2, <2>3
<1> QED
  BY <1>1, <1>2

\* What the run has reserved when a resource is planned.
LEMMA PriorIsReserved ==
  ASSUME PlannerInv, OrderInv, pc \in {"preview", "look", "build"}, NEW r \in todo,
         \A q \in todo : ~Before(q, r),
         NEW plan, OnePathEach(plan), \A t \in plan : t.resource \in ResourcesOf(Scope),
         \A p \in DOMAIN reserved : \E t \in plan : t.path = p /\ t.resource = reserved[p]
  PROVE  Agree(Prior(plan, r), reserved)
<1> DEFINE before == Prior(plan, r)
<1>1. /\ \A p \in DOMAIN before :
           \E t \in plan : t.path = p /\ t.resource \in Earlier(r)
      /\ \A t \in plan :
           t.resource \in Earlier(r) => t.path \in DOMAIN before /\ before[t.path] = t.resource
  BY PriorOf
<1> HIDE DEF before
<1>2. r \in ResourcesOf(Scope) /\ r.asset \in Asset /\ \A a \in queue : a \in Asset
  BY ResourcesOfType, ResourceFields, TypeParts DEF OrderInv, PlannerInv, RunOK
<1>3. ASSUME NEW p \in DOMAIN reserved PROVE reserved[p] \in Earlier(r)
  BY ResourcesOfType DEF PlannerInv, ReservedInv, OrderInv, Earlier
<1>4. ASSUME NEW q \in Earlier(r), q \in ResourcesOf(Scope) PROVE Dealt(q)
  <2>1. q # r /\ Before(q, r) /\ q \notin todo
    BY DEF Earlier
  <2>2. q.asset \notin queue
    <3> SUFFICES ASSUME q.asset \in queue PROVE FALSE
      OBVIOUS
    <3>1. Newer(r.asset, q.asset)
      BY DEF OrderInv
    <3>2. AddedAt[r.asset] \in Nat /\ AddedAt[q.asset] \in Nat
      BY <1>2, ConstantsAssumption
    <3> QED
      BY <2>1, <3>1, <3>2 DEF Before, Newer
  <2> QED
    BY <1>4, <2>1, <2>2 DEF OrderInv
<1>5. ASSUME NEW t \in plan, t.resource \in Earlier(r)
      PROVE  t.path \in DOMAIN reserved /\ reserved[t.path] = t.resource
  <2>1. PICK p \in DOMAIN reserved : reserved[p] = t.resource
    BY <1>4, <1>5 DEF Dealt
  <2>2. PICK u \in plan : u.path = p /\ u.resource = reserved[p]
    OBVIOUS
  <2>3. u = t
    BY <2>1, <2>2 DEF OnePathEach
  <2> QED
    BY <2>1, <2>2, <2>3
<1>6. ASSUME NEW p \in DOMAIN reserved
      PROVE  p \in DOMAIN before /\ before[p] = reserved[p]
  <2>1. PICK t \in plan : t.path = p /\ t.resource = reserved[p]
    OBVIOUS
  <2> QED
    BY <1>3, <1>1, <2>1
<1>7. DOMAIN before \subseteq DOMAIN reserved
  BY <1>5, <1>1
<1> QED
  BY <1>6, <1>7 DEF Agree, before

\* A step of the planner reserves what it decides, and has a row for what it adopts.
Adopted(r, p, stage) ==
    /\ r \notin DOMAIN row /\ stage = "skip" /\ IsFile(p)
    /\ row' = Put(row, r, [path |-> p, content |-> disk[p], status |-> "VERIFIED"])

LEMMA PlannerDecides ==
  ASSUME PlannerInv, NEW r \in todo, PlanResource(r)
  PROVE  \/ Raise
         \/ \E b \in BOOLEAN : \E p, stage :
              /\ Decision(r, b, reserved) = [resource |-> r, path |-> p, stage |-> stage]
              /\ Reserve(r, p, stage) /\ p \notin DOMAIN reserved
              /\ UNCHANGED row \/ (pc # "preview" /\ Adopted(r, p, stage))
<1>1. CASE PlanTracked(r)
  <2> DEFINE p == row[r].path
             q == ConflictPath(r, reserved[p].asset = r.asset, reserved)
             st == IF IsComplete(r) THEN "skip" ELSE "repair"
  <2>0. r \in DOMAIN row /\ TRUE \in BOOLEAN
    BY <1>1 DEF PlanTracked
  <2>1. CASE p \in DOMAIN reserved
    <3>1. Raise \/ Plan(r, q, "repair")
      BY <1>1, <2>1 DEF PlanTracked, PlannerInv, ReservedInv
    <3>2. Decision(r, TRUE, reserved) = [resource |-> r, path |-> q, stage |-> "repair"]
      BY <2>0, <2>1 DEF Decision
    <3>3. q \notin DOMAIN reserved
      <4>1. PICK same \in BOOLEAN : same = (reserved[p].asset = r.asset)
        OBVIOUS
      <4>2. r \in Resource /\ q = ConflictPath(r, same, reserved)
        BY <4>1 DEF PlannerInv, TypeOK
      <4> HIDE DEF q
      <4> QED
        BY <4>2, ConflictPathIsFree DEF PlannerInv, FiniteInv
    <3> HIDE DEF q
    <3> QED
      BY <2>0, <3>1, <3>2, <3>3 DEF Plan
  <2>2. CASE p \notin DOMAIN reserved
    <3>1. Plan(r, p, st)
      BY <1>1, <2>2 DEF PlanTracked
    <3>2. Decision(r, TRUE, reserved) = [resource |-> r, path |-> p, stage |-> st]
      BY <2>0, <2>2 DEF Decision
    <3> HIDE DEF p, st
    <3> QED
      BY <2>0, <2>2, <3>1, <3>2 DEF Plan
  <2> QED
    BY <2>1, <2>2
<1>2. ASSUME NEW b \in BOOLEAN, PlanUntracked(r, b)
      PROVE  \/ Raise
             \/ \E p, stage :
                  /\ Decision(r, b, reserved) = [resource |-> r, path |-> p, stage |-> stage]
                  /\ Reserve(r, p, stage) /\ p \notin DOMAIN reserved
                  /\ UNCHANGED row \/ (pc # "preview" /\ Adopted(r, p, stage))
  <2> DEFINE p == UntrackedPath(r, b, reserved)
  <2>1. r \notin DOMAIN row /\ (Raise \/ (IsFile(p) /\ Adopt(r, p))
                                  \/ (~IsFile(p) /\ Plan(r, p, "get")))
    BY <1>2 DEF PlanUntracked
  <2>2. Decision(r, b, reserved)
          = [resource |-> r, path |-> p, stage |-> IF IsFile(p) THEN "skip" ELSE "get"]
    BY <2>1 DEF Decision
  <2>5. p \notin DOMAIN reserved
    <3>1. r \in Resource
      BY DEF PlannerInv, TypeOK
    <3> QED
      BY <3>1, UntrackedPathIsFree DEF PlannerInv, FiniteInv
  <2> HIDE DEF p
  <2>3. CASE IsFile(p) /\ Adopt(r, p)
    <3>1. Reserve(r, p, "skip")
      BY <2>3 DEF Adopt
    <3>2. UNCHANGED row \/ (pc # "preview" /\ Adopted(r, p, "skip"))
      BY <2>1, <2>3 DEF Adopt, Adopted
    <3>3. Decision(r, b, reserved) = [resource |-> r, path |-> p, stage |-> "skip"]
      BY <2>2, <2>3
    <3> QED
      BY <2>1, <2>5, <3>1, <3>2, <3>3
  <2>4. CASE ~IsFile(p) /\ Plan(r, p, "get")
    <3>1. Decision(r, b, reserved) = [resource |-> r, path |-> p, stage |-> "get"]
      BY <2>2, <2>4
    <3> QED
      BY <2>4, <2>5, <3>1 DEF Plan
  <2> QED
    BY <2>1, <2>3, <2>4
<1> QED
  BY <1>1, <1>2 DEF PlanResource

\* What is planned before r stays so in a step that changes neither the library nor the
\* configuration, and when a later resource is planned.
LEMMA PriorStays ==
  ASSUME UNCHANGED <<remote, config>>, NEW plan, NEW r
  PROVE  Earlier(r)' = Earlier(r) /\ Prior(plan, r)' = Prior(plan, r)
<1>1. \A q : Before(q, r)' <=> Before(q, r)
  BY OrderStays
<1>2. Earlier(r)' = Earlier(r)
  BY <1>1 DEF Earlier
<1> QED
  BY <1>2 DEF Prior

\* ... and when the plan grows by a resource that is not planned before it.
LEMMA PriorGrows ==
  ASSUME NEW plan, NEW t, OnePathEach(plan \cup {t}), NEW r, t.resource \notin Earlier(r)
  PROVE  Agree(Prior(plan, r), Prior(plan \cup {t}, r))
<1> DEFINE f == Prior(plan, r)
           g == Prior(plan \cup {t}, r)
<1>0. OnePathEach(plan)
  BY DEF OnePathEach
<1>1. /\ \A p \in DOMAIN f : \E u \in plan : u.path = p /\ u.resource \in Earlier(r)
      /\ \A u \in plan :
           u.resource \in Earlier(r) => u.path \in DOMAIN f /\ f[u.path] = u.resource
  BY <1>0, PriorOf
<1>2. /\ \A p \in DOMAIN g :
           \E u \in plan \cup {t} : u.path = p /\ u.resource \in Earlier(r)
      /\ \A u \in plan \cup {t} :
           u.resource \in Earlier(r) => u.path \in DOMAIN g /\ g[u.path] = u.resource
  <2>1. PICK all : all = plan \cup {t}
    OBVIOUS
  <2> QED
    BY <2>1, PriorOf
<1> HIDE DEF f, g
<1>3. \A p \in DOMAIN f : p \in DOMAIN g /\ f[p] = g[p]
  BY <1>1, <1>2
<1>4. \A p \in DOMAIN g : p \in DOMAIN f
  BY <1>1, <1>2
<1>5. DOMAIN f = DOMAIN g
  BY <1>3, <1>4
<1> QED
  BY <1>3, <1>5 DEF Agree, f, g

\* The paths of a plan with finitely many.
LEMMA PriorIsFinite ==
  ASSUME NEW plan, NEW r, IsFiniteSet({t.path : t \in plan})
  PROVE  IsFiniteSet(DOMAIN Prior(plan, r))
<1>1. DOMAIN Prior(plan, r) \subseteq {t.path : t \in plan}
  BY DEF Prior
<1> QED
  BY <1>1, FS_Subset

\* Where neither library nor configuration, files or rows change, the plan stands.
LEMMA PlanStands ==
  ASSUME UNCHANGED <<remote, config, disk, row>>, NEW plan, IsFiniteSet({t.path : t \in plan}),
         IsFiniteSet(DOMAIN disk), NEW r \in Resource, NEW a, a = Prior(plan, r),
         NEW b \in BOOLEAN
  PROVE  Prior(plan, r)' = a /\ Decision(r, b, a)' = Decision(r, b, a)
<1>1. IsFiniteSet(DOMAIN a)
  BY PriorIsFinite
<1>2. Prior(plan, r)' = a
  BY PriorStays
<1>3. Spares(r, a, {})
  BY DEF Spares, At, Owners
<1> QED
  BY <1>1, <1>2, <1>3, DecisionStays

\* Where a pass ends rests on the library, the configuration and the plan ...
LEMMA EndsStay ==
  ASSUME UNCHANGED <<remote, config>>, NEW plan, NEW B
  PROVE  /\ NotBefore(plan, B)' <=> NotBefore(plan, B)
         /\ Ends(plan, B)' <=> Ends(plan, B)
<1>1. Listed' = Listed /\ \A S : ResourcesOf(S)' = ResourcesOf(S)
  BY ListedStays DEF outsideVars, ResourcesOf, AssetAllowed, SelectResources
<1>2. \A Q : Rest(Q)' <=> Rest(Q)
  BY <1>1 DEF Rest
<1>3. \A Q : Enough(plan, Q)' <=> Enough(plan, Q)
  BY <1>1 DEF Enough
<1>4. NotBefore(plan, B)' <=> NotBefore(plan, B)
  BY <1>1, <1>2, <1>3 DEF NotBefore
<1> QED
  BY <1>1, <1>2, <1>3, <1>4 DEF Ends

\* ... and of the plan on what it has for the assets before.
LEMMA SameEnough ==
  ASSUME NEW f, NEW g, NEW Q,
         \A a \in Listed \ Q :
           {t \in f : t.resource.asset = a} = {t \in g : t.resource.asset = a}
  PROVE  Enough(f, Q) <=> Enough(g, Q)
<1>1. \A S, n : Oldest(S, n) \subseteq S
  BY DEF Oldest
<1>2. \A a \in Listed \ Q : Existing(f, a) <=> Existing(g, a)
  BY DEF Existing
<1> QED
  BY <1>1, <1>2 DEF Enough

\* The pass takes the newest asset, and so all ends of the list one after the other.
LEMMA OneByOne ==
  ASSUME queue \subseteq Listed, Rest(queue), NEW Q \in SUBSET Listed, Rest(Q)
  PROVE  LET next == queue \ Newest(queue, 1)
         IN /\ Q \subseteq queue /\ Q # queue => Q \subseteq next
            /\ next \subseteq Q /\ Q # next => queue \subseteq Q
<1> DEFINE next == queue \ Newest(queue, 1)
<1>1. queue \subseteq Asset /\ Q \subseteq Asset
  BY DEF Listed
<1>2. \A a, b \in Asset : ~(Newer(a, b) /\ Newer(b, a))
  <2>1. \A a \in Asset : AddedAt[a] \in Nat
    BY ConstantsAssumption
  <2> QED
    BY <2>1 DEF Newer
<1>3. \A a \in Newest(queue, 1), b \in queue : a = b \/ Newer(a, b)
  BY <1>1, NewestIsOne
<1>4. Newest(queue, 1) \subseteq queue
  BY DEF Newest
<1>5. ASSUME Q \subseteq queue, NEW b \in queue, b \notin Q, NEW a \in Q, a \in Newest(queue, 1)
      PROVE  FALSE
  <2>1. Newer(a, b)
    BY <1>3, <1>5
  <2>2. Newer(b, a)
    BY <1>5 DEF Rest
  <2> QED
    BY <1>1, <1>2, <1>5, <2>1, <2>2
<1>6. ASSUME next \subseteq Q, NEW b \in Q, b \notin next, NEW c \in queue, c \notin Q
      PROVE  FALSE
  <2>1. c \in Newest(queue, 1) /\ b # c
    BY <1>6
  <2>2. Newer(c, b)
    BY <1>6 DEF Rest
  <2>3. Newer(b, c)
    <3>1. CASE b \in queue
      BY <1>3, <1>6, <2>1, <3>1
    <3>2. CASE b \notin queue
      BY <1>6, <3>2 DEF Rest
    <3> QED
      BY <3>1, <3>2
  <2> QED
    BY <1>1, <1>2, <1>6, <2>2, <2>3
<1> QED
  BY <1>4, <1>5, <1>6

\* What is being planned belongs to the assets after any earlier end.
LEMMA PlannedAfter ==
  ASSUME OrderInv, pc \in {"preview", "look"}, NEW r \in todo,
         NEW Q \in SUBSET Listed, Rest(Q), queue \subseteq Q, Q # queue
  PROVE  r.asset \in Q
<1>1. r.asset \in Listed
  BY DEF OrderInv, Scope, ResourcesOf
<1>2. PICK b \in Q : b \notin queue
  OBVIOUS
<1>3. b = r.asset \/ Newer(b, r.asset)
  BY <1>2 DEF OrderInv
<1>4. r.asset \in Q \/ Newer(r.asset, b)
  BY <1>1 DEF Rest
<1>5. AddedAt[b] \in Nat /\ AddedAt[r.asset] \in Nat
  BY <1>1, ConstantsAssumption DEF Listed
<1> QED
  BY <1>3, <1>4, <1>5 DEF Newer

\* The preview decides about each resource as about the first it has not decided about.
LEMMA PreviewStep ==
  ASSUME PlannerInv, ControlInv, TaskInv, OrderInv, PreviewInv, [Next]_vars,
         FiniteInv', TaskInv'
  PROVE  PreviewInv'
<1> USE DEF outsideVars, rowVars, planVars, workVars, historyVars
<1>1. CASE pc' # "preview"
  BY <1>1 DEF PreviewInv
<1>9. ASSUME UNCHANGED <<remote, config, disk, row, tasks, reserved, promise>>, pc = "preview",
             NotBefore(tasks, queue)'
      PROVE  PreviewInv'
  <2>2. ASSUME NEW t \in tasks
        PROVE  \E c \in BOOLEAN : t = Decision(t.resource, c, Prior(tasks, t.resource))'
    <3>1. PICK q : q = t.resource
      OBVIOUS
    <3>2. PICK a : a = Prior(tasks, q)
      OBVIOUS
    <3>3. PICK c \in BOOLEAN : t = Decision(q, c, a)
      BY <1>9, <3>1, <3>2 DEF PreviewInv
    <3>4. q \in Resource
      BY <3>1, TaskOfState DEF PlannerInv
    <3>5. IsFiniteSet({u.path : u \in tasks})
      <4>1. {u.path : u \in tasks} \subseteq DOMAIN reserved
        BY DEF TaskInv
      <4> QED
        BY <4>1, FS_Subset DEF PlannerInv, FiniteInv
    <3>6. Prior(tasks, q)' = a /\ Decision(q, c, a)' = Decision(q, c, a)
      <4>1. PICK plan : plan = tasks
        OBVIOUS
      <4> QED
        BY <1>9, <3>2, <3>4, <3>5, <4>1, PlanStands DEF PlannerInv, FiniteInv
    <3> QED
      BY <3>1, <3>3, <3>6
  <2> QED
    BY <1>9, <2>2 DEF PreviewInv
<1>2. CASE Phases
  <2>1. CASE Preview
    <3>1. queue' = Listed' /\ DOMAIN reserved' = {} /\ tasks' = {} /\ promise' = Unknown
      BY <2>1, ListedStays DEF Preview, ControlInv
    <3> QED
      BY <3>1 DEF PreviewInv, NotBefore
  <2>2. CASE SelectAsset /\ pc = "preview"
    <3>1. /\ UNCHANGED <<remote, config, disk, row, tasks, reserved, promise>>
          /\ queue' = queue \ Newest(queue, 1) /\ ~Enough(tasks, queue)
      BY <2>2 DEF SelectAsset
    <3>2. queue \subseteq Listed /\ Rest(queue)
      BY <2>2 DEF OrderInv, Scope
    <3>3. NotBefore(tasks, queue')
      BY <2>2, <3>1, <3>2, OneByOne DEF PreviewInv, NotBefore
    <3>4. PICK plan, B : plan = tasks /\ B = queue'
      OBVIOUS
    <3>5. NotBefore(tasks, queue)'
      <4>1. NotBefore(plan, B)'
        BY <3>1, <3>3, <3>4, EndsStay
      <4> QED
        BY <3>1, <3>4, <4>1
    <3> QED
      BY <1>9, <2>2, <3>1, <3>5
  <2>3. CASE Phases /\ ~Preview /\ ~(SelectAsset /\ pc = "preview")
    BY <1>1, <2>3 DEF Phases, SelectAsset, EndPreview, StartRun, EndLook, PlanBatch, EndPlan,
       EndBatch, StartDeletions, Finish
  <2> QED
    BY <1>2, <2>1, <2>2, <2>3
<1>3. ASSUME NEW r \in todo, PlanResource(r), pc' = "preview" PROVE PreviewInv'
  <2>0. /\ UNCHANGED <<remote, config, disk>> /\ \A q \in todo : ~Before(q, r)
        /\ r \in Resource
    BY <1>3 DEF PlanResource, PlannerInv, TypeOK
  <2>1. ~Raise
    BY <1>3 DEF Raise
  <2>2. PICK b \in BOOLEAN : \E p, stage :
          /\ Decision(r, b, reserved) = [resource |-> r, path |-> p, stage |-> stage]
          /\ Reserve(r, p, stage) /\ p \notin DOMAIN reserved
          /\ UNCHANGED row \/ (pc # "preview" /\ Adopted(r, p, stage))
    BY <1>3, <2>1, PlannerDecides
  <2>3. PICK p, stage :
          /\ Decision(r, b, reserved) = [resource |-> r, path |-> p, stage |-> stage]
          /\ Reserve(r, p, stage) /\ pc = "preview" /\ UNCHANGED row
    BY <1>3, <2>2 DEF Reserve
  <2>4. PICK new : new = [resource |-> r, path |-> p, stage |-> stage]
    OBVIOUS
  <2>5. /\ pc = "preview" /\ UNCHANGED <<row, promise, queue>>
        /\ tasks' = tasks \cup {new} /\ reserved' = Put(reserved, p, r)
        /\ new.resource = r /\ new.path = p /\ new = Decision(r, b, reserved)
    BY <1>3, <2>3, <2>4 DEF Reserve
  <2>6. PICK plan : plan = tasks'
    OBVIOUS
  <2>7. OnePathEach(plan)
    BY <2>6 DEF TaskInv, OnePathEach
  <2>8. \A q \in DOMAIN reserved' : \E t \in tasks' : t.path = q
    BY <2>5 DEF Put, PreviewInv
  <2>9. ASSUME NEW t \in tasks'
        PROVE  \E c \in BOOLEAN : t = Decision(t.resource, c, Prior(plan, t.resource))
    <3>1. CASE t = new
      <4>1. \A q \in DOMAIN reserved : \E u \in plan : u.path = q /\ u.resource = reserved[q]
        BY <2>5, <2>6 DEF PreviewInv, TaskInv
      <4>2. \A u \in plan : u.resource \in ResourcesOf(Scope)
        BY <2>5, <2>6 DEF TaskInv, OrderInv
      <4>3. Agree(Prior(plan, r), reserved)
        BY <2>0, <2>5, <2>7, <4>1, <4>2, PriorIsReserved
      <4> QED
        BY <2>5, <3>1, <4>3, SameDecision
    <3>2. CASE t \in tasks
      <4>1. PICK c \in BOOLEAN : t = Decision(t.resource, c, Prior(tasks, t.resource))
        BY <2>5, <3>2 DEF PreviewInv
      <4>2. r \notin Earlier(t.resource)
        <5>1. t.path \in DOMAIN reserved /\ reserved[t.path] = t.resource
          BY <3>2 DEF TaskInv
        <5> QED
          BY <5>1 DEF OrderInv, Earlier
      <4>3. Agree(Prior(tasks, t.resource), Prior(plan, t.resource))
        BY <2>5, <2>6, <2>7, <4>2, PriorGrows
      <4> QED
        BY <4>1, <4>3, SameDecision
    <3> QED
      BY <2>5, <3>1, <3>2
  <2>10. ASSUME NEW t \in tasks'
        PROVE  \E c \in BOOLEAN : t = Decision(t.resource, c, Prior(tasks, t.resource))'
    <3>1. PICK q : q = t.resource
      OBVIOUS
    <3>2. PICK a : a = Prior(plan, q)
      OBVIOUS
    <3>3. PICK c \in BOOLEAN : t = Decision(q, c, a)
      BY <2>9, <3>1, <3>2
    <3>4. q \in Resource
      BY <2>0, <2>5, <3>1, TaskOfState DEF PlannerInv
    <3>5. IsFiniteSet({u.path : u \in plan})
      <4>1. {u.path : u \in plan} \subseteq DOMAIN reserved'
        BY <2>6 DEF TaskInv
      <4> QED
        BY <4>1, FS_Subset DEF FiniteInv
    <3>6. Prior(tasks, q)' = a /\ Decision(q, c, a)' = Decision(q, c, a)
      <4>1. Prior(plan, q)' = a /\ Decision(q, c, a)' = Decision(q, c, a)
        BY <2>0, <2>5, <3>2, <3>4, <3>5, PlanStands DEF PlannerInv, FiniteInv
      <4> QED
        BY <2>6, <4>1
    <3> QED
      BY <3>1, <3>3, <3>6
  <2>11. NotBefore(tasks, queue)'
    <3>1. ASSUME NEW Q \in SUBSET Listed, Rest(Q), queue \subseteq Q, Q # queue
          PROVE  ~Enough(plan, Q)
      <4>1. r.asset \in Q
        BY <2>5, <3>1, PlannedAfter
      <4>2. ~Enough(tasks, Q)
        BY <2>5, <3>1 DEF PreviewInv, NotBefore
      <4>3. \A a \in Listed \ Q :
              {t \in tasks : t.resource.asset = a} = {t \in plan : t.resource.asset = a}
        BY <2>5, <2>6, <4>1
      <4> QED
        BY <4>2, <4>3, SameEnough
    <3>2. PICK B : B = queue
      OBVIOUS
    <3>3. NotBefore(plan, B)
      BY <3>1, <3>2 DEF NotBefore
    <3>4. NotBefore(plan, B)'
      BY <2>0, <3>3, EndsStay
    <3> QED
      BY <2>5, <2>6, <3>2, <3>4
  <2> QED
    BY <2>5, <2>8, <2>10, <2>11 DEF PreviewInv
<1>4. CASE \E t \in tasks : Fetch(t) \/ LookForJpeg(t) \/ Convert(t) \/ TaskFails(t)
  BY <1>1, <1>4 DEF Fetch, LookForJpeg, Convert, TaskFails, WorkStep
<1>5. CASE \E a \in Asset : DeleteFiles(a)
  BY <1>1, <1>5 DEF DeleteFiles
<1>6. CASE OutsideStep
  BY <1>1, <1>6 DEF OutsideStep
<1>7. ASSUME UNCHANGED vars, pc = "preview" PROVE PreviewInv'
  <2>1. UNCHANGED <<remote, config, disk, row, tasks, reserved, promise, queue>>
    BY <1>7 DEF vars
  <2>2. PICK plan, B : plan = tasks /\ B = queue
    OBVIOUS
  <2>3. NotBefore(plan, B) /\ (NotBefore(plan, B)' <=> NotBefore(plan, B))
    BY <1>7, <2>1, <2>2, EndsStay DEF PreviewInv
  <2>4. NotBefore(tasks, queue)'
    BY <2>1, <2>2, <2>3
  <2> QED
    BY <1>7, <1>9, <2>1, <2>4
<1>8. UNCHANGED vars => pc' = pc
  BY DEF vars
<1> QED
  BY <1>1, <1>2, <1>3, <1>4, <1>5, <1>6, <1>7, <1>8, OutsideSteps

\* What the run has reserved is planned before any resource it has not dealt with.
LEMMA ReservedIsPrior ==
  ASSUME TypeOK, OrderInv, pc \in {"plan", "build", "work", "delete"},
         NEW r \in ResourcesOf(limited), ~Dealt(r),
         NEW plan, OnePathEach(plan),
         NEW p \in DOMAIN reserved, \E t \in plan : t.path = p /\ t.resource = reserved[p]
  PROVE  p \in DOMAIN Prior(plan, r)
<1>1. PICK t \in plan : t.path = p /\ t.resource = reserved[p]
  OBVIOUS
<1>2. reserved[p] \in Earlier(r)
  <2>1. reserved[p] \in Resource /\ reserved[p] # r
    BY TypeParts DEF RunOK, Dealt
  <2>2. r \in todo \/ r.asset \in queue
    BY DEF OrderInv, Scope
  <2>3. Before(reserved[p], r)
    BY <2>2 DEF OrderInv, Before
  <2> QED
    BY <2>1, <2>3 DEF Earlier
<1> QED
  BY <1>1, <1>2, PriorOf

\* The scan has enough where the preview had: it has planned the same for the assets it has
\* come to.
LEMMA LookAgrees ==
  ASSUME OrderInv, pc = "look", todo = {}, NEW plan, OnePathEach(plan), tasks \subseteq plan,
         \A p \in DOMAIN reserved : \E t \in tasks : t.path = p /\ t.resource = reserved[p],
         \A t \in plan : t.resource \in ResourcesOf(Listed)
  PROVE  Enough(plan, queue) <=> Enough(tasks, queue)
<1>1. ASSUME NEW t \in plan, t.resource.asset \notin queue PROVE t \in tasks
  <2>1. Dealt(t.resource)
    BY <1>1 DEF OrderInv, Scope
  <2>2. PICK u \in tasks : u.resource = t.resource
    BY <2>1 DEF Dealt
  <2> QED
    BY <2>2 DEF OnePathEach
<1>2. \A a \in Listed \ queue :
        {t \in plan : t.resource.asset = a} = {t \in tasks : t.resource.asset = a}
  BY <1>1
<1> QED
  BY <1>2, SameEnough

\* A file that the scan adopts, if it has no owner and the size it should have, is what the
\* planner would decide to keep anyway.
LEMMA AdoptionStands ==
  ASSUME UNCHANGED <<config, disk>>, NEW r \in Resource, NEW a, NEW p, p \notin DOMAIN a,
         Adopted(r, p, "skip"), r.sized => disk[p] = Original(r), TypeOK
  PROVE  Decision(r, TRUE, a)' = [resource |-> r, path |-> p, stage |-> "skip"]
<1> DEFINE e == [path |-> p, content |-> disk[p], status |-> "VERIFIED"]
<1>1. e.path = p /\ e.content = disk[p] /\ e.status = "VERIFIED"
  OBVIOUS
<1>2. row' = Put(row, r, e)
  BY DEF Adopted
<1> HIDE DEF e
<1>3. r \in DOMAIN row' /\ row'[r] = e
  BY <1>2 DEF Put
<1>4. At(p) = disk[p] /\ At(p)' = At(p)
  BY FileContent DEF Adopted, At
<1>5. IsComplete(r)'
  BY <1>1, <1>3, <1>4 DEF IsComplete, Original
<1> QED
  BY <1>1, <1>3, <1>5 DEF Decision

\* Nor would the planner take the file for another resource: it would have to have promised
\* it to both.
LEMMA AdoptionSpares ==
  ASSUME UNCHANGED <<config, disk>>, NEW r, NEW q \in Resource, q # r, NEW a, NEW p,
         Adopted(r, p, "skip"), Owners(p) = {}, NEW plan, OnePathEach(plan),
         [resource |-> r, path |-> p, stage |-> "skip"] \in plan,
         \E b \in BOOLEAN : Decision(q, b, a) \in plan
  PROVE  Spares(q, a, {})
<1>1. \A x : At(x)' = At(x)
  BY DEF At
<1>2. \A x : x # p => Owners(x)' = Owners(x)
  BY DEF Adopted, Put, Owners
<1>3. (q \in DOMAIN row' <=> q \in DOMAIN row) /\ (q \in DOMAIN row => row'[q] = row[q])
  BY DEF Adopted, Put
<1>4. ASSUME q \notin DOMAIN row, p = FirstPath(q, a) PROVE FALSE
  <2>1. PICK b \in BOOLEAN : Decision(q, b, a) \in plan
    OBVIOUS
  <2>2. UnownedPath(q, b, a) = p
    BY <1>4 DEF UnownedPath
  <2>3. UntrackedPath(q, b, a) = p
    BY <2>2 DEF UntrackedPath, Adopted, IsFile
  <2>4. Decision(q, b, a) = [resource |-> q, path |-> p, stage |-> "skip"]
    BY <1>4, <2>3 DEF Decision, Adopted
  <2> QED
    BY <2>1, <2>4 DEF OnePathEach
<1> QED
  BY <1>1, <1>2, <1>3, <1>4 DEF Spares

\* What the planner would decide as promised, or otherwise because of a JPEG, stays so in the
\* steps that write where it does not look.
LEMMA StillDecided ==
  ASSUME UNCHANGED <<remote, config, promise>>, made \subseteq made',
         IsFiniteSet({t.path : t \in promise}),
         IsFiniteSet(DOMAIN disk), IsFiniteSet(DOMAIN disk'),
         NEW r \in Resource, Spares(r, Prior(promise, r), made'),
         Met(r) \/ Decided(promise, r)
  PROVE  Met(r)' \/ Decided(promise, r)'
<1>1. PICK plan : plan = promise
  OBVIOUS
<1>2. PICK a : a = Prior(plan, r)
  OBVIOUS
<1>3. Prior(promise, r) = a /\ Prior(promise, r)' = a
  BY <1>1, <1>2, PriorStays
<1>4. IsFiniteSet(DOMAIN a) /\ Spares(r, a, made')
  BY <1>1, <1>2, <1>3, PriorIsFinite
<1>5. PICK M : M = made'
  OBVIOUS
<1>6. \/ Looked(r, a)' \cap M # {}
      \/ /\ Looked(r, a)' = Looked(r, a)
         /\ \A b \in BOOLEAN : Decision(r, b, a)' = Decision(r, b, a)
  BY <1>4, <1>5, DecisionStays
<1>7. Met(r) <=> Looked(r, a) \cap made # {}
  BY <1>3 DEF Met
<1>8. Met(r)' <=> Looked(r, a)' \cap M # {}
  BY <1>3, <1>5 DEF Met
<1>9. Decided(promise, r) <=> \E b \in BOOLEAN : Decision(r, b, a) \in promise
  BY <1>3 DEF Decided
<1>10. Decided(promise, r)' <=> \E b \in BOOLEAN : Decision(r, b, a)' \in promise
  BY <1>3 DEF Decided
<1> QED
  BY <1>5, <1>6, <1>7, <1>8, <1>9, <1>10

\* The run decides as the preview did, batch after batch: what it has reserved is what the
\* preview gave to the same resources, and files, rows and owners change only there or
\* where it has made a JPEG.  A scan that plans first ends where the preview ended, and what
\* it adopts is what the preview would have kept.
LEMMA PromiseStep ==
  ASSUME PlannerInv, ControlInv, TaskInv, MovedInv, OrderInv, PreviewInv, PromiseInv,
         [Next]_vars, FiniteInv'
  PROVE  PromiseInv'
<1> USE DEF outsideVars, rowVars, planVars, workVars, historyVars
<1>0. FiniteInv /\ TypeOK
  BY DEF PlannerInv
<1> DEFINE Early == /\ pc' \in {"idle", "preview", "look"} => planned' = {} /\ made' = {}
                    /\ pc' \in {"idle", "preview"} => ~swayed'
<1>1. ASSUME promise' = Unknown, Early PROVE PromiseInv'
  BY <1>1 DEF PromiseInv
<1>2. ASSUME UNCHANGED <<remote, config, promise>>, promise # Unknown, Early,
             NEW B \in SUBSET Listed, Ends(promise, B), ~swayed' => Follows(B)'
      PROVE  PromiseInv'
  <2>1. PICK plan : plan = promise
    OBVIOUS
  <2>2. Ends(plan, B)'
    BY <1>2, <2>1, EndsStay
  <2>3. Ends(promise, B)' /\ B \in (SUBSET Listed)'
    BY <1>2, <2>1, <2>2 DEF Ends
  <2> QED
    BY <1>2, <2>3 DEF PromiseInv
<1>3. ASSUME promise # Unknown
      PROVE  \E B \in SUBSET Listed : Ends(promise, B) /\ (~swayed => Follows(B))
  BY <1>3 DEF PromiseInv
\* Where nothing changes on the disk and in the rows, all decisions stand.
<1>4. ASSUME UNCHANGED <<remote, config, disk, row, promise, made>>, promise # Unknown,
             NEW r \in Resource, Met(r) \/ Decided(promise, r)
      PROVE  Met(r)' \/ Decided(promise, r)'
  <2>1. Spares(r, Prior(promise, r), made')
    BY <1>4 DEF Spares, At, Owners
  <2>2. IsFiniteSet({t.path : t \in promise})
    BY <1>4 DEF PromiseInv
  <2> QED
    BY <1>0, <1>4, <2>1, <2>2, StillDecided DEF FiniteInv
<1> DEFINE InRun == pc \in {"plan", "build", "work", "delete"}
<1>5. ASSUME UNCHANGED <<remote, config, disk, row, reserved, promise, swayed, made, limited>>,
             Drawn' = Drawn, Early, pc' = "look" <=> pc = "look",
             InRun' => InRun, pc = "look" => UNCHANGED queue
      PROVE  PromiseInv'
  <2>1. CASE promise = Unknown
    BY <1>1, <1>5, <2>1
  <2>2. CASE promise # Unknown
    <3>1. PICK B \in SUBSET Listed : Ends(promise, B) /\ (~swayed => Follows(B))
      BY <1>3, <2>2
    <3>2. ASSUME ~swayed PROVE Follows(B)'
      <4>1. ResourcesOf(Listed \ B)' = ResourcesOf(Listed \ B) /\ Listed' = Listed
        BY <1>5, ListedStays DEF ResourcesOf, AssetAllowed, SelectResources
      <4>2. \A r \in ResourcesOf(Listed \ B) :
              (pc # "look" /\ Dealt(r)) \/ Met(r)' \/ Decided(promise, r)'
        BY <1>4, <1>5, <2>2, <3>1, <3>2, ResourcesOfType DEF Follows
      <4>3. \A r : Dealt(r)' <=> Dealt(r)
        BY <1>5 DEF Dealt
      <4> QED
        BY <1>5, <3>1, <3>2, <4>1, <4>2, <4>3 DEF Follows
    <3> QED
      BY <1>2, <1>5, <2>2, <3>1, <3>2
  <2> QED
    BY <2>1, <2>2
\* What the promise has at the paths that are reserved.
<1>6. ASSUME InRun, promise # Unknown, OnePathEach(promise), NEW r \in ResourcesOf(limited),
             ~Dealt(r), Drawn \subseteq promise,
             \A p \in DOMAIN reserved : \E t \in Drawn : t.path = p /\ t.resource = reserved[p]
      PROVE  DOMAIN reserved \subseteq DOMAIN Prior(promise, r)
  <2>1. PICK plan : plan = promise
    OBVIOUS
  <2>2. OnePathEach(plan) /\ \A p \in DOMAIN reserved :
          \E t \in plan : t.path = p /\ t.resource = reserved[p]
    BY <1>6, <2>1
  <2>3. \A p \in DOMAIN reserved : p \in DOMAIN Prior(plan, r)
    BY <1>0, <1>6, <2>2, ReservedIsPrior
  <2> QED
    BY <2>1, <2>3
<1>7. CASE Preview
  BY <1>1, <1>7 DEF Preview, PromiseInv
<1>8. CASE SelectAsset
  <2>1. /\ UNCHANGED <<remote, config, disk, row, reserved, promise, swayed, made, limited, pc,
                       planned, tasks>>
        /\ pc \in {"preview", "look"} /\ todo = {} /\ queue # {} /\ ~Enough(tasks, queue)
        /\ queue' = queue \ Newest(queue, 1)
    BY <1>8 DEF SelectAsset
  <2>2. Early
    BY <2>1 DEF PromiseInv
  <2>3. CASE promise = Unknown
    BY <1>1, <2>1, <2>2, <2>3
  <2>4. CASE promise # Unknown
    <3>0. pc = "look"
      BY <2>1, <2>4 DEF PreviewInv
    <3>1. PICK B \in SUBSET Listed : Ends(promise, B) /\ (~swayed => Follows(B))
      BY <1>3, <2>4
    <3>2. ASSUME ~swayed PROVE Follows(B)'
      <4>0. Drawn = tasks /\ Drawn' = tasks
        BY <2>1, <3>0 DEF Drawn, PromiseInv
      <4>1. /\ ResourcesOf(Listed \ B)' = ResourcesOf(Listed \ B) /\ Listed' = Listed
            /\ ResourcesOf(Listed \ B) \subseteq ResourcesOf(Listed)
        BY <2>1, ListedStays DEF ResourcesOf, AssetAllowed, SelectResources
      <4>2. \A r \in ResourcesOf(Listed \ B) : Met(r)' \/ Decided(promise, r)'
        BY <1>4, <2>1, <2>4, <3>0, <3>1, <3>2, ResourcesOfType DEF Follows
      <4>3. PICK plan : plan = promise
        OBVIOUS
      <4>4. Enough(plan, queue) <=> Enough(tasks, queue)
        <5>1. \A t \in plan : t.resource \in ResourcesOf(Listed)
          BY <3>1, <4>1, <4>3 DEF Ends
        <5> QED
          BY <2>1, <2>4, <3>0, <3>1, <3>2, <4>0, <4>3, <5>1, LookAgrees DEF Follows, PromiseInv
      <4>5. B # queue
        BY <2>1, <3>1, <4>3, <4>4 DEF Ends
      <4>6. queue \subseteq Listed /\ Rest(queue) /\ Rest(B) /\ B \subseteq queue
        BY <3>0, <3>1, <3>2 DEF OrderInv, Scope, Follows, Ends
      <4>7. B \subseteq queue'
        BY <2>1, <4>5, <4>6, OneByOne
      <4> QED
        BY <2>1, <3>0, <3>1, <3>2, <4>0, <4>1, <4>2, <4>7 DEF Follows
    <3> QED
      BY <1>2, <2>1, <2>2, <2>4, <3>1, <3>2
  <2> QED
    BY <2>3, <2>4
<1>9. CASE EndPreview
  <2>1. /\ pc = "preview" /\ todo = {} /\ pc' = "idle" /\ promise' = tasks
        /\ queue = {} \/ Enough(tasks, queue)
        /\ DOMAIN reserved' = {} /\ tasks' = {}
        /\ UNCHANGED <<remote, config, disk, row, planned, made, swayed>>
    BY <1>9 DEF EndPreview
  <2>2. planned = {} /\ made = {} /\ ~swayed
    BY <2>1 DEF PromiseInv
  <2>3. PICK plan, B : plan = tasks /\ B = queue
    OBVIOUS
  <2>4. OnePathEach(plan)
    BY <2>3 DEF TaskInv, OnePathEach
  <2>5. IsFiniteSet({t.path : t \in plan})
    <3>1. {t.path : t \in plan} \subseteq DOMAIN reserved
      BY <2>3 DEF TaskInv
    <3> QED
      BY <1>0, <3>1, FS_Subset DEF FiniteInv
  <2>6. {t.resource : t \in plan} = ResourcesOf(Listed \ B)
    <3>1. \A r : r \in ResourcesOf(Listed \ B) <=> r \in ResourcesOf(Listed) /\ r.asset \notin B
      BY DEF ResourcesOf
    <3>2. \A t \in plan : t.resource \in ResourcesOf(Listed \ B)
      BY <2>1, <2>3, <3>1 DEF TaskInv, OrderInv, Scope, PlannerInv, ReservedInv
    <3>3. ASSUME NEW r \in ResourcesOf(Listed \ B) PROVE \E t \in plan : t.resource = r
      <4>1. PICK p \in DOMAIN reserved : reserved[p] = r
        BY <2>1, <2>3, <3>1 DEF OrderInv, Scope, Dealt
      <4>2. PICK t \in tasks : t.path = p
        BY <2>1 DEF PreviewInv
      <4> QED
        BY <2>3, <4>1, <4>2 DEF TaskInv
    <3> QED
      BY <3>2, <3>3
  <2>7. Ends(plan, B) /\ B \subseteq Listed
    BY <2>1, <2>3, <2>6 DEF Ends, OrderInv, Scope, PreviewInv
  <2>8. ASSUME NEW r \in ResourcesOf(Listed \ B) PROVE Decided(promise, r)'
    <3>1. PICK t \in plan : t.resource = r
      BY <2>6
    <3>2. PICK a : a = Prior(plan, r)
      OBVIOUS
    <3>3. PICK b \in BOOLEAN : t = Decision(r, b, a)
      BY <2>1, <2>3, <3>1, <3>2 DEF PreviewInv
    <3>4. Prior(promise, r)' = a /\ Decision(r, b, a)' = Decision(r, b, a)
      <4>1. r \in Resource
        BY ResourcesOfType
      <4>2. Prior(plan, r)' = a /\ Decision(r, b, a)' = Decision(r, b, a)
        BY <1>0, <2>1, <2>5, <3>2, <4>1, PlanStands DEF FiniteInv
      <4> QED
        BY <2>1, <2>3, <4>2
    <3> QED
      BY <2>1, <2>3, <3>3, <3>4 DEF Decided
  <2>9. Drawn' = {}
    BY <2>1, <2>2 DEF Drawn
  <2>10. ResourcesOf(Listed \ B)' = ResourcesOf(Listed \ B) /\ Listed' = Listed
    BY <2>1, ListedStays DEF ResourcesOf, AssetAllowed, SelectResources
  <2>11. Follows(B)'
    BY <2>1, <2>8, <2>9, <2>10 DEF Follows
  <2>12. Ends(plan, B)'
    BY <2>1, <2>7, EndsStay
  <2>13. /\ OnePathEach(promise)' /\ IsFiniteSet({t.path : t \in promise})'
         /\ Ends(promise, B)'
    BY <2>1, <2>3, <2>4, <2>5, <2>12
  <2> QED
    BY <2>1, <2>2, <2>7, <2>10, <2>11, <2>13 DEF PromiseInv
\* A run begins, or a scan ends, with the path map empty and all decisions as promised.
<1>10. ASSUME UNCHANGED <<remote, config, disk, row, promise, swayed, made, planned>>, Early,
              DOMAIN reserved' = {}, tasks' = {}, planned = {},
              NEW B \in SUBSET Listed, promise # Unknown, Ends(promise, B),
              ~swayed => /\ InRun' => limited' = Listed \ B
                         /\ pc' = "look" => B \subseteq queue'
                         /\ \A r \in ResourcesOf(Listed \ B) : Met(r) \/ Decided(promise, r)
       PROVE  PromiseInv'
  <2>1. ResourcesOf(Listed \ B)' = ResourcesOf(Listed \ B) /\ Listed' = Listed
    BY <1>10, ListedStays DEF ResourcesOf, AssetAllowed, SelectResources
  <2>2. ASSUME ~swayed PROVE Follows(B)'
    <3>1. \A r \in ResourcesOf(Listed \ B) : Met(r)' \/ Decided(promise, r)'
      BY <1>4, <1>10, <2>2, ResourcesOfType
    <3>2. Drawn' = {}
      BY <1>10 DEF Drawn
    <3> QED
      BY <1>10, <2>1, <2>2, <3>1, <3>2 DEF Follows
  <2> QED
    BY <1>2, <1>10, <2>2
<1>11. CASE StartRun
  <2>1. /\ UNCHANGED <<remote, config, disk, row, promise, swayed, made, planned>>
        /\ pc = "idle" /\ tasks' = {} /\ DOMAIN reserved = {} /\ DOMAIN reserved' = {}
        /\ queue' = Listed
        /\ \/ pc' = "plan" /\ limited' = Listed /\ config.untilFound = 0
           \/ pc' = "look"
    BY <1>11 DEF StartRun, ControlInv
  <2>2. Early /\ planned = {}
    BY <2>1 DEF PromiseInv
  <2>3. CASE promise = Unknown
    BY <1>1, <2>1, <2>2, <2>3
  <2>4. CASE promise # Unknown
    <3>1. PICK B \in SUBSET Listed : Ends(promise, B) /\ (~swayed => Follows(B))
      BY <1>3, <2>4
    <3>2. InRun' => limited' = Listed \ B
      BY <2>1, <3>1 DEF Ends, Enough
    <3>3. ~swayed => \A r \in ResourcesOf(Listed \ B) : Met(r) \/ Decided(promise, r)
      BY <2>1, <3>1 DEF Follows, Dealt
    <3> QED
      BY <1>10, <2>1, <2>2, <2>4, <3>1, <3>2, <3>3
  <2> QED
    BY <2>3, <2>4
<1>12. CASE EndLook
  <2>1. /\ UNCHANGED <<remote, config, disk, row, promise, swayed, made, planned>>
        /\ pc = "look" /\ pc' = "plan" /\ todo = {} /\ tasks' = {} /\ DOMAIN reserved' = {}
        /\ limited' = Listed \ queue /\ (queue = {} \/ Enough(tasks, queue))
    BY <1>12 DEF EndLook
  <2>2. Early /\ planned = {}
    BY <2>1 DEF PromiseInv
  <2>3. CASE promise = Unknown
    BY <1>1, <2>1, <2>2, <2>3
  <2>4. CASE promise # Unknown
    <3>1. PICK B \in SUBSET Listed : Ends(promise, B) /\ (~swayed => Follows(B))
      BY <1>3, <2>4
    <3>2. ASSUME ~swayed PROVE B = queue
      <4>0. Drawn = tasks
        BY <2>1, <2>2 DEF Drawn
      <4>1. ResourcesOf(Listed \ B) \subseteq ResourcesOf(Listed)
        BY DEF ResourcesOf
      <4>3. PICK plan : plan = promise
        OBVIOUS
      <4>4. Enough(plan, queue) <=> Enough(tasks, queue)
        <5>1. \A t \in plan : t.resource \in ResourcesOf(Listed)
          BY <3>1, <4>1, <4>3 DEF Ends
        <5> QED
          BY <2>1, <2>4, <3>1, <3>2, <4>0, <4>3, <5>1, LookAgrees DEF Follows, PromiseInv
      <4>5. queue \subseteq Listed /\ Rest(queue) /\ B \subseteq queue
        BY <2>1, <3>1, <3>2 DEF OrderInv, Scope, Follows
      <4>6. B # queue => ~Enough(plan, queue)
        BY <3>1, <4>3, <4>5 DEF Ends, NotBefore
      <4> QED
        BY <2>1, <4>4, <4>5, <4>6
    <3>3. ~swayed => \A r \in ResourcesOf(Listed \ B) : Met(r) \/ Decided(promise, r)
      BY <2>1, <3>1 DEF Follows
    <3> QED
      BY <1>10, <2>1, <2>2, <2>4, <3>1, <3>2, <3>3
  <2> QED
    BY <2>3, <2>4
<1>13. CASE PlanBatch
  BY <1>5, <1>13 DEF PlanBatch, Drawn, ControlInv
<1>14. CASE EndPlan
  BY <1>5, <1>14 DEF EndPlan, Drawn
<1>15. CASE EndBatch \/ StartDeletions
  BY <1>5, <1>15 DEF EndBatch, StartDeletions, Drawn
<1>16. CASE Finish
  BY <1>1, <1>16 DEF Finish, RunForgotten
<1>17. ASSUME NEW r \in todo, PlanResource(r) PROVE PromiseInv'
  <2>1. /\ UNCHANGED <<remote, config, disk>> /\ \A q \in todo : ~Before(q, r)
        /\ r \in Resource /\ r \in ResourcesOf(Scope) /\ pc \in {"preview", "look", "build"}
    BY <1>0, <1>17 DEF PlanResource, TypeOK, OrderInv
  <2>2. CASE Raise
    BY <1>1, <2>2 DEF Raise, RunForgotten
  <2>3. ASSUME NEW b \in BOOLEAN, NEW p, NEW stage,
               Decision(r, b, reserved) = [resource |-> r, path |-> p, stage |-> stage],
               Reserve(r, p, stage), p \notin DOMAIN reserved,
               UNCHANGED row \/ (pc # "preview" /\ Adopted(r, p, stage))
        PROVE  PromiseInv'
    <3>1. PICK new : new = [resource |-> r, path |-> p, stage |-> stage]
      OBVIOUS
    <3>2. /\ UNCHANGED <<pc, queue, limited, planned, made, promise>>
          /\ swayed' = (swayed \/ Sways(r) \/ Claims(r, p, stage))
          /\ tasks' = tasks \cup {new} /\ reserved' = Put(reserved, p, r)
          /\ new.resource = r /\ new.path = p /\ new = Decision(r, b, reserved)
      BY <2>3, <3>1 DEF Reserve
    <3>3. Early
      BY <2>1, <3>2 DEF PromiseInv, Sways, Claims
    <3>4. CASE promise = Unknown
      BY <1>1, <3>2, <3>3, <3>4
    <3>5. ASSUME promise # Unknown, ~swayed', NEW B \in SUBSET Listed, Ends(promise, B), Follows(B)
          PROVE  Follows(B)'
      <4>1. pc \in {"look", "build"} /\ ~swayed /\ ~Sways(r) /\ ~Claims(r, p, stage)
        BY <2>1, <3>2, <3>5 DEF PreviewInv
      <4>2. PICK plan : plan = promise
        OBVIOUS
      <4>3. /\ OnePathEach(plan) /\ Drawn \subseteq plan
            /\ \A q \in DOMAIN reserved : \E t \in Drawn : t.path = q /\ t.resource = reserved[q]
            /\ {t.resource : t \in plan} = ResourcesOf(Listed \ B)
            /\ IsFiniteSet({t.path : t \in plan})
        BY <3>5, <4>2 DEF PromiseInv, Follows, Ends
      <4>4. /\ ResourcesOf(Listed \ B) \subseteq ResourcesOf(Scope)
            /\ r \in ResourcesOf(Listed \ B)
            /\ pc = "build" => Scope = Listed \ B
        <5>1. pc = "build" => Scope = Listed \ B
          BY <3>5 DEF Scope, Follows
        <5>2. pc = "look" => Scope = Listed /\ r.asset \notin B
          BY <1>0, <3>5 DEF Scope, Follows, PlannerInv, ReservedInv
        <5>3. \A x : x \in ResourcesOf(Listed \ B) <=> x \in ResourcesOf(Listed) /\ x.asset \notin B
          BY DEF ResourcesOf
        <5> QED
          BY <2>1, <4>1, <5>1, <5>2, <5>3
      <4>5. Agree(Prior(plan, r), reserved)
        BY <2>1, <4>3, <4>4, PriorIsReserved
      <4>6. /\ Looked(r, Prior(plan, r)) = Looked(r, reserved)
            /\ \A c \in BOOLEAN : Decision(r, c, Prior(plan, r)) = Decision(r, c, reserved)
        BY <4>5, SameDecision
      <4>7. ~Dealt(r) /\ ~Met(r)
        BY <4>1, <4>2, <4>6 DEF Dealt, Met, Sways, PlannerInv, ReservedInv
      <4>8. PICK c \in BOOLEAN : Decision(r, c, reserved) \in plan
        BY <3>5, <4>2, <4>4, <4>6, <4>7 DEF Follows, Decided
      <4>9. Decision(r, b, reserved) = Decision(r, c, reserved)
        <5>1. CASE r \in DOMAIN row
          BY <5>1 DEF Decision
        <5>2. CASE r \notin DOMAIN row
          <6>1. UntrackedPath(r, b, reserved) = UntrackedPath(r, c, reserved)
            BY <4>1, <5>2 DEF Sways
          <6> QED
            BY <5>2, <6>1 DEF Decision
        <5> QED
          BY <5>1, <5>2
      <4>10. new \in plan
        BY <3>2, <4>8, <4>9
      <4>11. Drawn' = Drawn \cup {new}
        BY <3>2, <4>1 DEF Drawn
      <4>12. /\ DOMAIN reserved' = DOMAIN reserved \cup {p} /\ reserved'[p] = r
             /\ \A q \in DOMAIN reserved : reserved'[q] = reserved[q]
        BY <2>3, <3>2 DEF Put
      <4>13. \A q \in DOMAIN reserved' :
               \E t \in Drawn' : t.path = q /\ t.resource = reserved'[q]
        BY <3>2, <4>3, <4>11, <4>12
      <4>14. ASSUME NEW q \in ResourcesOf(Listed \ B), pc = "build", ~Dealt(q)'
             PROVE  Met(q)' \/ Decided(promise, q)'
        <5>0. q \in Resource
          BY ResourcesOfType
        <5>1. q # r /\ ~Dealt(q)
          BY <4>12, <4>14 DEF Dealt
        <5>2. r \in Earlier(q)
          <6>1. q \in todo \/ q.asset \in queue
            BY <4>4, <4>14, <5>1 DEF OrderInv
          <6>2. CASE q \in todo
            <7>1. Scope \in SUBSET Asset
              BY <4>4, <4>14 DEF Listed
            <7> QED
              BY <2>1, <4>4, <4>14, <5>1, <6>2, <7>1, PlanIsOrdered DEF Earlier
          <6>3. CASE q.asset \in queue
            BY <2>1, <5>1, <6>3 DEF Earlier, OrderInv, Before
          <6> QED
            BY <6>1, <6>2, <6>3
        <5>3. p \in DOMAIN Prior(plan, q)
          BY <3>2, <4>3, <4>10, <5>2, PriorOf
        <5>4. \A x : At(x)' = At(x)
          BY <2>1 DEF At
        <5>5. \A x : x # p => Owners(x)' = Owners(x)
          BY <2>3 DEF Put, Owners, Adopted
        <5>6. (q \in DOMAIN row' <=> q \in DOMAIN row) /\ (q \in DOMAIN row => row'[q] = row[q])
          BY <2>3, <5>1 DEF Put, Adopted
        <5>7. Spares(q, Prior(promise, q), made')
          BY <2>1, <4>2, <5>3, <5>4, <5>5, <5>6 DEF Spares
        <5>8. Met(q) \/ Decided(promise, q)
          BY <3>5, <5>1 DEF Follows
        <5> QED
          BY <1>0, <2>1, <3>2, <4>2, <4>3, <5>0, <5>7, <5>8, StillDecided DEF FiniteInv
      <4>15. ASSUME NEW q \in ResourcesOf(Listed \ B), pc = "look"
             PROVE  Met(q)' \/ Decided(promise, q)'
        <5>0. q \in Resource /\ (Met(q) \/ Decided(promise, q))
          BY <3>5, <4>15, ResourcesOfType DEF Follows
        <5>1. CASE UNCHANGED row
          BY <1>4, <2>1, <3>2, <3>5, <5>0, <5>1
        <5>2. ASSUME Adopted(r, p, stage) PROVE Met(q)' \/ Decided(promise, q)'
          <6>1. stage = "skip" /\ Owners(p) = {} /\ (r.sized => disk[p] = Original(r))
            BY <4>1, <4>15, <5>2 DEF Adopted, Claims
          <6>2. PICK a : a = Prior(plan, q)
            OBVIOUS
          <6>3. Prior(promise, q)' = a /\ Prior(promise, q) = a
            BY <2>1, <3>2, <4>2, <6>2, PriorStays
          <6>4. CASE q = r
            <7>1. p \notin DOMAIN a
              BY <2>3, <4>5, <6>2, <6>4 DEF Agree
            <7>2. Decision(r, TRUE, a)' = new
              BY <1>0, <2>1, <3>1, <5>2, <6>1, <7>1, AdoptionStands
            <7> QED
              BY <3>2, <4>2, <4>10, <6>3, <6>4, <7>2 DEF Decided
          <6>5. CASE q # r
            <7>1. \E d \in BOOLEAN : Decision(q, d, a) \in plan
              <8>1. made = {}
                BY <4>15 DEF PromiseInv
              <8> QED
                BY <4>2, <5>0, <6>3, <8>1 DEF Met, Decided
            <7>2. Spares(q, a, {})
              BY <2>1, <3>1, <4>3, <4>10, <5>0, <5>2, <6>1, <6>5, <7>1, AdoptionSpares
            <7>3. made' = {}
              BY <3>2, <4>15 DEF PromiseInv
            <7>4. Spares(q, Prior(promise, q), made')
              BY <6>3, <7>2, <7>3
            <7> QED
              BY <1>0, <2>1, <3>2, <4>2, <4>3, <5>0, <7>4, StillDecided DEF FiniteInv
          <6> QED
            BY <6>4, <6>5
        <5> QED
          BY <2>3, <5>1, <5>2
      <4>16. ResourcesOf(Listed \ B)' = ResourcesOf(Listed \ B) /\ Listed' = Listed
        BY <2>1, ListedStays DEF ResourcesOf, AssetAllowed, SelectResources
      <4>17. \A q \in ResourcesOf(Listed \ B) :
               (pc # "look" /\ Dealt(q)') \/ Met(q)' \/ Decided(promise, q)'
        BY <4>1, <4>14, <4>15
      <4> QED
        BY <3>2, <3>5, <4>1, <4>2, <4>3, <4>10, <4>11, <4>13, <4>16, <4>17 DEF Follows
    <3>6. CASE promise # Unknown
      <4>1. PICK B \in SUBSET Listed : Ends(promise, B) /\ (~swayed => Follows(B))
        BY <1>3, <3>6
      <4>2. ~swayed' => ~swayed
        BY <3>2
      <4> QED
        BY <1>2, <2>1, <3>2, <3>3, <3>5, <3>6, <4>1, <4>2
    <3> QED
      BY <3>4, <3>6
  <2> QED
    BY <1>17, <2>2, <2>3, PlannerDecides
<1>18. ASSUME UNCHANGED <<remote, config, pc, reserved, planned, promise, swayed, limited>>,
              pc = "work", made \subseteq made',
              \A B \in SUBSET Listed :
                promise # Unknown /\ Ends(promise, B) /\ ~swayed /\ Follows(B) =>
                  \A r \in ResourcesOf(limited) : ~Dealt(r) => Spares(r, Prior(promise, r), made')
       PROVE  PromiseInv'
  <2>1. Drawn' = Drawn /\ Early
    BY <1>18 DEF Drawn
  <2>2. CASE promise = Unknown
    BY <1>1, <1>18, <2>1, <2>2
  <2>3. CASE promise # Unknown
    <3>1. PICK B \in SUBSET Listed : Ends(promise, B) /\ (~swayed => Follows(B))
      BY <1>3, <2>3
    <3>2. ASSUME ~swayed PROVE Follows(B)'
      <4>1. limited = Listed \ B
        BY <1>18, <3>1, <3>2 DEF Follows
      <4>2. ASSUME NEW r \in ResourcesOf(Listed \ B), ~Dealt(r) PROVE Met(r)' \/ Decided(promise, r)'
        <5>1. Spares(r, Prior(promise, r), made') /\ r \in Resource
          BY <1>18, <2>3, <3>1, <3>2, <4>1, <4>2, ResourcesOfType
        <5>2. Met(r) \/ Decided(promise, r)
          BY <3>1, <3>2, <4>2 DEF Follows
        <5>3. IsFiniteSet({t.path : t \in promise})
          BY <2>3 DEF PromiseInv
        <5> QED
          BY <1>0, <1>18, <5>1, <5>2, <5>3, StillDecided DEF FiniteInv
      <4>3. ResourcesOf(Listed \ B)' = ResourcesOf(Listed \ B) /\ Listed' = Listed
        BY <1>18, ListedStays DEF ResourcesOf, AssetAllowed, SelectResources
      <4>4. \A r : Dealt(r)' <=> Dealt(r)
        BY <1>18 DEF Dealt
      <4> QED
        BY <1>18, <2>1, <3>1, <3>2, <4>2, <4>3, <4>4 DEF Follows
    <3> QED
      BY <1>2, <1>18, <2>1, <2>3, <3>1, <3>2
  <2> QED
    BY <2>2, <2>3
<1>19. ASSUME NEW t \in tasks, Fetch(t) PROVE PromiseInv'
  <2>1. /\ UNCHANGED <<remote, config, pc, reserved, planned, promise, swayed, limited, made>>
        /\ pc = "work" /\ At(t.path) # Directory
        /\ disk' = Put(disk, t.path, Original(t.resource))
        /\ row' = Put(row, t.resource, [path |-> t.path, content |-> Original(t.resource),
                                        status |-> "VERIFIED"])
    BY <1>19 DEF Fetch, WorkStep
  <2>2. Original(t.resource) # Directory
    BY <1>0, TaskOfState, Contents
  <2>3. /\ t.path \in DOMAIN reserved /\ reserved[t.path] = t.resource
        /\ t.resource \in DOMAIN row =>
             row[t.resource].path = t.path \/ row[t.resource].path \in DOMAIN reserved
    BY DEF TaskInv, MovedInv
  <2>4. ASSUME NEW B \in SUBSET Listed, promise # Unknown, Follows(B),
               NEW r \in ResourcesOf(limited), ~Dealt(r)
        PROVE  Spares(r, Prior(promise, r), made')
    <3>1. PICK a : a = Prior(promise, r)
      OBVIOUS
    <3>2. DOMAIN reserved \subseteq DOMAIN a
      BY <1>6, <2>1, <2>4, <3>1 DEF Follows, PromiseInv
    <3>3. r # t.resource
      BY <2>3, <2>4 DEF Dealt
    <3>4. \A p : p # t.path => At(p)' = At(p)
      BY <2>1 DEF Put, At
    <3>5. At(t.path)' = Original(t.resource)
      BY <2>1 DEF Put, At
    <3>6. \A p : p \notin DOMAIN a => Owners(p)' = Owners(p)
      BY <2>1, <2>3, <3>2 DEF Put, Owners
    <3>7. (r \in DOMAIN row' <=> r \in DOMAIN row) /\ (r \in DOMAIN row => row'[r] = row[r])
      BY <2>1, <3>3 DEF Put
    <3>8. t.path \in DOMAIN a
      BY <2>3, <3>2
    <3> QED
      BY <2>1, <2>2, <3>1, <3>4, <3>5, <3>6, <3>7, <3>8 DEF Spares
  <2> QED
    BY <1>18, <2>1, <2>4
<1>20. ASSUME NEW t \in tasks, Convert(t) PROVE PromiseInv'
  <2>1. PICK p : p = JpegTarget(t.path)
    OBVIOUS
  <2>2. PICK c : c = JpegOf(disk[t.path])
    OBVIOUS
  <2>3. /\ UNCHANGED <<remote, config, pc, reserved, planned, promise, swayed, limited, row>>
        /\ pc = "work" /\ At(p) # Directory /\ disk' = Put(disk, p, c)
        /\ made' = made \cup {p}
    BY <1>20, <2>1, <2>2 DEF Convert, WorkStep
  <2>4. c # Directory
    <3>1. disk[t.path] \in Sources
      BY <1>20, SourceOfTask DEF Convert, PlannerInv
    <3> QED
      BY <2>2, <3>1, Contents
  <2>5. ASSUME NEW r PROVE Spares(r, Prior(promise, r), made')
    <3>1. \A q : q # p => At(q)' = At(q)
      BY <2>3 DEF Put, At
    <3>2. At(p)' = c
      BY <2>3 DEF Put, At
    <3>3. \A q : Owners(q)' = Owners(q)
      BY <2>3 DEF Owners
    <3> QED
      BY <2>3, <2>4, <3>1, <3>2, <3>3 DEF Spares
  <2> QED
    BY <1>18, <2>3, <2>5
<1>21. ASSUME NEW t \in tasks, LookForJpeg(t) \/ TaskFails(t) PROVE PromiseInv'
  BY <1>5, <1>21 DEF LookForJpeg, TaskFails, WorkStep, Drawn
<1>22. ASSUME NEW a \in Asset, DeleteFiles(a) PROVE PromiseInv'
  <2>1. /\ pc = "delete" /\ todo = {} /\ queue = {}
        /\ UNCHANGED <<remote, config, pc, reserved, planned, tasks, promise, swayed, made, limited>>
    BY <1>22 DEF DeleteFiles, ControlInv
  <2>2. \A r \in ResourcesOf(limited) : Dealt(r)'
    BY <2>1 DEF OrderInv, Scope, Dealt
  <2>3. Drawn' = Drawn /\ Early
    BY <2>1 DEF Drawn
  <2>4. CASE promise = Unknown
    BY <1>1, <2>1, <2>3, <2>4
  <2>5. CASE promise # Unknown
    <3>1. PICK B \in SUBSET Listed : Ends(promise, B) /\ (~swayed => Follows(B))
      BY <1>3, <2>5
    <3>2. ResourcesOf(Listed \ B)' = ResourcesOf(Listed \ B) /\ Listed' = Listed
      BY <2>1, ListedStays DEF ResourcesOf, AssetAllowed, SelectResources
    <3>3. ~swayed => Follows(B)'
      BY <2>1, <2>2, <2>3, <3>1, <3>2 DEF Follows
    <3> QED
      BY <1>2, <2>1, <2>3, <2>5, <3>1, <3>3
  <2> QED
    BY <2>4, <2>5
<1>23. CASE OutsideStep
  BY <1>1, <1>23 DEF OutsideStep, PromiseInv
<1>24. CASE UNCHANGED vars
  <2>1. UNCHANGED <<remote, config, disk, row, reserved, promise, swayed, made, pc, planned,
                    tasks, limited, queue>>
    BY <1>24 DEF vars
  <2>2. Drawn' = Drawn /\ Early
    BY <2>1 DEF Drawn, PromiseInv
  <2> QED
    BY <1>5, <2>1, <2>2
<1> QED
  BY <1>7, <1>8, <1>9, <1>11, <1>12, <1>13, <1>14, <1>15, <1>16, <1>17, <1>19, <1>20, <1>21,
     <1>22, <1>23, <1>24, OutsideSteps DEF Phases

\* Nothing is there at first.
LEMMA InitInv ==
  ASSUME Init
  PROVE  /\ PlannerInv /\ ControlInv /\ TaskInv /\ JpegInv
         /\ MovedInv /\ KnownInv /\ OwnInv /\ MadeInv
         /\ VictimsInv /\ CompleteInv /\ SettledInv
         /\ OrderInv /\ PreviewInv /\ PromiseInv
<1>1. DOMAIN disk = {} /\ DOMAIN row = {} /\ DOMAIN reserved = {}
  BY DEF Init
<1>2. IsFiniteSet({})
  BY FS_EmptySet
<1>3. TypeOK
  <2>1. remote \in [Asset -> {"absent", "active", "deleted"}]
    BY DEF Init
  <2>2. 0 \in 0..MaxEvents
    BY ConstantsAssumption
  <2>3. WorldOK
    BY <2>1, <2>2 DEF Init, WorldOK
  <2>4. DiskOK /\ RowsOK /\ artifacts \subseteq Artifact
    BY <1>1 DEF Init, DiskOK, RowsOK
  <2>5. RunOK
    BY <1>1 DEF Init, RunOK
  <2> QED
    BY <2>3, <2>4, <2>5, TypeParts
<1>4. FiniteInv /\ ReservedInv /\ PlaceInv
  BY <1>1, <1>2 DEF Init, FiniteInv, ReservedInv, PlaceInv
<1>5. ControlInv /\ TaskInv /\ JpegInv /\ MovedInv
  BY DEF Init, ControlInv, TaskInv, JpegInv, Making, MovedInv
<1>6. KnownInv /\ OwnInv /\ MadeInv
  BY <1>1 DEF Init, KnownInv, OwnInv, MadeInv
<1>7. VictimsInv /\ CompleteInv /\ SettledInv
  BY DEF Init, VictimsInv, CompleteInv, SettledInv
<1>8. OrderInv /\ PreviewInv /\ PromiseInv
  BY <1>1 DEF Init, OrderInv, PreviewInv, PromiseInv
<1> QED
  BY <1>3, <1>4, <1>5, <1>6, <1>7, <1>8 DEF PlannerInv

\* What holds in every state: the places ...
LEMMA Places == Spec => [](PlannerInv /\ ControlInv /\ TaskInv /\ JpegInv)
<1>1. Init => PlannerInv /\ ControlInv /\ TaskInv /\ JpegInv
  BY InitInv
<1>2. PlannerInv /\ ControlInv /\ TaskInv /\ JpegInv /\ [Next]_vars
      => (PlannerInv /\ ControlInv /\ TaskInv /\ JpegInv)'
  <2> SUFFICES ASSUME PlannerInv, ControlInv, TaskInv, JpegInv, [Next]_vars
               PROVE  (PlannerInv /\ ControlInv /\ TaskInv /\ JpegInv)'
    OBVIOUS
  <2>1. PlannerInv'
    BY TypeStep, FiniteStep, ReservedStep, PlaceStep DEF PlannerInv
  <2> QED
    BY <2>1, ControlStep, TaskStep, JpegStep
<1> QED
  BY <1>1, <1>2, PTL DEF Spec

\* ... and the owners.
LEMMA Ownership == Spec => [](MovedInv /\ KnownInv /\ OwnInv /\ MadeInv)
<1>1. Init => MovedInv /\ KnownInv /\ OwnInv /\ MadeInv
  BY InitInv
<1>2. /\ PlannerInv /\ ControlInv /\ TaskInv
      /\ MovedInv /\ KnownInv /\ OwnInv /\ MadeInv /\ [Next]_vars
      => (MovedInv /\ KnownInv /\ OwnInv /\ MadeInv)'
  BY MovedStep, KnownStep, OwnStep, MadeStep
<1> QED
  BY <1>1, <1>2, Places, PTL DEF Spec

\* ... and what a run has in common with the preview before it ...
LEMMA Promised == Spec => [](OrderInv /\ PreviewInv /\ PromiseInv)
<1>1. Init => OrderInv /\ PreviewInv /\ PromiseInv
  BY InitInv
<1>2. /\ PlannerInv /\ ControlInv /\ TaskInv /\ MovedInv
      /\ OrderInv /\ PreviewInv /\ PromiseInv /\ [Next]_vars
      /\ (PlannerInv /\ TaskInv)'
      => (OrderInv /\ PreviewInv /\ PromiseInv)'
  BY OrderStep, PreviewStep, PromiseStep DEF PlannerInv
<1> QED
  BY <1>1, <1>2, Places, Ownership, PTL DEF Spec

\* ... and what it leaves.
LEMMA Completeness == Spec => [](VictimsInv /\ CompleteInv /\ SettledInv)
<1>1. Init => VictimsInv /\ CompleteInv /\ SettledInv
  BY InitInv
<1>2. /\ PlannerInv /\ ControlInv /\ TaskInv /\ OrderInv
      /\ VictimsInv /\ CompleteInv /\ SettledInv /\ [Next]_vars
      /\ ControlInv'
      => (VictimsInv /\ CompleteInv /\ SettledInv)'
  BY VictimsStep, CompleteStep, SettledStep
<1> QED
  BY <1>1, <1>2, Places, Promised, PTL DEF Spec

\* Every path the planners and the conversions find is a path, in every run and for any
\* number of taken ones (planner.py:217-240, postprocess.py:96-110).
THEOREM TypeCorrect == Spec => []TypeOK
BY Places, PTL DEF PlannerInv

\* Each resource of a batch has a path to itself; a download finds it free, and so does a
\* JPEG its own, unless a twin's JPEG of the same batch lies there, of IMG.HEIC and IMG.HEIF
\* (postprocess.py:78-110, manager.py:95-97).
THEOREM PlacesAreFree == Spec => []PlacesStayFree
<1>1. TaskInv /\ JpegInv => PlacesStayFree
  <2> SUFFICES ASSUME TaskInv, JpegInv, NEW t \in tasks
               PROVE  /\ t.path \in DOMAIN reserved /\ reserved[t.path] = t.resource
                      /\ t.stage = "get" => ~IsFile(t.path)
                      /\ t.stage = "kept" => ~IsFile(JpegTarget(t.path))
                      /\ t.stage = "converting" /\ IsFile(JpegTarget(t.path)) =>
                           /\ JpegTarget(t.path) \in made
                           /\ \E q \in protected : Twins(t.path, q)
    BY DEF PlacesStayFree
  <2>1. t.stage \in {"kept", "converting"} => t \in Making
    BY DEF Making
  <2> QED
    BY <2>1 DEF TaskInv, JpegInv
<1> QED
  BY <1>1, Places, PTL

\* A run without failures ends with every wanted resource of every asset it went for in a
\* file of its own, which is what its row says and, unless the run adopted foreign files, of
\* the size iCloud has (planner.py:100-144, deletion.py:132-202, engine.py:306-314).
THEOREM CleanRuns == Spec => []CleanRunsAreComplete
<1>1. ControlInv /\ CompleteInv => CleanRunsAreComplete
  <2> SUFFICES ASSUME ControlInv, CompleteInv, pc = "delete", ~failed,
                      NEW r \in ResourcesOf(limited), NEW q \in ResourcesOf(limited)
               PROVE  /\ r \in DOMAIN row /\ q \in DOMAIN row
                      /\ row[r].status = "VERIFIED" /\ At(row[r].path) = row[r].content
                      /\ r.sized /\ ~foreign => row[r].content = Original(r)
                      /\ row[r].path = row[q].path => r = q
    BY DEF CleanRunsAreComplete
  <2>1. tasks = {} /\ todo = {} /\ queue = {}
    BY DEF ControlInv
  <2>2. Kept(r) /\ Kept(q)
    BY <2>1 DEF CompleteInv, Waiting
  <2> QED
    BY <2>2 DEF Kept
<1> QED
  BY <1>1, Places, Completeness, PTL

\* A run after a complete one, with nothing changed in between, downloads nothing, whatever
\* the run before converted and deleted (planner.py:100-124, 277-281).
THEOREM SecondRuns == Spec => []CompleteRunsSettle
<1>1. SettledInv => CompleteRunsSettle
  BY DEF SettledInv, CompleteRunsSettle
<1> QED
  BY <1>1, Completeness, PTL

\* A run plans what the preview just before it planned, for any number and size of batches
\* and also where until_found ends both early, unless a JPEG the run has made, a file its
\* scan adopted and the batches then repair, or an undefined choice intervenes
\* (engine.py:90-140, 208-227, 412-440, 504-538).
THEOREM Promises == Spec => []PromisesAreKept
<1>1. ControlInv /\ OrderInv /\ PromiseInv => PromisesAreKept
  <2> SUFFICES ASSUME ControlInv, OrderInv, PromiseInv,
                      pc = "delete", promise # Unknown, ~swayed
               PROVE  planned = promise
    BY DEF PromisesAreKept
  <2>1. PICK plan : plan = promise
    OBVIOUS
  <2>2. PICK B \in SUBSET Listed : Ends(plan, B) /\ Follows(B)
    BY <2>1 DEF PromiseInv
  <2>3. /\ OnePathEach(plan) /\ {t.resource : t \in plan} = ResourcesOf(limited)
        /\ planned \subseteq plan
        /\ \A p \in DOMAIN reserved :
             \E t \in planned : t.path = p /\ t.resource = reserved[p]
    BY <2>1, <2>2 DEF PromiseInv, Ends, Follows, Drawn
  <2>4. ASSUME NEW t \in plan PROVE t \in planned
    <3>1. t.resource \in ResourcesOf(limited)
      BY <2>3
    <3>2. Dealt(t.resource)
      BY <3>1 DEF OrderInv, ControlInv, Scope
    <3>3. PICK u \in planned : u.resource = t.resource
      BY <2>3, <3>2 DEF Dealt
    <3> QED
      BY <2>3, <3>3 DEF OnePathEach
  <2> QED
    BY <2>1, <2>3, <2>4
<1> QED
  BY <1>1, Places, Promised, PTL

\* Before a database is lost, a deletion takes away what was made from the deleted asset or
\* from one whose identifier ends alike, a user's file, or a photo recorded as a derived
\* JPEG at a place its row has left (deletion.py:132-202).
THEOREM DeletionsTakeOwnFiles == Spec => DeletedFilesAreOwn
<1> DEFINE Own == \A a \in victims \ victims', p \in DOMAIN disk \ DOMAIN disk' :
                    \/ renewed \/ LeftBehind(p)
                    \/ Source(disk[p]) = UserFile
                    \/ ShortId[Source(disk[p]).of.asset] = ShortId[a]
<1>1. ASSUME TypeOK, KnownInv, OwnInv, MadeInv, NEW a \in Asset, DeleteFiles(a),
             NEW p \in DOMAIN disk, p \notin DOMAIN disk', ~renewed, ~LeftBehind(p)
      PROVE  \/ Source(disk[p]) = UserFile
             \/ ShortId[Source(disk[p]).of.asset] = ShortId[a]
  <2>1. PICK e \in Entries(a) : p = e.path
    BY <1>1 DEF DeleteFiles
  <2>2. OwnerAssets(p) = {a} /\ disk[p] = e.content
    <3>1. OwnerAssets(p) = {a} /\ At(p) \in {NoFile, e.content}
      BY <1>1, <2>1 DEF DeleteFiles, Refused
    <3>2. At(p) = disk[p] /\ disk[p] # NoFile
      BY <1>1, Contents DEF At, TypeOK
    <3> QED
      BY <3>1, <3>2
  <2>3. e.content \in Content
    <3>1. (\A r \in DOMAIN row : row[r] \in Entry) /\ artifacts \subseteq Artifact
      BY <1>1, TypeParts DEF RowsOK
    <3>2. e \in Entry \/ e \in Artifact
      BY <3>1 DEF Entries, Managed, ArtifactsOf
    <3> QED
      BY <3>2 DEF Entry, Artifact
  <2>4. CASE disk[p] = UserFile
    BY <2>4, Contents DEF Source
  <2>5. ASSUME NEW x \in Resource, disk[p] = Original(x)
        PROVE  ShortId[x.asset] = ShortId[a]
    <3>1. e \in artifacts \/ \E r \in DOMAIN row : e = row[r] /\ r.asset = a
      BY DEF Entries, Managed, ArtifactsOf
    <3>2. CASE \E r \in DOMAIN row : e = row[r] /\ r.asset = a
      <4>1. PICK r \in DOMAIN row : e = row[r] /\ r.asset = a
        BY <3>2
      <4>2. row[r].content = Original(x)
        BY <2>2, <2>5, <4>1
      <4> QED
        BY <1>1, <4>1, <4>2 DEF OwnInv
    <3>3. CASE e \in artifacts
      <4>1. x \in DOMAIN row
        BY <1>1, <2>5 DEF KnownInv
      <4>2. disk[p].kind = "original" /\ disk[p].of = x
        BY <2>5, Contents
      <4>3. \E y \in artifacts : y.path = p /\ y.content = disk[p]
        BY <2>1, <2>2, <3>3
      <4>4. row[x].path = p
        BY <1>1, <4>1, <4>2, <4>3 DEF LeftBehind
      <4>5. x.asset \in OwnerAssets(p)
        BY <4>1, <4>4 DEF OwnerAssets
      <4> QED
        BY <2>2, <4>5
    <3> QED
      BY <3>1, <3>2, <3>3
  <2>6. ASSUME NEW x \in Resource, disk[p] = JpegOf(Original(x))
        PROVE  ShortId[x.asset] = ShortId[a]
    <3>1. PICK y \in artifacts : y.path = p /\ ShortId[y.resource.asset] = ShortId[x.asset]
      BY <1>1, <2>6 DEF MadeInv
    <3>2. y.resource.asset \in OwnerAssets(p)
      BY <3>1 DEF OwnerAssets
    <3> QED
      BY <2>2, <3>1, <3>2
  <2>7. \/ disk[p] = UserFile \/ disk[p] = JpegOf(UserFile)
        \/ \E x \in Resource : disk[p] = Original(x) \/ disk[p] = JpegOf(Original(x))
    BY <2>2, <2>3, Contents
  <2>8. CASE disk[p] = JpegOf(UserFile)
    BY <2>8, Contents DEF Source
  <2>9. ASSUME NEW x \in Resource
        PROVE  /\ disk[p] = Original(x) => Source(disk[p]).of = x
               /\ disk[p] = JpegOf(Original(x)) => Source(disk[p]).of = x
    BY Contents DEF Source
  <2> QED
    BY <2>4, <2>5, <2>6, <2>7, <2>8, <2>9
<1>2. ASSUME [Next]_vars, NEW a \in victims \ victims', NEW p \in DOMAIN disk \ DOMAIN disk',
             TypeOK
      PROVE  a \in Asset /\ DeleteFiles(a)
  <2> USE DEF outsideVars, rowVars, planVars, workVars, historyVars
  <2>1. victims' # victims /\ disk' # disk /\ a \in Asset
    BY <1>2 DEF TypeOK
  <2>2. PICK b \in Asset : DeleteFiles(b)
    <3>1. ~Phases /\ ~OutsideStep
      BY <2>1, PhasesKeepData DEF OutsideStep
    <3>2. ASSUME NEW r, PlanResource(r) PROVE UNCHANGED disk
      BY <3>2 DEF PlanResource
    <3>3. ASSUME NEW t, Fetch(t) \/ LookForJpeg(t) \/ Convert(t) \/ TaskFails(t)
          PROVE  UNCHANGED victims
      BY <3>3 DEF Fetch, LookForJpeg, Convert, TaskFails, WorkStep
    <3>4. ~UNCHANGED vars
      BY <2>1 DEF vars
    <3> QED
      BY <1>2, <2>1, <3>1, <3>2, <3>3, <3>4, OutsideSteps
  <2>3. a = b
    BY <1>2, <2>2 DEF DeleteFiles
  <2> QED
    BY <2>1, <2>2, <2>3
<1>3. TypeOK /\ KnownInv /\ OwnInv /\ MadeInv /\ [Next]_vars => [Own]_vars
  BY <1>1, <1>2
<1> QED
  BY <1>3, Places, Ownership, PTL DEF Spec, DeletedFilesAreOwn, PlannerInv
=============================================================================

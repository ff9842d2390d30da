-------------------------- MODULE TrackCatalog_proofs --------------------------
(***************************************************************************)
(* Proofs about TrackCatalog, for any tracks, challenges, lists, students   *)
(* and calls, of any number of administrators.                              *)
(***************************************************************************)
EXTENDS TrackCatalog, FiniteSetTheorems, TLAPS

(* What a call has at each of its stages.                                   *)
WithoutCopy == {"idle", "looking", "releasing", "creating"}

CallInv ==
    \A c \in Calls :
        /\ stage[c] # "idle" => job[c] \in Jobs
        /\ stage[c] \in WithoutCopy <=> copy[c] = None

(* The number of students enrolled in a track.                              *)
Enrolments(t) == Cardinality(EnrolledIn(t))

(* A call has read the present version of the track.                        *)
IsCurrent(c, t) == /\ copy[c] # None
                   /\ job[c].track = t
                   /\ copy[c].version = catalog[t].version

(* A copy is not newer than the track; with the same version, it lists the   *)
(* same, but for what updateTrack has changed.  It lists nothing twice that  *)
(* was not listed without a check.  Its count is not above the enrolments,   *)
(* and below them once the call has inserted its own.                       *)
CopyInv ==
    \A c \in Calls, t \in Tracks : copy[c] # None /\ job[c].track = t =>
        /\ copy[c].version <= catalog[t].version
        /\ copy[c].version = catalog[t].version =>
              \A x \in Challenges \ loose[t] : copy[c].lists[x] = catalog[t].lists[x]
        /\ \A x \in Challenges : <<t, x>> \notin given => copy[c].lists[x] <= 1
        /\ copy[c].total <= Enrolments(t)
        /\ stage[c] = "counting" => copy[c].total + 1 <= Enrolments(t)

CatalogInv == TypeOK /\ CallInv /\ CopyInv /\ CatalogSound

-----------------------------------------------------------------------------
(* Every step, whichever call takes it: a track's list changes with its      *)
(* version or at the entries that are then loose, challenges and enrolments  *)
(* only grow, and a copy is kept or read from the track it is about.        *)
TracksGrow ==
    \A t \in Tracks :
        \/ /\ catalog'[t].version = catalog[t].version
           /\ loose[t] \subseteq loose'[t]
           /\ \A x \in Challenges \ loose'[t] : catalog'[t].lists[x] = catalog[t].lists[x]
        \/ catalog'[t].version = catalog[t].version + 1

DocumentsGrow ==
    /\ catalog' \in [Tracks -> Documents]
    /\ slot' \in [Challenges -> Tracks \cup {None}]
    /\ created \subseteq created' /\ created' \subseteq Challenges
    /\ given \subseteq given' /\ given' \subseteq Tracks \X Challenges
    /\ loose' \in [Tracks -> SUBSET Challenges]
    /\ enrolled \subseteq enrolled' /\ enrolled' \subseteq Students \X Tracks
    /\ TracksGrow

CopiesRead ==
    \A c \in Calls : copy'[c] # None =>
        \/ copy'[c] = copy[c] /\ job'[c].track = job[c].track
        \/ catalog' = catalog /\ copy'[c] = catalog[job'[c].track] /\ stage'[c] # "counting"

Regular == TypeOK' /\ CallInv' /\ DocumentsGrow /\ CopiesRead

-----------------------------------------------------------------------------
(* Effects of the operators the actions are built from. *)

LEMMA CallsApart ==
  ASSUME NEW e \in Editors, NEW c \in Enrollers
  PROVE  e # c
BY CatalogAssumption

LEMMA BeginEffect ==
  ASSUME TypeOK, NEW c \in Calls, NEW j \in Jobs, NEW next \in Stages,
         NEW read, Begin(c, j, next, read)
  PROVE  /\ stage[c] = "idle" /\ stage'[c] = next /\ job'[c] = j /\ copy'[c] = read
         /\ \A d \in Calls \ {c} : /\ stage'[d] = stage[d] /\ job'[d] = job[d]
                                   /\ copy'[d] = copy[d]
         /\ UNCHANGED documents
         /\ raced' = raced \cup {x \in j.challenges : Edited(x)}
         /\ stage' \in [Calls -> Stages]
         /\ job' \in [Calls -> Jobs \cup {None}]
         /\ read \in Documents \cup {None} => copy' \in [Calls -> Documents \cup {None}]
BY DEF TypeOK, Begin

LEMMA GoToEffect ==
  ASSUME TypeOK, NEW c \in Calls, NEW next \in Stages, GoTo(c, next)
  PROVE  /\ stage'[c] = next
         /\ \A d \in Calls \ {c} : stage'[d] = stage[d]
         /\ job' = job /\ copy' = copy /\ raced' = raced
         /\ stage' \in [Calls -> Stages]
BY DEF TypeOK, GoTo

LEMMA FinishEffect ==
  ASSUME TypeOK, NEW c \in Calls, Finish(c)
  PROVE  /\ stage'[c] = "idle" /\ copy'[c] = None /\ raced' = raced
         /\ \A d \in Calls \ {c} : /\ stage'[d] = stage[d] /\ job'[d] = job[d]
                                   /\ copy'[d] = copy[d]
         /\ stage' \in [Calls -> Stages]
         /\ job' \in [Calls -> Jobs \cup {None}]
         /\ copy' \in [Calls -> Documents \cup {None}]
BY DEF TypeOK, Finish, Stages

LEMMA DocumentFields ==
  ASSUME NEW d \in Documents
  PROVE  d.lists \in [Challenges -> Nat] /\ d.version \in Nat /\ d.total \in Nat
BY DEF Documents

LEMMA SaveTrackEffect ==
  ASSUME TypeOK, NEW t \in Tracks, NEW read, NEW lists \in [Challenges -> Nat],
         NEW total \in Nat, SaveTrack(t, read, lists, total)
  PROVE  /\ catalog' \in [Tracks -> Documents]
         /\ catalog[t].version = read.version
         /\ catalog'[t].version = catalog[t].version + 1
         /\ catalog'[t].lists = lists
         /\ catalog'[t].total \in {catalog[t].total, total}
         /\ total = read.total => catalog'[t].total = catalog[t].total
         /\ \A u \in Tracks \ {t} : catalog'[u] = catalog[u] /\ loose'[u] = loose[u]
         /\ loose' \in [Tracks -> SUBSET Challenges]
         /\ TracksGrow
<1> DEFINE doc == Saved(catalog[t], read, lists, total)
<1>1. catalog[t] \in Documents
  BY DEF TypeOK
<1>2. /\ doc \in Documents /\ doc.lists = lists /\ doc.version = catalog[t].version + 1
      /\ doc.total = IF total = read.total THEN catalog[t].total ELSE total
  BY <1>1 DEF Saved, Documents
<1>3. /\ catalog[t].version = read.version /\ catalog' = [catalog EXCEPT ![t] = doc]
      /\ loose' = [loose EXCEPT ![t] = {}]
  BY DEF SaveTrack
<1> HIDE DEF doc
<1>4. catalog'[t] = doc /\ \A u \in Tracks \ {t} : catalog'[u] = catalog[u] /\ loose'[u] = loose[u]
  BY <1>3 DEF TypeOK
<1>5. catalog' \in [Tracks -> Documents] /\ loose' \in [Tracks -> SUBSET Challenges]
  BY <1>2, <1>3 DEF TypeOK
<1>6. TracksGrow
  BY <1>2, <1>4 DEF TracksGrow
<1> QED BY <1>2, <1>3, <1>4, <1>5, <1>6

LEMMA ListEdits ==
  ASSUME NEW d \in Documents, NEW X \in SUBSET Challenges
  PROVE  /\ With(d, X) \in [Challenges -> Nat]
         /\ Without(d, X) \in [Challenges -> Nat]
         /\ \A x \in Challenges : x \notin X => /\ With(d, X)[x] = d.lists[x]
                                                /\ Without(d, X)[x] = d.lists[x]
         /\ \A x \in X : Without(d, X)[x] = 0
         /\ \A x \in Challenges : d.lists[x] <= 1 => /\ With(d, X)[x] <= 1
                                                     /\ Without(d, X)[x] <= 1
BY DocumentFields DEF With, Without, Listed

LEMMA FilledList ==
  ASSUME NEW d \in Documents, NEW X \in SUBSET Challenges
  PROVE  [x \in Challenges |-> IF x \in X THEN d.lists[x] + 1 ELSE d.lists[x]]
            \in [Challenges -> Nat]
BY DocumentFields

(* A call that has a copy has a job, and both have their types.             *)
LEMMA CopyTypes ==
  ASSUME TypeOK, CallInv, NEW c \in Calls, stage[c] \notin WithoutCopy
  PROVE  /\ copy[c] \in Documents /\ copy[c] # None
         /\ job[c] \in Jobs /\ job[c].track \in Tracks
         /\ job[c].challenges \in SUBSET Challenges
         /\ catalog[job[c].track] \in Documents
         /\ copy[c].lists \in [Challenges -> Nat] /\ copy[c].total \in Nat
<1>1. stage[c] # "idle" /\ copy[c] # None
  BY DEF CallInv, WithoutCopy
<1>2. job[c] \in Jobs /\ copy[c] \in Documents
  BY <1>1 DEF TypeOK, CallInv
<1> QED BY <1>1, <1>2, DocumentFields DEF TypeOK, Jobs

LEMMA JobTypes ==
  ASSUME TypeOK, CallInv, NEW c \in Calls, stage[c] # "idle"
  PROVE  job[c] \in Jobs /\ job[c].track \in Tracks /\ job[c].challenges \in SUBSET Challenges
BY DEF CallInv, Jobs

LEMMA SameDocuments ==
  ASSUME TypeOK, UNCHANGED documents
  PROVE  DocumentsGrow
BY DEF TypeOK, documents, DocumentsGrow, TracksGrow

LEMMA SavedDocuments ==
  ASSUME TypeOK, UNCHANGED <<slot, created, enrolled>>,
         catalog' \in [Tracks -> Documents], loose' \in [Tracks -> SUBSET Challenges],
         TracksGrow, given \subseteq given', given' \subseteq Tracks \X Challenges
  PROVE  DocumentsGrow
BY DEF TypeOK, DocumentsGrow

LEMMA BeginRegular ==
  ASSUME TypeOK, CallInv, NEW c \in Calls, NEW t \in Tracks, NEW X \in SUBSET Challenges,
         NEW next \in Stages \ {"idle", "counting", "filling"},
         NEW read, \/ next = "creating" /\ X = {} /\ read = None
                   \/ next \notin WithoutCopy /\ read = catalog[t],
         Begin(c, About(t, X), next, read)
  PROVE  Regular
<1>1. About(t, X) \in Jobs /\ About(t, X).track = t /\ About(t, X).challenges = X
  BY DEF About, Jobs
<1>2. read \in Documents \cup {None} /\ (read = None <=> next = "creating")
  BY NoDocument DEF TypeOK, WithoutCopy
<1>3. /\ stage[c] = "idle" /\ stage'[c] = next /\ job'[c] = About(t, X) /\ copy'[c] = read
      /\ \A d \in Calls \ {c} : stage'[d] = stage[d] /\ job'[d] = job[d] /\ copy'[d] = copy[d]
      /\ UNCHANGED documents
      /\ raced' = raced \cup {x \in X : Edited(x)}
      /\ stage' \in [Calls -> Stages]
      /\ job' \in [Calls -> Jobs \cup {None}]
      /\ copy' \in [Calls -> Documents \cup {None}]
  BY <1>1, <1>2, BeginEffect
<1>4. TypeOK'
  <2>1. raced' \subseteq Challenges
    BY <1>3 DEF TypeOK
  <2>2. ASSUME NEW e \in Editors, stage'[e] \in {"creating", "filling"}
        PROVE  job'[e].challenges \subseteq created'
    <3>1. e \in Calls
      BY DEF Calls
    <3>2. CASE e = c
      BY <1>1, <1>2, <1>3, <2>2, <3>2 DEF WithoutCopy
    <3>3. CASE e # c
      BY <1>3, <2>2, <3>1, <3>3 DEF TypeOK, documents
    <3> QED BY <3>2, <3>3
  <2> QED BY <1>3, <2>1, <2>2 DEF TypeOK, documents
<1>5. CallInv'
  BY <1>1, <1>2, <1>3 DEF CallInv, WithoutCopy
<1>6. CopiesRead
  <2> SUFFICES ASSUME NEW d \in Calls, copy'[d] # None
               PROVE  \/ copy'[d] = copy[d] /\ job'[d].track = job[d].track
                      \/ /\ catalog' = catalog /\ copy'[d] = catalog[job'[d].track]
                         /\ stage'[d] # "counting"
    BY DEF CopiesRead
  <2>1. CASE d # c
    BY <2>1, <1>3
  <2>2. CASE d = c
    BY <2>2, <1>1, <1>2, <1>3 DEF documents
  <2> QED BY <2>1, <2>2
<1> QED BY <1>3, <1>4, <1>5, <1>6, SameDocuments DEF Regular

(* A call that goes on with its copy, or without one, or is over.           *)
LEMMA GoToRegular ==
  ASSUME TypeOK, CallInv, NEW c \in Calls,
         NEW next \in Stages \ {"idle", "creating", "filling"},
         stage[c] # "idle", stage[c] \in WithoutCopy <=> next \in WithoutCopy,
         GoTo(c, next), DocumentsGrow
  PROVE  Regular
<1>1. /\ stage'[c] = next /\ job' = job /\ copy' = copy /\ raced' = raced
      /\ \A d \in Calls \ {c} : stage'[d] = stage[d]
      /\ stage' \in [Calls -> Stages]
  BY GoToEffect
<1>2. TypeOK'
  BY <1>1 DEF TypeOK, DocumentsGrow, Calls
<1>3. CallInv'
  BY <1>1 DEF CallInv
<1>4. CopiesRead
  BY <1>1 DEF CopiesRead
<1> QED BY <1>2, <1>3, <1>4 DEF Regular

LEMMA FinishRegular ==
  ASSUME TypeOK, CallInv, NEW c \in Calls, Finish(c), DocumentsGrow
  PROVE  Regular
<1>1. /\ stage'[c] = "idle" /\ copy'[c] = None /\ raced' = raced
      /\ \A d \in Calls \ {c} : stage'[d] = stage[d] /\ job'[d] = job[d] /\ copy'[d] = copy[d]
      /\ stage' \in [Calls -> Stages]
      /\ job' \in [Calls -> Jobs \cup {None}]
      /\ copy' \in [Calls -> Documents \cup {None}]
  BY FinishEffect
<1>2. TypeOK'
  BY <1>1 DEF TypeOK, DocumentsGrow, Calls
<1>3. CallInv'
  BY <1>1 DEF CallInv, WithoutCopy
<1>4. CopiesRead
  BY <1>1 DEF CopiesRead
<1> QED BY <1>2, <1>3, <1>4 DEF Regular

LEMMA StageNames ==
  /\ {"adding", "validating", "saving", "removing", "filling", "archiving", "checking",
      "enrolling", "counting"} \cap WithoutCopy = {}
  /\ {"adding", "validating", "saving", "removing", "archiving", "checking", "enrolling",
      "counting", "looking", "releasing", "creating", "filling", "idle"} = Stages
BY DEF WithoutCopy, Stages

-----------------------------------------------------------------------------
(* Each action is regular. *)

LEMMA StartsRegular ==
  ASSUME TypeOK, CallInv, NEW c \in Calls,
         StartAdd(c) \/ StartRemove(c) \/ StartBulk(c) \/ StartArchive(c) \/ StartEnroll(c)
  PROVE  Regular
<1>1. CASE StartAdd(c)
  <2>1. PICK t \in Tracks, x \in created : Begin(c, About(t, {x}), "adding", catalog[t])
    BY <1>1 DEF StartAdd
  <2>2. {x} \in SUBSET Challenges
    BY DEF TypeOK
  <2> QED BY <2>1, <2>2, StageNames, BeginRegular
<1>2. CASE StartRemove(c)
  <2>1. PICK t \in Tracks, x \in Challenges :
           Begin(c, About(t, {x}), "removing", catalog[t])
    BY <1>2 DEF StartRemove
  <2>2. {x} \in SUBSET Challenges
    OBVIOUS
  <2> QED BY <2>1, <2>2, StageNames, BeginRegular
<1>3. CASE StartBulk(c)
  <2>1. PICK t \in Tracks : Begin(c, About(t, {}), "creating", None)
    BY <1>3 DEF StartBulk
  <2> QED BY <2>1, StageNames, BeginRegular
<1>4. CASE StartEnroll(c)
  <2>1. PICK t \in Tracks : Begin(c, About(t, {}), "checking", catalog[t])
    BY <1>4 DEF StartEnroll
  <2> QED BY <2>1, StageNames, BeginRegular
<1>5. CASE StartArchive(c)
  <2>1. PICK t \in Tracks : Begin(c, About(t, {}), "archiving", catalog[t])
    BY <1>5 DEF StartArchive
  <2> QED BY <2>1, StageNames, BeginRegular
<1> QED BY <1>1, <1>2, <1>3, <1>4, <1>5

LEMMA AdditionsRegular ==
  ASSUME TypeOK, CallInv, NEW c \in Calls, CheckSlot(c) \/ Claim(c) \/ SaveAddition(c)
  PROVE  Regular
<1>1. CASE CheckSlot(c)
  BY <1>1, StageNames, GoToRegular, SameDocuments DEF CheckSlot
<1>2. CASE Claim(c)
  <2>1. /\ stage[c] = "validating" /\ GoTo(c, "saving")
        /\ UNCHANGED <<catalog, created, given, loose, enrolled>>
    BY <1>2 DEF Claim
  <2>2. job[c].track \in Tracks
    BY <2>1, JobTypes
  <2>3. slot' \in [Challenges -> Tracks \cup {None}]
    BY <1>2, <2>2 DEF Claim, TypeOK
  <2>4. DocumentsGrow
    BY <2>1, <2>3 DEF TypeOK, DocumentsGrow, TracksGrow
  <2> QED BY <2>1, <2>4, StageNames, GoToRegular
<1>3. CASE SaveAddition(c)
  <2>1. /\ stage[c] = "saving" /\ Finish(c)
        /\ SaveTrack(job[c].track, copy[c], With(copy[c], job[c].challenges), copy[c].total)
        /\ UNCHANGED <<slot, created, given, enrolled>>
    BY <1>3 DEF SaveAddition
  <2>2. /\ copy[c] \in Documents /\ job[c].track \in Tracks
        /\ job[c].challenges \in SUBSET Challenges /\ copy[c].total \in Nat
    BY <2>1, StageNames, CopyTypes
  <2>3. With(copy[c], job[c].challenges) \in [Challenges -> Nat]
    BY <2>2, ListEdits
  <2>4. DocumentsGrow
    BY <2>1, <2>2, <2>3, SaveTrackEffect, SavedDocuments DEF TypeOK
  <2> QED BY <2>1, <2>4, FinishRegular
<1> QED BY <1>1, <1>2, <1>3

(* A removal or archival writes the list that was read, without some        *)
(* challenges, or nothing.                                                  *)
LEMMA RemovalCatalog ==
  ASSUME TypeOK, CallInv, NEW c \in Calls, SaveRemoval(c)
  PROVE  /\ stage[c] = "removing"
         /\ DocumentsGrow
         /\ \/ catalog' = catalog /\ loose' = loose /\ IsEmpty(copy[c])
            \/ SaveTrack(job[c].track, copy[c], Without(copy[c], job[c].challenges),
                         copy[c].total)
<1>1. /\ stage[c] = "removing" /\ UNCHANGED <<slot, created, given, enrolled>>
      /\ \/ catalog' = catalog /\ loose' = loose /\ IsEmpty(copy[c])
         \/ SaveTrack(job[c].track, copy[c], Without(copy[c], job[c].challenges),
                      copy[c].total)
  BY DEF SaveRemoval, WriteNothing
<1>2. CASE catalog' = catalog /\ loose' = loose
  BY <1>1, <1>2, SameDocuments DEF documents
<1>3. CASE SaveTrack(job[c].track, copy[c], Without(copy[c], job[c].challenges),
                     copy[c].total)
  <2>1. /\ copy[c] \in Documents /\ job[c].track \in Tracks
        /\ job[c].challenges \in SUBSET Challenges /\ copy[c].total \in Nat
    BY <1>1, StageNames, CopyTypes
  <2>2. Without(copy[c], job[c].challenges) \in [Challenges -> Nat]
    BY <2>1, ListEdits
  <2> QED BY <1>1, <1>3, <2>1, <2>2, SaveTrackEffect, SavedDocuments DEF TypeOK
<1> QED BY <1>1, <1>2, <1>3

LEMMA RemovalsRegular ==
  ASSUME TypeOK, CallInv, NEW c \in Calls,
         SaveRemoval(c) \/ LookAtSlot(c) \/ ReleaseSlot(c) \/ SaveArchived(c)
  PROVE  Regular
<1>1. CASE SaveRemoval(c)
  <2>1. stage[c] = "removing" /\ DocumentsGrow /\ job[c] \in Jobs
    BY <1>1, RemovalCatalog, StageNames, CopyTypes
  <2>2. CASE Finish(c)
    BY <2>1, <2>2, FinishRegular
  <2>3. CASE /\ stage' = [stage EXCEPT ![c] = "looking"]
             /\ copy' = [copy EXCEPT ![c] = None] /\ UNCHANGED <<job, raced>>
    <3>1. /\ stage'[c] = "looking" /\ copy'[c] = None
          /\ \A d \in Calls \ {c} : stage'[d] = stage[d] /\ copy'[d] = copy[d]
          /\ stage' \in [Calls -> Stages] /\ copy' \in [Calls -> Documents \cup {None}]
      BY <2>3, StageNames DEF TypeOK
    <3>2. TypeOK'
      BY <2>1, <2>3, <3>1 DEF TypeOK, DocumentsGrow, Calls
    <3>3. CallInv'
      BY <2>1, <2>3, <3>1 DEF CallInv, WithoutCopy
    <3>4. CopiesRead
      BY <2>3, <3>1 DEF CopiesRead
    <3> QED BY <2>1, <3>2, <3>3, <3>4 DEF Regular
  <2> QED BY <1>1, <2>2, <2>3 DEF SaveRemoval
<1>2. CASE LookAtSlot(c)
  <2>1. stage[c] = "looking" /\ DocumentsGrow /\ (GoTo(c, "releasing") \/ Finish(c))
    BY <1>2, SameDocuments DEF LookAtSlot
  <2>2. CASE GoTo(c, "releasing")
    <3>1. stage[c] \in WithoutCopy /\ "releasing" \in WithoutCopy
      BY <2>1 DEF WithoutCopy
    <3> QED BY <2>1, <2>2, <3>1, StageNames, GoToRegular
  <2>3. CASE Finish(c)
    BY <2>1, <2>3, FinishRegular
  <2> QED BY <2>1, <2>2, <2>3
<1>3. CASE ReleaseSlot(c)
  <2>1. Finish(c) /\ UNCHANGED <<catalog, created, given, loose, enrolled>>
    BY <1>3 DEF ReleaseSlot
  <2>2. slot' \in [Challenges -> Tracks \cup {None}]
    BY <1>3 DEF ReleaseSlot, TypeOK
  <2>3. DocumentsGrow
    BY <2>1, <2>2 DEF TypeOK, DocumentsGrow, TracksGrow
  <2> QED BY <2>1, <2>3, FinishRegular
<1>4. CASE SaveArchived(c)
  <2>1. /\ stage[c] = "archiving" /\ Finish(c)
        /\ UNCHANGED <<slot, created, given, enrolled>>
        /\ \/ catalog' = catalog /\ loose' = loose
           \/ SaveTrack(job[c].track, copy[c], copy[c].lists, copy[c].total)
    BY <1>4 DEF SaveArchived, WriteNothing
  <2>2. /\ job[c].track \in Tracks /\ copy[c].lists \in [Challenges -> Nat]
        /\ copy[c].total \in Nat
    BY <2>1, StageNames, CopyTypes
  <2>3. CASE catalog' = catalog /\ loose' = loose
    BY <2>1, <2>3, SameDocuments, FinishRegular DEF documents
  <2>4. CASE SaveTrack(job[c].track, copy[c], copy[c].lists, copy[c].total)
    <3>1. DocumentsGrow
      BY <2>1, <2>2, <2>4, SaveTrackEffect, SavedDocuments DEF TypeOK
    <3> QED BY <2>1, <3>1, FinishRegular
  <2> QED BY <2>1, <2>3, <2>4
<1> QED BY <1>1, <1>2, <1>3, <1>4

LEMMA BulkRegular ==
  ASSUME TypeOK, CallInv, NEW c \in Editors, CreateOne(c) \/ ReadToFill(c) \/ SaveBulk(c)
  PROVE  Regular
<1>0. c \in Calls
  BY DEF Calls
<1>1. CASE CreateOne(c)
  <2>1. PICK x \in Challenges \ created :
           /\ created' = created \cup {x}
           /\ job' = [job EXCEPT ![c].challenges = @ \cup {x}]
    BY <1>1 DEF CreateOne
  <2>2. /\ stage[c] = "creating"
        /\ UNCHANGED <<catalog, slot, given, loose, raced, enrolled, stage, copy>>
    BY <1>1 DEF CreateOne
  <2>3. job[c] \in Jobs /\ job[c].challenges \subseteq created
    BY <1>0, <2>2, JobTypes DEF TypeOK
  <2>4. /\ job'[c] = [job[c] EXCEPT !.challenges = @ \cup {x}]
        /\ \A d \in Calls \ {c} : job'[d] = job[d]
    BY <1>0, <2>1 DEF TypeOK
  <2>5. /\ job'[c] \in Jobs /\ job'[c].track = job[c].track
        /\ job'[c].challenges = job[c].challenges \cup {x}
    BY <2>1, <2>3, <2>4 DEF Jobs
  <2>6. job' \in [Calls -> Jobs \cup {None}]
    BY <1>0, <2>1, <2>4, <2>5 DEF TypeOK
  <2>7. TypeOK'
    BY <2>1, <2>2, <2>3, <2>4, <2>5, <2>6 DEF TypeOK, Calls
  <2>8. CallInv'
    BY <2>1, <2>2, <2>3, <2>4, <2>5 DEF CallInv
  <2>9. CopiesRead
    BY <2>2, <2>4, <2>5 DEF CopiesRead
  <2>10. DocumentsGrow
    BY <2>1, <2>2 DEF TypeOK, DocumentsGrow, TracksGrow
  <2> QED BY <2>7, <2>8, <2>9, <2>10 DEF Regular
<1>2. CASE ReadToFill(c)
  <2>1. /\ stage[c] = "creating" /\ UNCHANGED <<documents, raced, job>>
        /\ copy' = [copy EXCEPT ![c] = catalog[job[c].track]]
        /\ stage' = [stage EXCEPT ![c] = "filling"]
    BY <1>2 DEF ReadToFill
  <2>2. job[c] \in Jobs /\ job[c].track \in Tracks /\ job[c].challenges \subseteq created
    BY <1>0, <2>1, JobTypes DEF TypeOK
  <2>3. catalog[job[c].track] \in Documents /\ catalog[job[c].track] # None
    BY <2>2, NoDocument DEF TypeOK
  <2>4. /\ stage'[c] = "filling" /\ copy'[c] = catalog[job[c].track]
        /\ \A d \in Calls \ {c} : stage'[d] = stage[d] /\ copy'[d] = copy[d]
        /\ stage' \in [Calls -> Stages] /\ copy' \in [Calls -> Documents \cup {None}]
    BY <1>0, <2>1, <2>3, StageNames DEF TypeOK
  <2>5. TypeOK'
    BY <2>1, <2>2, <2>4 DEF TypeOK, documents, Calls
  <2>6. CallInv'
    BY <2>1, <2>2, <2>3, <2>4 DEF CallInv, WithoutCopy
  <2>7. CopiesRead
    BY <2>1, <2>4 DEF CopiesRead, documents
  <2> QED BY <2>1, <2>5, <2>6, <2>7, SameDocuments DEF Regular
<1>3. CASE SaveBulk(c)
  <2> DEFINE lists == [x \in Challenges |-> IF x \in job[c].challenges
                                            THEN copy[c].lists[x] + 1
                                            ELSE copy[c].lists[x]]
  <2>1. /\ stage[c] = "filling" /\ Finish(c)
        /\ SaveTrack(job[c].track, copy[c], lists, copy[c].total)
        /\ given' = given \cup {<<job[c].track, x>> : x \in job[c].challenges}
        /\ UNCHANGED <<slot, created, enrolled>>
    BY <1>3 DEF SaveBulk
  <2>2. /\ copy[c] \in Documents /\ job[c].track \in Tracks
        /\ job[c].challenges \in SUBSET Challenges /\ copy[c].total \in Nat
    BY <1>0, <2>1, StageNames, CopyTypes
  <2>3. lists \in [Challenges -> Nat]
    BY <2>2, FilledList
  <2> HIDE DEF lists
  <2>4. given \subseteq given' /\ given' \subseteq Tracks \X Challenges
    BY <2>1, <2>2 DEF TypeOK
  <2>5. DocumentsGrow
    BY <2>1, <2>2, <2>3, <2>4, SaveTrackEffect, SavedDocuments
  <2> QED BY <1>0, <2>1, <2>5, FinishRegular
<1> QED BY <1>1, <1>2, <1>3

(* What updateTrack writes.                                                  *)
LEMMA UpdateEffect ==
  ASSUME TypeOK, NEW e \in Editors, UpdateTrack(e)
  PROVE  /\ DocumentsGrow
         /\ UNCHANGED <<slot, created, raced, enrolled, stage, job, copy>>
         /\ \A t \in Tracks :
               /\ catalog'[t].version = catalog[t].version
               /\ catalog'[t].total = catalog[t].total
               /\ \A x \in Challenges :
                     /\ catalog'[t].lists[x] # catalog[t].lists[x] => x \in loose'[t]
                     /\ <<t, x>> \notin given' =>
                           \/ catalog'[t].lists[x] = catalog[t].lists[x]
                           \/ catalog'[t].lists[x] = 0
<1>1. PICK t \in Tracks, l \in Given :
         /\ catalog' = [catalog EXCEPT ![t].lists = l]
         /\ given' = given \cup Naming(t, l)
         /\ loose' = [loose EXCEPT ![t] =
                         @ \cup {x \in Challenges : l[x] # catalog[t].lists[x]}]
         /\ UNCHANGED <<slot, created, raced, enrolled, stage, job, copy>>
  BY DEF UpdateTrack
<1>2. l \in [Challenges -> Nat] /\ catalog[t] \in Documents
  BY CatalogAssumption DEF TypeOK
<1>3. catalog'[t] = [catalog[t] EXCEPT !.lists = l] /\ \A u \in Tracks \ {t} : catalog'[u] = catalog[u]
  BY <1>1 DEF TypeOK
<1>4. /\ catalog'[t] \in Documents /\ catalog'[t].lists = l
      /\ catalog'[t].version = catalog[t].version /\ catalog'[t].total = catalog[t].total
  BY <1>2, <1>3 DEF Documents
<1>5. catalog' \in [Tracks -> Documents]
  BY <1>1, <1>3, <1>4 DEF TypeOK
<1>6. /\ loose'[t] = loose[t] \cup {x \in Challenges : l[x] # catalog[t].lists[x]}
      /\ \A u \in Tracks \ {t} : loose'[u] = loose[u]
      /\ loose' \in [Tracks -> SUBSET Challenges]
  BY <1>1 DEF TypeOK
<1>7. /\ given \subseteq given' /\ given' \subseteq Tracks \X Challenges
      /\ \A x \in Challenges : l[x] > 0 => <<t, x>> \in given'
  BY <1>1 DEF Naming, TypeOK
<1>8. TracksGrow
  <2> SUFFICES ASSUME NEW u \in Tracks
               PROVE  /\ catalog'[u].version = catalog[u].version
                      /\ loose[u] \subseteq loose'[u]
                      /\ \A x \in Challenges \ loose'[u] :
                            catalog'[u].lists[x] = catalog[u].lists[x]
    BY DEF TracksGrow
  <2>1. CASE u = t
    BY <2>1, <1>4, <1>6
  <2>2. CASE u # t
    BY <2>2, <1>3, <1>6
  <2> QED BY <2>1, <2>2
<1>9. \A x \in Challenges : <<t, x>> \notin given' => l[x] = 0
  BY <1>2, <1>7
<1> QED BY <1>1, <1>3, <1>4, <1>5, <1>6, <1>7, <1>8, <1>9, SavedDocuments

LEMMA UpdateRegular ==
  ASSUME TypeOK, CallInv, NEW e \in Editors, UpdateTrack(e)
  PROVE  Regular
<1>1. DocumentsGrow /\ UNCHANGED <<slot, created, raced, enrolled, stage, job, copy>>
  BY UpdateEffect
<1>2. TypeOK' /\ CallInv' /\ CopiesRead
  BY <1>1 DEF TypeOK, DocumentsGrow, CallInv, CopiesRead
<1> QED BY <1>1, <1>2 DEF Regular

(* Counting an enrolment writes the list that was read, or none.            *)
LEMMA CountCatalog ==
  ASSUME TypeOK, CallInv, NEW c \in Enrollers, CountEnrollment(c)
  PROVE  LET t == job[c].track
         IN  /\ t \in Tracks /\ copy[c] \in Documents /\ stage[c] = "counting"
             /\ TracksGrow /\ catalog' \in [Tracks -> Documents]
             /\ loose' \in [Tracks -> SUBSET Challenges]
             /\ \A u \in Tracks \ {t} : catalog'[u] = catalog[u]
             /\ catalog'[t].total \in {catalog[t].total, copy[c].total + 1}
             /\ \/ /\ catalog'[t].lists = catalog[t].lists
                   /\ catalog'[t].version = catalog[t].version
                \/ /\ catalog[t].version = copy[c].version
                   /\ catalog'[t].lists = copy[c].lists
                   /\ catalog'[t].version = catalog[t].version + 1
<1> DEFINE t == job[c].track
<1>1. stage[c] = "counting" /\ c \in Calls
  BY DEF CountEnrollment, Calls
<1>2. copy[c] \in Documents /\ t \in Tracks /\ catalog[t] \in Documents
  BY <1>1, StageNames, CopyTypes
<1>3. copy[c].lists \in [Challenges -> Nat] /\ copy[c].total + 1 \in Nat
  BY <1>2, DocumentFields
<1>4. CASE catalog' = [catalog EXCEPT ![t].total = copy[c].total + 1] /\ loose' = loose
  <2>1. catalog'[t] = [catalog[t] EXCEPT !.total = copy[c].total + 1]
    BY <1>2, <1>4 DEF TypeOK
  <2>2. /\ catalog'[t] \in Documents /\ catalog'[t].lists = catalog[t].lists
        /\ catalog'[t].version = catalog[t].version
        /\ catalog'[t].total = copy[c].total + 1
    BY <1>2, <1>3, <2>1 DEF Documents
  <2>3. \A u \in Tracks \ {t} : catalog'[u] = catalog[u]
    BY <1>4 DEF TypeOK
  <2>4. catalog' \in [Tracks -> Documents] /\ loose' \in [Tracks -> SUBSET Challenges]
    BY <1>2, <1>4, <2>1, <2>2 DEF TypeOK
  <2>5. TracksGrow
    BY <1>2, <1>4, <2>2, <2>3 DEF TracksGrow
  <2> QED BY <1>1, <1>2, <2>2, <2>3, <2>4, <2>5
<1>5. CASE SaveTrack(t, copy[c], copy[c].lists, copy[c].total + 1)
  BY <1>1, <1>2, <1>3, <1>5, SaveTrackEffect
<1> QED BY <1>4, <1>5 DEF CountEnrollment

LEMMA EnrolmentsRegular ==
  ASSUME TypeOK, CallInv, NEW c \in Enrollers,
         CheckEnrolled(c) \/ InsertEnrollment(c) \/ CountEnrollment(c)
  PROVE  Regular
<1>0. c \in Calls /\ StudentOf[c] \in Students
  BY CatalogAssumption DEF Calls
<1>1. CASE CheckEnrolled(c)
  <2>1. stage[c] = "checking" /\ DocumentsGrow /\ (GoTo(c, "enrolling") \/ Finish(c))
    BY <1>1, SameDocuments DEF CheckEnrolled
  <2> QED BY <1>0, <2>1, StageNames, GoToRegular, FinishRegular
<1>2. CASE InsertEnrollment(c)
  <2>1. /\ stage[c] = "enrolling" /\ GoTo(c, "counting")
        /\ enrolled' = enrolled \cup {Pair(c)}
        /\ UNCHANGED <<catalog, slot, created, given, loose>>
    BY <1>2 DEF InsertEnrollment
  <2>2. job[c].track \in Tracks
    BY <1>0, <2>1, JobTypes
  <2>3. enrolled' \subseteq Students \X Tracks
    BY <1>0, <2>1, <2>2 DEF Pair, TypeOK
  <2>4. DocumentsGrow
    BY <2>1, <2>3 DEF TypeOK, DocumentsGrow, TracksGrow
  <2> QED BY <1>0, <2>1, <2>4, StageNames, GoToRegular
<1>3. CASE CountEnrollment(c)
  <2>1. Finish(c) /\ UNCHANGED <<slot, created, given, enrolled>>
    BY <1>3 DEF CountEnrollment
  <2>2. DocumentsGrow
    BY <1>3, <2>1, CountCatalog, SavedDocuments DEF TypeOK
  <2> QED BY <1>0, <2>1, <2>2, FinishRegular
<1> QED BY <1>1, <1>2, <1>3

LEMMA StepRegular ==
  ASSUME TypeOK, CallInv, [Next]_vars
  PROVE  Regular
<1>1. ASSUME NEW e \in Editors,
             \/ StartAdd(e) \/ CheckSlot(e) \/ Claim(e) \/ SaveAddition(e)
             \/ StartRemove(e) \/ SaveRemoval(e) \/ LookAtSlot(e) \/ ReleaseSlot(e)
             \/ StartBulk(e) \/ CreateOne(e) \/ ReadToFill(e) \/ SaveBulk(e)
             \/ UpdateTrack(e) \/ StartArchive(e) \/ SaveArchived(e)
      PROVE  Regular
  <2>1. e \in Calls
    BY DEF Calls
  <2> QED BY <1>1, <2>1, StartsRegular, AdditionsRegular, RemovalsRegular, BulkRegular,
             UpdateRegular
<1>2. ASSUME NEW c \in Enrollers,
             StartEnroll(c) \/ CheckEnrolled(c) \/ InsertEnrollment(c) \/ CountEnrollment(c)
      PROVE  Regular
  <2>1. c \in Calls
    BY DEF Calls
  <2> QED BY <1>2, <2>1, StartsRegular, EnrolmentsRegular
<1>3. ASSUME NEW c \in Calls, Abandon(c) PROVE Regular
  BY <1>3, FinishRegular, SameDocuments DEF Abandon
<1>4. CASE UNCHANGED vars
  <2>1. TypeOK' /\ CallInv' /\ CopiesRead
    BY <1>4 DEF vars, TypeOK, CallInv, CopiesRead
  <2> QED BY <1>4, <2>1, SameDocuments DEF vars, documents, Regular
<1> QED BY <1>1, <1>2, <1>3, <1>4 DEF Next

LEMMA InitRegular == Init => TypeOK /\ CallInv
<1> SUFFICES ASSUME Init PROVE TypeOK /\ CallInv
  OBVIOUS
<1>1. PICK first \in [Tracks -> Given] :
         /\ catalog = [t \in Tracks |-> NewTrack(first[t])]
         /\ given = UNION {Naming(t, first[t]) : t \in Tracks}
  BY DEF Init
<1>2. \A t \in Tracks : NewTrack(first[t]) \in Documents
  BY CatalogAssumption DEF NewTrack, Documents
<1>3. given \subseteq Tracks \X Challenges
  BY <1>1 DEF Naming
<1>4. TypeOK
  BY <1>1, <1>2, <1>3, CatalogAssumption, StageNames DEF Init, TypeOK, Calls
<1> QED BY <1>4 DEF Init, CallInv, WithoutCopy

LEMMA Registered == Spec => [](TypeOK /\ CallInv)
<1>1. TypeOK /\ CallInv /\ [Next]_vars => (TypeOK /\ CallInv)'
  BY StepRegular DEF Regular
<1> QED BY <1>1, InitRegular, PTL DEF Spec

(* Documents, slots and calls stay within their types, and what a bulk adds  *)
(* to a track exists, whatever is done to the catalog.                      *)
THEOREM CatalogTypes == Spec => []TypeOK
BY Registered, PTL

-----------------------------------------------------------------------------
(* What a track lists and counts, and what the copies of it say. *)

LEMMA EnrolmentsGrow ==
  ASSUME NEW t \in Tracks, enrolled \subseteq enrolled'
  PROVE  /\ Enrolments(t) \in Nat /\ Enrolments(t)' \in Nat
         /\ Enrolments(t) <= Enrolments(t)'
<1>1. EnrolledIn(t) \subseteq EnrolledIn(t)' /\ EnrolledIn(t)' \subseteq Students
  BY DEF EnrolledIn
<1>2. IsFiniteSet(EnrolledIn(t)') /\ IsFiniteSet(EnrolledIn(t))
  BY <1>1, CatalogAssumption, FS_Subset
<1>3. /\ Cardinality(EnrolledIn(t)) \in Nat /\ Cardinality(EnrolledIn(t)') \in Nat
      /\ Cardinality(EnrolledIn(t)) <= Cardinality(EnrolledIn(t)')
  BY <1>1, <1>2, FS_Subset, FS_CardinalityType
<1> QED BY <1>3 DEF Enrolments

(* Inserting an enrolment adds one student to those of the track.           *)
LEMMA InsertionCounts ==
  ASSUME TypeOK, CallInv, NEW c \in Enrollers, InsertEnrollment(c)
  PROVE  Enrolments(job[c].track)' >= Enrolments(job[c].track) + 1
<1> DEFINE t == job[c].track
           u == StudentOf[c]
<1>1. c \in Calls /\ u \in Students
  BY CatalogAssumption DEF Calls
<1>2. t \in Tracks /\ <<u, t>> \notin enrolled /\ enrolled' = enrolled \cup {<<u, t>>}
  BY <1>1, JobTypes DEF InsertEnrollment, Pair
<1>3. job'[c].track = t
  BY DEF InsertEnrollment, GoTo
<1> DEFINE old == EnrolledIn(t)
           new == {v \in Students : <<v, t>> \in enrolled'}
<1>4. new = old \cup {u} /\ u \notin old /\ old \subseteq Students
  BY <1>1, <1>2 DEF EnrolledIn
<1>5. IsFiniteSet(old)
  BY <1>4, CatalogAssumption, FS_Subset
<1>6. Cardinality(new) = Cardinality(old) + 1 /\ Cardinality(old) \in Nat
  BY <1>4, <1>5, FS_AddElement, FS_CardinalityType
<1>7. Enrolments(job[c].track)' = Cardinality(new)
  BY <1>3 DEF Enrolments, EnrolledIn
<1>8. Enrolments(job[c].track) = Cardinality(old)
  BY DEF Enrolments
<1> QED BY <1>6, <1>7, <1>8

(* A call comes to count only by inserting its enrolment.                   *)
LEMMA CountingBegins ==
  ASSUME TypeOK, [Next]_vars, NEW c \in Calls, stage'[c] = "counting"
  PROVE  stage[c] = "counting" \/ (c \in Enrollers /\ InsertEnrollment(c))
<1>1. ASSUME NEW e \in Editors,
             \/ StartAdd(e) \/ CheckSlot(e) \/ Claim(e) \/ SaveAddition(e)
             \/ StartRemove(e) \/ SaveRemoval(e) \/ UpdateTrack(e)
      PROVE  stage[c] = "counting"
  BY <1>1 DEF TypeOK, StartAdd, CheckSlot, Claim, SaveAddition, StartRemove, SaveRemoval,
     UpdateTrack, Begin, GoTo, Finish
<1>2. ASSUME NEW e \in Editors,
             \/ LookAtSlot(e) \/ ReleaseSlot(e) \/ StartArchive(e) \/ SaveArchived(e)
             \/ StartBulk(e) \/ CreateOne(e) \/ ReadToFill(e) \/ SaveBulk(e)
      PROVE  stage[c] = "counting"
  BY <1>2 DEF TypeOK, LookAtSlot, ReleaseSlot, StartBulk, CreateOne, ReadToFill, SaveBulk,
     StartArchive, SaveArchived, Begin, GoTo, Finish
<1>3. ASSUME NEW d \in Enrollers,
             StartEnroll(d) \/ CheckEnrolled(d) \/ CountEnrollment(d)
      PROVE  stage[c] = "counting"
  BY <1>3 DEF TypeOK, StartEnroll, CheckEnrolled, CountEnrollment, Begin, GoTo, Finish
<1>4. ASSUME NEW d \in Enrollers, InsertEnrollment(d), d # c
      PROVE  stage[c] = "counting"
  BY <1>4 DEF TypeOK, InsertEnrollment, GoTo
<1>5. ASSUME NEW d \in Calls, Abandon(d) PROVE stage[c] = "counting"
  BY <1>5 DEF TypeOK, Abandon, Finish
<1> QED BY <1>1, <1>2, <1>3, <1>4, <1>5 DEF Next, vars

LEMMA CopyStep ==
  ASSUME CatalogInv, [Next]_vars
  PROVE  CopyInv'
<1>1. TypeOK /\ CallInv /\ CopyInv /\ CatalogSound /\ Regular
  BY StepRegular DEF CatalogInv
<1> SUFFICES ASSUME NEW c \in Calls, NEW t \in Tracks, copy'[c] # None, job'[c].track = t
             PROVE  /\ copy'[c].version <= catalog'[t].version
                    /\ copy'[c].version = catalog'[t].version =>
                          \A x \in Challenges \ loose'[t] :
                             copy'[c].lists[x] = catalog'[t].lists[x]
                    /\ \A x \in Challenges : <<t, x>> \notin given' => copy'[c].lists[x] <= 1
                    /\ copy'[c].total <= Enrolments(t)'
                    /\ stage'[c] = "counting" => copy'[c].total + 1 <= Enrolments(t)'
  BY DEF CopyInv
<1>3. /\ catalog[t] \in Documents /\ catalog'[t] \in Documents /\ copy'[c] \in Documents
      /\ enrolled \subseteq enrolled' /\ given \subseteq given'
  BY <1>1 DEF Regular, TypeOK, DocumentsGrow
<1>4. /\ catalog[t].version \in Nat /\ catalog'[t].version \in Nat
      /\ copy'[c].version \in Nat /\ copy'[c].total \in Nat /\ catalog[t].total \in Nat
  BY <1>3, DocumentFields
<1>5. \/ /\ catalog'[t].version = catalog[t].version
         /\ loose[t] \subseteq loose'[t]
         /\ \A x \in Challenges \ loose'[t] : catalog'[t].lists[x] = catalog[t].lists[x]
      \/ catalog'[t].version = catalog[t].version + 1
  BY <1>1 DEF Regular, DocumentsGrow, TracksGrow
<1>6. Enrolments(t) \in Nat /\ Enrolments(t)' \in Nat /\ Enrolments(t) <= Enrolments(t)'
  BY <1>3, EnrolmentsGrow
<1>7. CASE copy'[c] = copy[c] /\ job[c].track = t
  <2>1. /\ copy'[c].version <= catalog[t].version
        /\ copy'[c].version = catalog[t].version =>
              \A x \in Challenges \ loose[t] : copy'[c].lists[x] = catalog[t].lists[x]
        /\ \A x \in Challenges : <<t, x>> \notin given => copy'[c].lists[x] <= 1
        /\ copy'[c].total <= Enrolments(t)
        /\ stage[c] = "counting" => copy'[c].total + 1 <= Enrolments(t)
    BY <1>1, <1>7 DEF CopyInv
  <2>2. copy'[c].version <= catalog'[t].version /\ copy'[c].total <= Enrolments(t)'
    BY <1>4, <1>5, <1>6, <2>1
  <2>3. ASSUME copy'[c].version = catalog'[t].version, NEW x \in Challenges \ loose'[t]
        PROVE  copy'[c].lists[x] = catalog'[t].lists[x]
    <3>1. /\ catalog'[t].version = catalog[t].version /\ x \notin loose[t]
          /\ catalog'[t].lists[x] = catalog[t].lists[x]
      BY <1>4, <1>5, <2>1, <2>3
    <3> QED BY <2>1, <2>3, <3>1
  <2>4. stage'[c] = "counting" => copy'[c].total + 1 <= Enrolments(t)'
    <3>1. CASE stage[c] = "counting"
      BY <3>1, <2>1, <1>4, <1>6
    <3>2. CASE c \in Enrollers /\ InsertEnrollment(c)
      <4>1. Enrolments(job[c].track)' >= Enrolments(job[c].track) + 1 /\ job' = job
        BY <3>2, <1>1, InsertionCounts DEF InsertEnrollment, GoTo
      <4>2. Enrolments(t)' >= Enrolments(t) + 1
        BY <4>1, <1>7 DEF Enrolments, EnrolledIn
      <4> QED BY <4>2, <2>1, <1>4, <1>6
    <3> QED BY <1>1, <3>1, <3>2, CountingBegins
  <2>5. \A x \in Challenges : <<t, x>> \notin given' => copy'[c].lists[x] <= 1
    BY <1>3, <2>1
  <2> QED BY <2>2, <2>3, <2>4, <2>5
<1>8. CASE catalog' = catalog /\ copy'[c] = catalog[t] /\ stage'[c] # "counting"
  <2>1. /\ catalog[t].total <= Enrolments(t)
        /\ \A x \in Challenges : <<t, x>> \notin given => catalog[t].lists[x] <= 1
    BY <1>1 DEF CatalogSound, Enrolments
  <2>2. copy'[c].total <= Enrolments(t)'
    BY <2>1, <1>4, <1>6, <1>8
  <2>3. \A x \in Challenges : <<t, x>> \notin given' => copy'[c].lists[x] <= 1
    BY <1>3, <1>8, <2>1
  <2> QED BY <1>4, <1>8, <2>2, <2>3
<1> QED BY <1>1, <1>7, <1>8 DEF Regular, CopiesRead

-----------------------------------------------------------------------------
(* Who writes a track, and what.  Either its version stays, and its list but *)
(* for what updateTrack puts into it ...                                    *)
KeepsList(t) ==
    /\ catalog'[t].version = catalog[t].version
    /\ \A x \in Challenges :
          \/ catalog'[t].lists[x] = catalog[t].lists[x]
          \/ x \in loose'[t] /\ (<<t, x>> \notin given' => catalog'[t].lists[x] = 0)

(* ... or a call that has read this version saves the list it has read, but  *)
(* for the challenges it adds or removes.                                   *)
EditsEntry(c, t, x) ==
    /\ c \in Editors /\ x \in job[c].challenges /\ stage'[c] # stage[c]
    /\ \/ stage[c] = "saving" /\ catalog'[t].lists[x] = 1
       \/ stage[c] = "removing" /\ catalog'[t].lists[x] = 0
       \/ stage[c] = "filling" /\ <<t, x>> \in given'

SavesList(c, t) ==
    /\ IsCurrent(c, t)
    /\ catalog'[t].version = catalog[t].version + 1
    /\ slot' = slot
    /\ \A x \in Challenges :
          catalog'[t].lists[x] = copy[c].lists[x] \/ EditsEntry(c, t, x)

CountsSoundly(t) == \/ catalog'[t].total = catalog[t].total
                    \/ catalog'[t].total <= Enrolments(t)

Writes(t) == /\ CountsSoundly(t)
             /\ KeepsList(t) \/ \E c \in Calls : SavesList(c, t)

LEMMA SameWrites ==
  ASSUME NEW t \in Tracks, catalog'[t] = catalog[t]
  PROVE  Writes(t)
BY DEF Writes, KeepsList, CountsSoundly

LEMMA EditorsWrite ==
  ASSUME CatalogInv, NEW e \in Editors,
         SaveAddition(e) \/ SaveRemoval(e) \/ SaveBulk(e) \/ SaveArchived(e),
         NEW t \in Tracks
  PROVE  Writes(t)
<1>0. TypeOK /\ CallInv /\ e \in Calls
  BY DEF CatalogInv, Calls
<1>1. /\ stage[e] \in {"saving", "removing", "filling", "archiving"} /\ slot' = slot
  BY DEF SaveAddition, SaveRemoval, SaveBulk, SaveArchived
<1>2. /\ copy[e] \in Documents /\ copy[e] # None /\ job[e].track \in Tracks
      /\ job[e].challenges \in SUBSET Challenges
      /\ copy[e].lists \in [Challenges -> Nat] /\ copy[e].total \in Nat
  BY <1>0, <1>1, StageNames, CopyTypes
<1> DEFINE X == job[e].challenges
<1>3. stage'[e] # stage[e]
  <2>1. CASE Finish(e)
    BY <1>0, <1>1, <2>1, FinishEffect
  <2>2. CASE stage[e] = "removing" /\ stage' = [stage EXCEPT ![e] = "looking"]
    BY <1>0, <2>2 DEF TypeOK
  <2> QED BY <2>1, <2>2 DEF SaveAddition, SaveRemoval, SaveBulk, SaveArchived
<1>4. ASSUME NEW lists \in [Challenges -> Nat],
             SaveTrack(job[e].track, copy[e], lists, copy[e].total),
             job[e].track = t => \A x \in Challenges :
                \/ lists[x] = copy[e].lists[x]
                \/ x \in X /\ \/ stage[e] = "saving" /\ lists[x] = 1
                              \/ stage[e] = "removing" /\ lists[x] = 0
                              \/ stage[e] = "filling" /\ <<t, x>> \in given'
      PROVE  Writes(t)
  <2>1. CASE job[e].track # t
    BY <1>0, <1>2, <1>4, <2>1, SaveTrackEffect, SameWrites
  <2>2. CASE job[e].track = t
    <3>1. /\ catalog[t].version = copy[e].version /\ catalog'[t].lists = lists
          /\ catalog'[t].version = catalog[t].version + 1
          /\ catalog'[t].total = catalog[t].total
      BY <1>0, <1>2, <1>4, <2>2, SaveTrackEffect
    <3>2. SavesList(e, t)
      BY <1>1, <1>2, <1>3, <1>4, <2>2, <3>1 DEF SavesList, IsCurrent, EditsEntry
    <3> QED BY <1>0, <3>1, <3>2 DEF Writes, CountsSoundly
  <2> QED BY <2>1, <2>2
<1>5. CASE SaveAddition(e)
  <2>1. SaveTrack(job[e].track, copy[e], With(copy[e], X), copy[e].total) /\ stage[e] = "saving"
    BY <1>5 DEF SaveAddition
  <2>2. With(copy[e], X) \in [Challenges -> Nat]
    BY <1>2, ListEdits
  <2>3. \A x \in Challenges : \/ With(copy[e], X)[x] = copy[e].lists[x]
                              \/ x \in X /\ With(copy[e], X)[x] = 1
    BY DEF With
  <2> QED BY <2>1, <2>2, <2>3, <1>4
<1>6. CASE SaveRemoval(e)
  <2>1. stage[e] = "removing" /\ \/ catalog' = catalog
                                 \/ SaveTrack(job[e].track, copy[e], Without(copy[e], X),
                                              copy[e].total)
    BY <1>0, <1>6, RemovalCatalog
  <2>2. Without(copy[e], X) \in [Challenges -> Nat]
    BY <1>2, ListEdits
  <2>3. \A x \in Challenges : \/ Without(copy[e], X)[x] = copy[e].lists[x]
                              \/ x \in X /\ Without(copy[e], X)[x] = 0
    BY DEF Without
  <2>4. CASE catalog' = catalog
    BY <2>4, SameWrites
  <2> QED BY <2>1, <2>2, <2>3, <2>4, <1>4
<1>7. CASE SaveBulk(e)
  <2> DEFINE lists == [x \in Challenges |-> IF x \in X THEN copy[e].lists[x] + 1
                                            ELSE copy[e].lists[x]]
  <2>1. /\ SaveTrack(job[e].track, copy[e], lists, copy[e].total) /\ stage[e] = "filling"
        /\ given' = given \cup {<<job[e].track, x>> : x \in X}
    BY <1>7 DEF SaveBulk
  <2>2. lists \in [Challenges -> Nat]
    BY <1>2, FilledList
  <2>3. \A x \in Challenges : \/ lists[x] = copy[e].lists[x]
                              \/ x \in X /\ <<job[e].track, x>> \in given'
    BY <2>1
  <2> HIDE DEF lists
  <2> QED BY <2>1, <2>2, <2>3, <1>4
<1>8. CASE SaveArchived(e)
  <2>1. catalog' = catalog \/ SaveTrack(job[e].track, copy[e], copy[e].lists, copy[e].total)
    BY <1>8 DEF SaveArchived, WriteNothing
  <2>2. CASE catalog' = catalog
    BY <2>2, SameWrites
  <2> QED BY <1>2, <2>1, <2>2, <1>4
<1> QED BY <1>5, <1>6, <1>7, <1>8

LEMMA CountersWrite ==
  ASSUME CatalogInv, NEW c \in Enrollers, CountEnrollment(c), NEW t \in Tracks
  PROVE  Writes(t)
<1>0. TypeOK /\ CallInv /\ CopyInv /\ c \in Calls /\ stage[c] = "counting" /\ slot' = slot
  BY DEF CatalogInv, Calls, CountEnrollment
<1>1. copy[c] # None
  BY <1>0, StageNames, CopyTypes
<1>2. /\ \A u \in Tracks \ {job[c].track} : catalog'[u] = catalog[u]
      /\ catalog'[job[c].track].total \in {catalog[job[c].track].total, copy[c].total + 1}
      /\ \/ /\ catalog'[job[c].track].lists = catalog[job[c].track].lists
            /\ catalog'[job[c].track].version = catalog[job[c].track].version
         \/ /\ catalog[job[c].track].version = copy[c].version
            /\ catalog'[job[c].track].lists = copy[c].lists
            /\ catalog'[job[c].track].version = catalog[job[c].track].version + 1
  BY <1>0, CountCatalog
<1>3. CASE t = job[c].track
  <2>1. copy[c].total + 1 <= Enrolments(t)
    BY <1>0, <1>1, <1>3 DEF CopyInv
  <2>2. CountsSoundly(t)
    BY <1>2, <1>3, <2>1 DEF CountsSoundly
  <2> QED BY <1>0, <1>1, <1>2, <1>3, <2>2 DEF Writes, KeepsList, SavesList, IsCurrent
<1>4. CASE t # job[c].track
  BY <1>2, <1>4, SameWrites
<1> QED BY <1>3, <1>4

LEMMA WhoWrites ==
  ASSUME [Next]_vars
  PROVE  \/ catalog' = catalog
         \/ \E e \in Editors : \/ SaveAddition(e) \/ SaveRemoval(e) \/ SaveBulk(e)
                               \/ SaveArchived(e) \/ UpdateTrack(e)
         \/ \E c \in Enrollers : CountEnrollment(c)
BY DEF Next, vars, documents, StartAdd, CheckSlot, Claim, StartRemove, LookAtSlot,
   ReleaseSlot, StartBulk, CreateOne, ReadToFill, StartArchive, StartEnroll, CheckEnrolled,
   InsertEnrollment, Abandon, Begin

LEMMA EveryStepWrites ==
  ASSUME CatalogInv, [Next]_vars, NEW t \in Tracks
  PROVE  Writes(t)
<1>1. CASE catalog' = catalog
  BY <1>1, SameWrites
<1>2. ASSUME NEW e \in Editors, UpdateTrack(e) PROVE Writes(t)
  BY <1>2, UpdateEffect DEF CatalogInv, Writes, KeepsList, CountsSoundly
<1> QED BY <1>1, <1>2, EditorsWrite, CountersWrite, WhoWrites

LEMMA SoundStep ==
  ASSUME CatalogInv, [Next]_vars
  PROVE  CatalogSound'
<1>1. TypeOK /\ CallInv /\ CopyInv /\ CatalogSound /\ Regular
  BY StepRegular DEF CatalogInv
<1> SUFFICES ASSUME NEW t \in Tracks
             PROVE  /\ catalog'[t].total <= Enrolments(t)'
                    /\ \A x \in Challenges : <<t, x>> \notin given' => catalog'[t].lists[x] <= 1
  BY DEF CatalogSound, Enrolments
<1>2. /\ catalog[t].total \in Nat /\ given \subseteq given'
      /\ catalog'[t].total \in Nat /\ Writes(t)
  BY <1>1, DocumentFields, EveryStepWrites DEF Regular, DocumentsGrow, TypeOK
<1>3. Enrolments(t) \in Nat /\ Enrolments(t)' \in Nat /\ Enrolments(t) <= Enrolments(t)'
  BY <1>1, EnrolmentsGrow DEF Regular, DocumentsGrow
<1>4. /\ catalog[t].total <= Enrolments(t)
      /\ \A x \in Challenges : <<t, x>> \notin given => catalog[t].lists[x] <= 1
  BY <1>1 DEF CatalogSound, Enrolments
<1>5. catalog'[t].total <= Enrolments(t)'
  BY <1>2, <1>3, <1>4 DEF Writes, CountsSoundly
<1>6. ASSUME NEW x \in Challenges, <<t, x>> \notin given' PROVE catalog'[t].lists[x] <= 1
  <2>1. CASE KeepsList(t)
    BY <1>2, <1>4, <1>6, <2>1 DEF KeepsList
  <2>2. ASSUME NEW c \in Calls, SavesList(c, t) PROVE catalog'[t].lists[x] <= 1
    <3>1. copy[c].lists[x] <= 1
      BY <1>1, <1>2, <1>6, <2>2 DEF SavesList, IsCurrent, CopyInv
    <3> QED BY <1>6, <2>2, <3>1 DEF SavesList, EditsEntry
  <2> QED BY <1>2, <2>1, <2>2 DEF Writes
<1> QED BY <1>5, <1>6

LEMMA InitCatalog == Init => CatalogInv
<1> SUFFICES ASSUME Init PROVE CopyInv /\ CatalogSound
  BY InitRegular DEF CatalogInv
<1>1. CopyInv
  BY DEF Init, CopyInv
<1>2. CatalogSound
  <2> SUFFICES ASSUME NEW t \in Tracks
               PROVE  /\ catalog[t].total <= Cardinality(EnrolledIn(t))
                      /\ \A x \in Challenges : <<t, x>> \notin given => catalog[t].lists[x] <= 1
    BY DEF CatalogSound
  <2>1. EnrolledIn(t) = {}
    BY DEF Init, EnrolledIn
  <2>2. PICK first \in [Tracks -> Given] :
           /\ catalog = [u \in Tracks |-> NewTrack(first[u])]
           /\ given = UNION {Naming(u, first[u]) : u \in Tracks}
    BY DEF Init
  <2>3. catalog[t].total = 0 /\ catalog[t].lists = first[t]
    BY <2>2 DEF NewTrack
  <2>4. ASSUME NEW x \in Challenges, <<t, x>> \notin given PROVE catalog[t].lists[x] <= 1
    <3>1. first[t][x] \in Nat
      BY CatalogAssumption
    <3>2. ~(first[t][x] > 0)
      BY <2>2, <2>4 DEF Naming
    <3> QED BY <2>3, <3>1, <3>2
  <2> QED BY <2>1, <2>3, <2>4, FS_EmptySet
<1> QED BY <1>1, <1>2

LEMMA CatalogKept == Spec => []CatalogInv
<1>1. CatalogInv /\ [Next]_vars => CatalogInv'
  <2> SUFFICES ASSUME CatalogInv, [Next]_vars PROVE CatalogInv'
    OBVIOUS
  <2>1. CopyInv' /\ CatalogSound'
    BY CopyStep, SoundStep
  <2> QED BY <2>1, StepRegular DEF CatalogInv, Regular
<1> QED BY <1>1, InitCatalog, PTL DEF Spec

(* A track never counts more enrolments than it has, and lists no challenge  *)
(* twice that was not listed without a check (in bulk, or in a list sent to  *)
(* createTrack or updateTrack), with any number of administrators.          *)
THEOREM CatalogKeptSound == Spec => []CatalogSound
<1>1. CatalogInv => CatalogSound
  BY DEF CatalogInv
<1> QED BY <1>1, CatalogKept, PTL

LEMMA EditsKept ==
  ASSUME CatalogInv, [Next]_vars, NEW t \in Tracks, NEW x \in Challenges,
         catalog'[t].lists[x] # catalog[t].lists[x], x \notin loose[t] \cup loose'[t]
  PROVE  \E e \in Editors : /\ stage[e] \in {"saving", "removing", "filling"}
                            /\ job[e].track = t
                            /\ x \in job[e].challenges
                            /\ stage'[e] # stage[e]
<1>1. PICK c \in Calls : SavesList(c, t)
  BY EveryStepWrites DEF Writes, KeepsList
<1>2. job[c].track = t /\ copy[c].lists[x] = catalog[t].lists[x]
  BY <1>1 DEF SavesList, IsCurrent, CatalogInv, CopyInv
<1>3. EditsEntry(c, t, x)
  BY <1>1, <1>2 DEF SavesList
<1> QED BY <1>2, <1>3 DEF EditsEntry

(* No save of a track, and no enrolment, undoes what another call has done   *)
(* to its list, however many administrators and students there are, but for  *)
(* the entries that updateTrack has overwritten since the last save.        *)
THEOREM EditsNotLost == Spec => NoEditLost
<1>1. CatalogInv /\ [Next]_vars =>
         [\A t \in Tracks, x \in Challenges :
             catalog'[t].lists[x] # catalog[t].lists[x] =>
                \/ x \in loose[t] \cup loose'[t]
                \/ \E e \in Editors : /\ stage[e] \in {"saving", "removing", "filling"}
                                      /\ job[e].track = t
                                      /\ x \in job[e].challenges
                                      /\ stage'[e] # stage[e]]_vars
  BY EditsKept
<1> QED BY <1>1, CatalogKept, PTL DEF Spec, NoEditLost

-----------------------------------------------------------------------------
(* The slots.  But for the challenges that were raced, one call at a time    *)
(* adds or removes a challenge; what it has seen of the slot stays true, and *)
(* a copy that may still be saved lists only what its track has claimed.     *)

SlotStages == {"adding", "validating", "saving", "removing", "looking", "releasing"}

Concerns(e, x) == stage[e] \in SlotStages /\ x \in job[e].challenges

Alone == \A x \in Challenges \ raced, d, e \in Editors :
            Concerns(d, x) /\ Concerns(e, x) => d = e

CopiesClaimed ==
    \A c \in Calls, t \in Tracks, x \in Challenges \ raced :
        IsCurrent(c, t) /\ Listed(copy[c], x) /\ <<t, x>> \notin given => slot[x] = t

(* No copy of the track that may still be saved lists the challenge.         *)
Gone(t, x) == /\ ~Listed(catalog[t], x)
              /\ \A c \in Calls : IsCurrent(c, t) => ~Listed(copy[c], x)

SlotSeen(e, t, x) ==
    /\ stage[e] = "validating" => slot[x] \in {None, t}
    /\ stage[e] = "saving" /\ IsCurrent(e, t) /\ <<t, x>> \notin given => slot[x] = t
    /\ stage[e] \in {"looking", "releasing"} /\ <<t, x>> \notin given => Gone(t, x)
    /\ stage[e] = "releasing" => slot[x] = t

SlotsSeen == \A e \in Editors, t \in Tracks, x \in Challenges \ raced :
                Concerns(e, x) /\ job[e].track = t => SlotSeen(e, t, x)

ClaimedInv == CatalogInv /\ ListedIsClaimed /\ Alone /\ CopiesClaimed /\ SlotsSeen

(* How a call that adds or removes a challenge came to where it is.          *)
Begins(e) == /\ stage'[e] \in {"adding", "removing"}
             /\ \A x \in job'[e].challenges : Edited(x) => x \in raced'
             /\ \A d \in Calls \ {e} : stage'[d] = stage[d] /\ job'[d] = job[d]

Stays(e) == stage'[e] = stage[e] /\ job'[e] = job[e] /\ copy'[e] = copy[e]

Moves(e) == /\ stage[e] \in SlotStages /\ job'[e] = job[e] /\ stage'[e] # stage[e]
            /\ \A d \in Calls \ {e} : stage'[d] = stage[d] /\ job'[d] = job[d]
            /\ \/ CheckSlot(e) /\ stage'[e] = "validating"
               \/ Claim(e) /\ stage'[e] = "saving"
               \/ SaveRemoval(e) /\ stage'[e] = "looking"
               \/ LookAtSlot(e) /\ stage'[e] = "releasing"

LEMMA BeginBegins ==
  ASSUME TypeOK, NEW e \in Calls, NEW t \in Tracks, NEW X \in SUBSET Challenges,
         NEW next \in {"adding", "removing"}, NEW read, Begin(e, About(t, X), next, read)
  PROVE  Begins(e) /\ \A d \in Calls \ {e} : Stays(d)
<1>1. /\ About(t, X) \in Jobs /\ About(t, X).challenges = X /\ next \in Stages
  BY DEF About, Jobs, Stages
<1>2. /\ stage'[e] = next /\ job'[e] = About(t, X)
      /\ raced' = raced \cup {x \in X : Edited(x)}
      /\ \A d \in Calls \ {e} : /\ stage'[d] = stage[d] /\ job'[d] = job[d]
                                /\ copy'[d] = copy[d]
  BY <1>1, BeginEffect
<1> QED BY <1>1, <1>2 DEF Begins, Stays

LEMMA HowHere ==
  ASSUME TypeOK, CallInv, [Next]_vars, NEW e \in Editors, stage'[e] \in SlotStages
  PROVE  Begins(e) \/ Stays(e) \/ Moves(e)
<1>0. e \in Calls
  BY DEF Calls
<1>1. ASSUME NEW f \in Editors, StartAdd(f) \/ StartRemove(f)
      PROVE  Begins(e) \/ Stays(e)
  <2>0. f \in Calls
    BY DEF Calls
  <2>1. CASE StartAdd(f)
    <3>1. PICK t \in Tracks, x \in created : Begin(f, About(t, {x}), "adding", catalog[t])
      BY <2>1 DEF StartAdd
    <3>2. {x} \in SUBSET Challenges
      BY DEF TypeOK
    <3> QED BY <1>0, <2>0, <3>1, <3>2, BeginBegins
  <2>2. CASE StartRemove(f)
    <3>1. PICK t \in Tracks, x \in Challenges :
             Begin(f, About(t, {x}), "removing", catalog[t])
      BY <2>2 DEF StartRemove
    <3>2. {x} \in SUBSET Challenges
      OBVIOUS
    <3> QED BY <1>0, <2>0, <3>1, <3>2, BeginBegins
  <2> QED BY <1>1, <2>1, <2>2
<1>2. ASSUME NEW f \in Editors, CheckSlot(f) \/ Claim(f) \/ LookAtSlot(f)
      PROVE  Stays(e) \/ Moves(e)
  <2>1. f \in Calls /\ stage[f] \in {"adding", "validating", "looking"}
    BY <1>2 DEF Calls, CheckSlot, Claim, LookAtSlot
  <2>2. CASE Finish(f)
    <3>1. f # e
      BY <2>1, <2>2, FinishEffect DEF SlotStages
    <3> QED BY <1>0, <2>1, <2>2, <3>1, FinishEffect DEF Stays
  <2>3. ASSUME NEW next \in {"validating", "saving", "releasing"}, GoTo(f, next)
        PROVE  /\ stage'[f] = next /\ job' = job /\ copy' = copy
               /\ \A d \in Calls \ {f} : stage'[d] = stage[d]
    BY <2>1, <2>3, StageNames, GoToEffect
  <2>4. CASE CheckSlot(f)
    <3>1. stage[f] = "adding" /\ GoTo(f, "validating")
      BY <2>4 DEF CheckSlot
    <3>2. /\ stage'[f] = "validating" /\ job' = job /\ copy' = copy
          /\ \A d \in Calls \ {f} : stage'[d] = stage[d]
      BY <2>3, <3>1
    <3> QED BY <1>0, <2>4, <3>1, <3>2 DEF Stays, Moves, SlotStages
  <2>5. CASE Claim(f)
    <3>1. stage[f] = "validating" /\ GoTo(f, "saving")
      BY <2>5 DEF Claim
    <3>2. /\ stage'[f] = "saving" /\ job' = job /\ copy' = copy
          /\ \A d \in Calls \ {f} : stage'[d] = stage[d]
      BY <2>3, <3>1
    <3> QED BY <1>0, <2>5, <3>1, <3>2 DEF Stays, Moves, SlotStages
  <2>6. CASE LookAtSlot(f)
    <3>1. stage[f] = "looking" /\ (GoTo(f, "releasing") \/ Finish(f))
      BY <2>6 DEF LookAtSlot
    <3>2. CASE GoTo(f, "releasing")
      <4>1. /\ stage'[f] = "releasing" /\ job' = job /\ copy' = copy
            /\ \A d \in Calls \ {f} : stage'[d] = stage[d]
        BY <2>3, <3>2
      <4> QED BY <1>0, <2>6, <3>1, <4>1 DEF Stays, Moves, SlotStages
    <3> QED BY <2>2, <3>1, <3>2
  <2> QED BY <1>2, <2>4, <2>5, <2>6
<1>3. ASSUME NEW f \in Editors, SaveRemoval(f) PROVE Stays(e) \/ Moves(e)
  <2>1. f \in Calls /\ stage[f] = "removing"
    BY <1>3 DEF Calls, SaveRemoval
  <2>2. CASE Finish(f)
    <3>1. f # e
      BY <2>1, <2>2, FinishEffect DEF SlotStages
    <3> QED BY <1>0, <2>1, <2>2, <3>1, FinishEffect DEF Stays
  <2>3. CASE /\ stage' = [stage EXCEPT ![f] = "looking"]
             /\ copy' = [copy EXCEPT ![f] = None] /\ job' = job
    <3>1. /\ stage'[f] = "looking" /\ \A d \in Calls \ {f} : /\ stage'[d] = stage[d]
                                                             /\ copy'[d] = copy[d]
      BY <2>1, <2>3 DEF TypeOK
    <3> QED BY <1>0, <1>3, <2>1, <2>3, <3>1 DEF Stays, Moves, SlotStages
  <2> QED BY <1>3, <2>2, <2>3 DEF SaveRemoval
<1>4. ASSUME NEW f \in Calls, Finish(f) PROVE Stays(e)
  <2>1. f # e
    BY <1>4, FinishEffect DEF SlotStages
  <2> QED BY <1>0, <1>4, <2>1, FinishEffect DEF Stays
<1>5. ASSUME NEW f \in Editors,
             SaveAddition(f) \/ ReleaseSlot(f) \/ SaveBulk(f) \/ SaveArchived(f)
      PROVE  Stays(e)
  BY <1>4, <1>5 DEF SaveAddition, ReleaseSlot, SaveBulk, SaveArchived, Calls
<1>6. ASSUME NEW f \in Editors, CreateOne(f) \/ ReadToFill(f) \/ StartBulk(f) \/ StartArchive(f)
      PROVE  Stays(e)
  <2>1. f # e
    BY <1>0, <1>6 DEF TypeOK, CreateOne, ReadToFill, StartBulk, StartArchive, Begin, SlotStages
  <2> QED BY <1>0, <1>6, <2>1 DEF TypeOK, CreateOne, ReadToFill, StartBulk, StartArchive,
             Begin, Stays
<1>7. ASSUME NEW f \in Editors, UpdateTrack(f) PROVE Stays(e)
  BY <1>7 DEF UpdateTrack, Stays
<1>8. ASSUME NEW c \in Enrollers,
             StartEnroll(c) \/ CheckEnrolled(c) \/ InsertEnrollment(c) \/ CountEnrollment(c)
      PROVE  Stays(e)
  <2>1. e # c
    BY CallsApart
  <2> QED BY <1>0, <1>8, <2>1 DEF TypeOK, StartEnroll, CheckEnrolled, InsertEnrollment,
             CountEnrollment, Begin, GoTo, Finish, Stays
<1>9. ASSUME NEW c \in Calls, Abandon(c) PROVE Stays(e)
  BY <1>4, <1>9 DEF Abandon
<1>10. CASE UNCHANGED vars
  BY <1>10 DEF vars, Stays
<1> QED BY <1>1, <1>2, <1>3, <1>5, <1>6, <1>7, <1>8, <1>9, <1>10 DEF Next

LEMMA RacedGrows ==
  ASSUME [Next]_vars
  PROVE  raced \subseteq raced'
BY DEF Next, vars, StartAdd, CheckSlot, Claim, SaveAddition, StartRemove, SaveRemoval,
   LookAtSlot, ReleaseSlot, StartBulk, CreateOne, ReadToFill, SaveBulk, UpdateTrack,
   StartArchive, SaveArchived, StartEnroll, CheckEnrolled, InsertEnrollment,
   CountEnrollment, Abandon, Begin, GoTo, Finish

LEMMA AloneStep ==
  ASSUME ClaimedInv, [Next]_vars
  PROVE  Alone'
<1>1. TypeOK /\ CallInv /\ Alone /\ raced \subseteq raced'
  BY RacedGrows DEF ClaimedInv, CatalogInv
<1> SUFFICES ASSUME NEW x \in Challenges \ raced', NEW d \in Editors, NEW e \in Editors,
                    Concerns(d, x)', Concerns(e, x)', d # e
             PROVE  FALSE
  BY DEF Alone
<1>2. d \in Calls /\ e \in Calls /\ x \notin raced
  BY <1>1 DEF Calls
<1>3. ASSUME NEW f \in Editors, NEW g \in Editors, f # g, Begins(f),
             Concerns(f, x)', Concerns(g, x)'
      PROVE  FALSE
  <2>1. Concerns(g, x)
    BY <1>3 DEF Begins, Concerns, Calls
  <2>2. Edited(x)
    BY <2>1 DEF Edited, Concerns, SlotStages
  <2> QED BY <1>3, <2>2 DEF Begins, Concerns
<1>4. ~Begins(d) /\ ~Begins(e)
  BY <1>3
<1>5. Concerns(d, x) /\ Concerns(e, x)
  BY <1>1, <1>4, HowHere DEF Concerns, Stays, Moves
<1> QED BY <1>1, <1>2, <1>5 DEF Alone

(* A slot changes only when a call that concerns its challenge claims it or   *)
(* releases it; then no track changes, nor any copy that is kept.            *)
Reslots(e, x) ==
    /\ x \in job[e].challenges /\ stage'[e] # stage[e]
    /\ \/ stage[e] = "validating" /\ slot'[x] = job[e].track
       \/ stage[e] = "releasing" /\ slot'[x] = None
    /\ catalog' = catalog /\ given' = given
    /\ \A c \in Calls : copy'[c] # None => copy'[c] = copy[c] /\ job'[c] = job[c]

LEMMA SlotsMove ==
  ASSUME TypeOK, CallInv, [Next]_vars, NEW x \in Challenges, slot'[x] # slot[x]
  PROVE  \E e \in Editors : Reslots(e, x)
<1>1. PICK e \in Editors : Claim(e) \/ ReleaseSlot(e)
  BY DEF Next, vars, documents, StartAdd, CheckSlot, SaveAddition, StartRemove, SaveRemoval,
     LookAtSlot, StartBulk, CreateOne, ReadToFill, SaveBulk, UpdateTrack, StartArchive,
     SaveArchived, StartEnroll, CheckEnrolled, InsertEnrollment, CountEnrollment, Abandon, Begin
<1>2. e \in Calls
  BY DEF Calls
<1>3. CASE Claim(e)
  <2>1. /\ stage'[e] = "saving" /\ job' = job /\ copy' = copy
    BY <1>2, <1>3, StageNames, GoToEffect DEF Claim
  <2> QED BY <1>3, <2>1 DEF Claim, Reslots
<1>4. CASE ReleaseSlot(e)
  <2>1. /\ stage'[e] = "idle" /\ copy'[e] = None
        /\ \A d \in Calls \ {e} : job'[d] = job[d] /\ copy'[d] = copy[d]
    BY <1>2, <1>4, FinishEffect DEF ReleaseSlot
  <2> QED BY <1>4, <2>1 DEF ReleaseSlot, Reslots
<1> QED BY <1>1, <1>3, <1>4

(* A challenge that a track comes to list was claimed already.               *)
LEMMA NewlyListed ==
  ASSUME ClaimedInv, [Next]_vars, NEW t \in Tracks, NEW x \in Challenges \ raced,
         Listed(catalog'[t], x), <<t, x>> \notin given'
  PROVE  /\ slot[x] = t /\ <<t, x>> \notin given
         /\ \/ Listed(catalog[t], x)
            \/ \E c \in Calls : IsCurrent(c, t) /\ Listed(copy[c], x)
            \/ \E e \in Editors : /\ Concerns(e, x) /\ job[e].track = t
                                  /\ stage[e] = "saving" /\ stage'[e] # stage[e]
<1>1. /\ ListedIsClaimed /\ CopiesClaimed /\ SlotsSeen /\ Writes(t)
      /\ <<t, x>> \notin given
  BY EveryStepWrites, StepRegular DEF ClaimedInv, CatalogInv, Regular, DocumentsGrow
<1>2. CASE KeepsList(t)
  <2>1. Listed(catalog[t], x)
    BY <1>2 DEF KeepsList, Listed
  <2> QED BY <1>1, <2>1 DEF ListedIsClaimed
<1>3. ASSUME NEW c \in Calls, SavesList(c, t)
      PROVE  /\ slot[x] = t
             /\ \/ IsCurrent(c, t) /\ Listed(copy[c], x)
                \/ /\ c \in Editors /\ Concerns(c, x) /\ job[c].track = t
                   /\ stage[c] = "saving" /\ stage'[c] # stage[c]
  <2>1. CASE catalog'[t].lists[x] = copy[c].lists[x]
    BY <1>1, <1>3, <2>1 DEF SavesList, CopiesClaimed, Listed
  <2>2. CASE EditsEntry(c, t, x)
    <3>1. stage[c] = "saving" /\ x \in job[c].challenges /\ c \in Editors /\ stage'[c] # stage[c]
      BY <2>2 DEF EditsEntry, Listed
    <3>2. Concerns(c, x) /\ job[c].track = t /\ IsCurrent(c, t)
      BY <1>3, <3>1 DEF Concerns, SlotStages, SavesList, IsCurrent
    <3>3. slot[x] = t
      BY <1>1, <3>1, <3>2 DEF SlotsSeen, SlotSeen
    <3> QED BY <3>1, <3>2, <3>3
  <2> QED BY <1>3, <2>1, <2>2 DEF SavesList
<1> QED BY <1>1, <1>2, <1>3 DEF Writes

(* A copy that may still be saved was so before, or has just been read.      *)
LEMMA StillCurrent ==
  ASSUME ClaimedInv, [Next]_vars, NEW c \in Calls, NEW t \in Tracks, IsCurrent(c, t)'
  PROVE  \/ IsCurrent(c, t) /\ copy'[c] = copy[c]
         \/ catalog' = catalog /\ copy'[c] = catalog[t]
<1>1. TypeOK /\ CallInv /\ CopyInv /\ Regular
  BY StepRegular DEF ClaimedInv, CatalogInv
<1>2. CASE copy'[c] = copy[c] /\ job'[c].track = job[c].track
  <2>1. /\ copy[c] # None /\ job[c].track = t /\ copy[c].version = catalog'[t].version
    BY <1>2 DEF IsCurrent
  <2>2. copy[c].version <= catalog[t].version
    BY <1>1, <2>1 DEF CopyInv
  <2>3. /\ catalog[t].version \in Nat
        /\ \/ catalog'[t].version = catalog[t].version
           \/ catalog'[t].version = catalog[t].version + 1
    BY <1>1, DocumentFields DEF Regular, DocumentsGrow, TracksGrow, TypeOK
  <2> QED BY <1>2, <2>1, <2>2, <2>3 DEF IsCurrent
<1>3. CASE catalog' = catalog /\ copy'[c] = catalog[job'[c].track]
  BY <1>3 DEF IsCurrent
<1> QED BY <1>1, <1>2, <1>3 DEF Regular, CopiesRead, IsCurrent

LEMMA ListedStep ==
  ASSUME ClaimedInv, [Next]_vars
  PROVE  ListedIsClaimed'
<1>1. /\ TypeOK /\ CallInv /\ SlotsSeen /\ raced \subseteq raced' /\ given \subseteq given'
  BY RacedGrows, StepRegular DEF ClaimedInv, CatalogInv, Regular, DocumentsGrow
<1> SUFFICES ASSUME NEW t \in Tracks, NEW x \in Challenges \ raced', Listed(catalog'[t], x),
                    <<t, x>> \notin given'
             PROVE  slot'[x] = t
  BY DEF ListedIsClaimed
<1>2. x \in Challenges \ raced /\ slot[x] = t
  BY <1>1, NewlyListed
<1>3. ASSUME NEW e \in Editors, Reslots(e, x) PROVE slot'[x] = t
  <2>1. Concerns(e, x) /\ e \in Calls /\ stage[e] # "idle"
    BY <1>3 DEF Reslots, Concerns, SlotStages, Calls
  <2>2. job[e].track \in Tracks
    BY <1>1, <2>1, JobTypes
  <2>3. SlotSeen(e, job[e].track, x)
    BY <1>1, <1>2, <2>1, <2>2 DEF SlotsSeen
  <2>4. CASE stage[e] = "validating" /\ slot'[x] = job[e].track
    BY <1>2, <2>3, <2>4, CatalogAssumption DEF SlotSeen
  <2>5. CASE stage[e] = "releasing"
    <3>1. job[e].track = t /\ Listed(catalog[t], x) /\ <<t, x>> \notin given
      BY <1>2, <1>3, <2>3, <2>5 DEF SlotSeen, Reslots
    <3> QED BY <2>3, <2>5, <3>1 DEF SlotSeen, Gone
  <2> QED BY <1>3, <2>4, <2>5 DEF Reslots
<1> QED BY <1>1, <1>2, <1>3, SlotsMove

LEMMA CopiesStep ==
  ASSUME ClaimedInv, [Next]_vars
  PROVE  CopiesClaimed'
<1>1. /\ TypeOK /\ CallInv /\ SlotsSeen /\ CopiesClaimed /\ ListedIsClaimed
      /\ raced \subseteq raced' /\ given \subseteq given'
  BY RacedGrows, StepRegular DEF ClaimedInv, CatalogInv, Regular, DocumentsGrow
<1> SUFFICES ASSUME NEW c \in Calls, NEW t \in Tracks, NEW x \in Challenges \ raced',
                    IsCurrent(c, t)', Listed(copy'[c], x), <<t, x>> \notin given'
             PROVE  slot'[x] = t
  BY DEF CopiesClaimed
<1>2. x \in Challenges \ raced /\ <<t, x>> \notin given
  BY <1>1
<1>3. \/ IsCurrent(c, t) /\ Listed(copy[c], x)
      \/ Listed(catalog[t], x)
  BY StillCurrent
<1>4. slot[x] = t
  BY <1>1, <1>2, <1>3 DEF CopiesClaimed, ListedIsClaimed
<1>5. ASSUME NEW e \in Editors, Reslots(e, x) PROVE slot'[x] = t
  <2>1. Concerns(e, x) /\ e \in Calls /\ stage[e] # "idle"
    BY <1>5 DEF Reslots, Concerns, SlotStages, Calls
  <2>2. job[e].track \in Tracks
    BY <1>1, <2>1, JobTypes
  <2>3. SlotSeen(e, job[e].track, x)
    BY <1>1, <1>2, <2>1, <2>2 DEF SlotsSeen
  <2>4. CASE stage[e] = "validating" /\ slot'[x] = job[e].track
    BY <1>4, <2>3, <2>4, CatalogAssumption DEF SlotSeen
  <2>5. CASE stage[e] = "releasing"
    <3>1. job[e].track = t
      BY <1>4, <2>3, <2>5 DEF SlotSeen
    <3>2. Gone(t, x)
      BY <1>2, <2>3, <2>5, <3>1 DEF SlotSeen
    <3> QED BY <1>3, <3>2 DEF Gone
  <2> QED BY <1>5, <2>4, <2>5 DEF Reslots
<1> QED BY <1>1, <1>4, <1>5, SlotsMove

(* A challenge that is gone stays so, but for the call that adds it.        *)
LEMMA GoneStep ==
  ASSUME ClaimedInv, [Next]_vars, NEW t \in Tracks, NEW x \in Challenges \ raced,
         NEW e \in Editors, Concerns(e, x), stage[e] \in {"looking", "releasing"},
         Gone(t, x), <<t, x>> \notin given'
  PROVE  Gone(t, x)'
<1>1. ASSUME Listed(catalog'[t], x) PROVE FALSE
  <2>1. PICK d \in Editors : Concerns(d, x) /\ stage[d] = "saving"
    BY <1>1, NewlyListed DEF Gone
  <2> QED BY <2>1 DEF ClaimedInv, Alone
<1>2. ASSUME NEW c \in Calls, IsCurrent(c, t)' PROVE ~Listed(copy'[c], x)
  BY <1>2, StillCurrent DEF Gone
<1> QED BY <1>1, <1>2 DEF Gone

LEMMA SeenStep ==
  ASSUME ClaimedInv, [Next]_vars
  PROVE  SlotsSeen'
<1>1. /\ TypeOK /\ CallInv /\ SlotsSeen /\ CopiesClaimed /\ Alone
      /\ raced \subseteq raced' /\ given \subseteq given' /\ CopyInv
  BY RacedGrows, StepRegular DEF ClaimedInv, CatalogInv, Regular, DocumentsGrow
<1> SUFFICES ASSUME NEW e \in Editors, NEW t \in Tracks, NEW x \in Challenges \ raced',
                    Concerns(e, x)', job'[e].track = t
             PROVE  SlotSeen(e, t, x)'
  BY DEF SlotsSeen
<1>2. x \in Challenges \ raced /\ e \in Calls /\ stage'[e] \in SlotStages
  BY <1>1 DEF Calls, Concerns
<1>3. CASE Begins(e)
  BY <1>3 DEF Begins, SlotSeen
<1>4. CASE Stays(e)
  <2>1. Concerns(e, x) /\ job[e].track = t
    BY <1>4 DEF Stays, Concerns
  <2>2. SlotSeen(e, t, x)
    BY <1>1, <1>2, <2>1 DEF SlotsSeen
  <2>3. ASSUME NEW f \in Editors, Reslots(f, x) PROVE FALSE
    <3>1. Concerns(f, x) /\ f # e
      BY <1>4, <2>3 DEF Reslots, Concerns, SlotStages, Stays
    <3> QED BY <1>1, <1>2, <2>1, <3>1 DEF Alone
  <2>4. slot'[x] = slot[x]
    BY <1>1, <1>2, <2>3, SlotsMove
  <2>5. stage'[e] = "saving" /\ IsCurrent(e, t)' /\ <<t, x>> \notin given' => slot'[x] = t
    <3> SUFFICES ASSUME stage'[e] = "saving", IsCurrent(e, t)', <<t, x>> \notin given'
                 PROVE  slot[x] = t
      BY <2>4
    <3>1. /\ stage[e] = "saving" /\ copy'[e] = copy[e] /\ <<t, x>> \notin given
      BY <1>1, <1>4 DEF Stays
    <3>2. IsCurrent(e, t)
      BY <1>2, <2>1, <3>1, StillCurrent DEF IsCurrent
    <3> QED BY <2>2, <3>1, <3>2 DEF SlotSeen
  <2>6. stage'[e] \in {"looking", "releasing"} /\ <<t, x>> \notin given' => Gone(t, x)'
    BY <1>1, <1>2, <1>4, <2>1, <2>2, GoneStep DEF Stays, SlotSeen
  <2> QED BY <1>4, <2>2, <2>4, <2>5, <2>6 DEF SlotSeen, Stays
<1>5. CASE Moves(e)
  <2>1. Concerns(e, x) /\ job[e].track = t
    BY <1>5 DEF Moves, Concerns
  <2>2. SlotSeen(e, t, x) /\ x \in job[e].challenges
    BY <1>1, <1>2, <2>1 DEF SlotsSeen, Concerns
  <2>3. CASE CheckSlot(e) /\ stage'[e] = "validating"
    BY <2>1, <2>2, <2>3 DEF CheckSlot, documents, SlotSeen
  <2>4. CASE Claim(e) /\ stage'[e] = "saving"
    <3>1. /\ slot'[x] = IF ~Listed(copy[e], x) THEN t ELSE slot[x]
          /\ copy' = copy /\ catalog' = catalog /\ given' = given
      BY <1>2, <2>1, <2>2, <2>4 DEF Claim, GoTo
    <3>2. IsCurrent(e, t)' => IsCurrent(e, t)
      BY <2>1, <3>1 DEF IsCurrent
    <3> QED BY <1>1, <1>2, <2>4, <3>1, <3>2 DEF SlotSeen, CopiesClaimed
  <2>5. CASE SaveRemoval(e) /\ stage'[e] = "looking"
    <3>1. /\ stage[e] = "removing" /\ given' = given /\ slot' = slot
          /\ copy' = [copy EXCEPT ![e] = None] /\ job' = job
      BY <1>2, <2>5, FinishEffect, <1>1 DEF SaveRemoval
    <3>2. Listed(copy[e], x) \/ \E y \in job[e].challenges : Listed(copy[e], y)
      BY <1>2, <1>1, <2>5, FinishEffect DEF SaveRemoval
    <3>3. ~IsEmpty(copy[e]) /\ job[e].challenges \in SUBSET Challenges /\ t \in Tracks
          /\ copy[e] \in Documents /\ copy[e] # None
      BY <1>1, <1>2, <2>1, <3>1, <3>2, StageNames, CopyTypes DEF IsEmpty
    <3>4. SaveTrack(t, copy[e], Without(copy[e], job[e].challenges), copy[e].total)
      BY <2>1, <2>5, <3>3 DEF SaveRemoval
    <3>5. /\ Without(copy[e], job[e].challenges) \in [Challenges -> Nat]
          /\ Without(copy[e], job[e].challenges)[x] = 0 /\ copy[e].total \in Nat
      BY <2>2, <3>3, ListEdits, DocumentFields
    <3>6. catalog'[t].lists[x] = 0 /\ catalog'[t].version = catalog[t].version + 1
      BY <1>1, <3>4, <3>5, SaveTrackEffect
    <3>7. catalog[t].version \in Nat
      BY <1>1, DocumentFields DEF TypeOK
    <3>8. ASSUME NEW c \in Calls, IsCurrent(c, t)' PROVE FALSE
      <4>1. IsCurrent(c, t)' /\ copy'[c] = copy[c] /\ job[c].track = t /\ copy[c] # None
        <5>1. c # e
          BY <1>1, <3>1, <3>8 DEF IsCurrent, TypeOK
        <5> QED BY <1>1, <2>1, <3>1, <3>8, <5>1 DEF IsCurrent, TypeOK
      <4>2. copy[c].version <= catalog[t].version
        BY <1>1, <4>1 DEF CopyInv
      <4>3. copy[c].version = catalog[t].version + 1
        BY <3>6, <4>1 DEF IsCurrent
      <4> QED BY <3>7, <4>2, <4>3
    <3>9. Gone(t, x)'
      BY <3>6, <3>8 DEF Gone, Listed
    <3> QED BY <2>5, <3>9 DEF SlotSeen
  <2>6. CASE LookAtSlot(e) /\ stage'[e] = "releasing"
    <3>1. stage[e] = "looking" /\ UNCHANGED documents
      BY <2>6 DEF LookAtSlot
    <3>2. slot[x] = t
      BY <1>1, <1>2, <2>1, <2>2, <2>6, FinishEffect DEF LookAtSlot
    <3>3. <<t, x>> \notin given' => Gone(t, x)'
      BY <1>2, <2>1, <2>2, <3>1, GoneStep DEF SlotSeen, documents
    <3> QED BY <2>6, <3>1, <3>2, <3>3 DEF SlotSeen, documents
  <2> QED BY <1>5, <2>3, <2>4, <2>5, <2>6 DEF Moves
<1> QED BY <1>1, <1>2, <1>3, <1>4, <1>5, HowHere

(* A challenge that a track lists has its slot claimed by that track, with    *)
(* any number of administrators and beside any enrolments, whatever fails,   *)
(* unless the list was stored without a claim or two calls added or removed  *)
(* the challenge at once.                                                    *)
THEOREM ListedStaysClaimed == Spec => []ListedIsClaimed
<1>1. Init => ClaimedInv
  <2> SUFFICES ASSUME Init PROVE ListedIsClaimed /\ Alone /\ CopiesClaimed /\ SlotsSeen
    BY InitCatalog DEF ClaimedInv
  <2>1. /\ \A c \in Calls : stage[c] = "idle" /\ copy[c] = None
        /\ \A e \in Editors : e \in Calls
    BY DEF Init, Calls
  <2>2. Alone /\ CopiesClaimed /\ SlotsSeen
    BY <2>1 DEF Alone, CopiesClaimed, SlotsSeen, Concerns, SlotStages, IsCurrent
  <2>3. ListedIsClaimed
    <3> SUFFICES ASSUME NEW t \in Tracks, NEW x \in Challenges, Listed(catalog[t], x)
                 PROVE  <<t, x>> \in given
      BY DEF ListedIsClaimed
    <3>1. PICK first \in [Tracks -> Given] :
             /\ catalog = [u \in Tracks |-> NewTrack(first[u])]
             /\ given = UNION {Naming(u, first[u]) : u \in Tracks}
      BY DEF Init
    <3>2. first[t][x] > 0
      BY <3>1 DEF Listed, NewTrack
    <3> QED BY <3>1, <3>2 DEF Naming
  <2> QED BY <2>2, <2>3
<1>2. ClaimedInv /\ [Next]_vars => ClaimedInv'
  <2> SUFFICES ASSUME ClaimedInv, [Next]_vars PROVE ClaimedInv'
    OBVIOUS
  <2>1. CatalogInv'
    BY StepRegular, CopyStep, SoundStep DEF ClaimedInv, CatalogInv, Regular
  <2> QED BY <2>1, ListedStep, AloneStep, CopiesStep, SeenStep DEF ClaimedInv
<1>3. ClaimedInv => ListedIsClaimed
  BY DEF ClaimedInv
<1> QED BY <1>1, <1>2, <1>3, PTL DEF Spec
==============================================================================

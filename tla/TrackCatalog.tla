----------------------------- MODULE TrackCatalog -----------------------------
(***************************************************************************)
(* The tracks of one language and the code challenges they list.  An       *)
(* administrator (CodeChallengeAdminService) adds a challenge to a track,   *)
(* removes one, creates challenges in bulk and adds them, or archives a     *)
(* track; a student (CodeChallengeService) enrols in one.  Each of these    *)
(* calls reads a track, does something else and saves the track as a whole. *)
(* updateTrack stores a list that the administrator sends, whatever it      *)
(* holds.  A challenge keeps, for the language, the track that has claimed  *)
(* it: its slot.                                                            *)
(*                                                                         *)
(* A database operation may fail and the server may restart: the call ends  *)
(* where it is.  Order, unlockAfter and the other fields are left out, with *)
(* isActive, which updateTrack may set again at any time.                   *)
(***************************************************************************)
EXTENDS Naturals, FiniteSetsExt

CONSTANTS Tracks,      \* the tracks of the language
          Challenges,  \* the challenges that exist or will be created
          Existing,    \* the challenges there are at the start
          Given,       \* the lists administrators send: how often each challenge is in one
          Students,    \* the users who enrol
          Editors,     \* the calls of administrators
          Enrollers,   \* the calls of enrollInTrack, each for one track at a time
          StudentOf,   \* the user of such a call
          None,        \* no track, no document
          MaxSaves     \* bound on the saves of tracks before a call begins

ASSUME CatalogAssumption == /\ Existing \subseteq Challenges
                            /\ Given \subseteq [Challenges -> Nat]
                            /\ None \notin Tracks
                            /\ Editors \cap Enrollers = {}
                            /\ StudentOf \in [Enrollers -> Students]
                            /\ IsFiniteSet(Students)
                            /\ MaxSaves \in Nat

VARIABLES catalog,   \* the Track documents
          slot,      \* trackAssignments[language] of each challenge
          created,   \* the challenges stored so far
          given,     \* the pairs of a track and a challenge listed without a check
          loose,     \* the challenges of each track whose entries updateTrack
                     \* has changed since the track was last saved
          raced,     \* the challenges that two calls have added or removed at once
          enrolled,  \* the UserTrackProgress documents: pairs of student and track
          stage,     \* where each call is
          job,       \* what it is about: a track, and challenges to add or remove
          copy       \* the Track document it has read

vars == <<catalog, slot, created, given, loose, raced, enrolled, stage, job, copy>>

Calls == Editors \cup Enrollers

(* A track's challenges (how often it lists each), __v and                  *)
(* stats.totalEnrolled.                                                     *)
Documents == [lists : [Challenges -> Nat], version : Nat, total : Nat]

ASSUME NoDocument == None \notin Documents

NewTrack(l) == [lists |-> l, version |-> 0, total |-> 0]

Naming(t, l) == {<<t, x>> : x \in {y \in Challenges : l[y] > 0}}

Stages == {"idle", "adding", "validating", "saving", "removing", "looking",
           "releasing", "creating", "filling", "archiving", "checking", "enrolling",
           "counting"}

Jobs == [track : Tracks, challenges : SUBSET Challenges]

TypeOK ==
    /\ catalog \in [Tracks -> Documents]
    /\ slot \in [Challenges -> Tracks \cup {None}]
    /\ created \subseteq Challenges
    /\ given \subseteq Tracks \X Challenges
    /\ loose \in [Tracks -> SUBSET Challenges]
    /\ raced \subseteq Challenges
    /\ enrolled \subseteq Students \X Tracks
    /\ stage \in [Calls -> Stages]
    /\ job \in [Calls -> Jobs \cup {None}]
    /\ copy \in [Calls -> Documents \cup {None}]
    /\ \A e \in Editors : stage[e] \in {"creating", "filling"} =>
          job[e].challenges \subseteq created

(* createTrack has stored each track with the list it was sent.             *)
Init ==
    /\ \E first \in [Tracks -> Given] :
          /\ catalog = [t \in Tracks |-> NewTrack(first[t])]
          /\ given = UNION {Naming(t, first[t]) : t \in Tracks}
    /\ loose = [t \in Tracks |-> {}]
    /\ slot = [x \in Challenges |-> None]
    /\ created = Existing
    /\ raced = {}
    /\ enrolled = {}
    /\ stage = [c \in Calls |-> "idle"]
    /\ job = [c \in Calls |-> None]
    /\ copy = [c \in Calls |-> None]

-----------------------------------------------------------------------------
(* Definitions named Bug... are not part of the model: each is the          *)
(* definition that follows it with a plausible mistake, kept to show that a *)
(* property can fail.                                                       *)

documents == <<catalog, slot, created, given, loose, enrolled>>

About(t, X) == [track |-> t, challenges |-> X]

FewSaves == MapThenSumSet(LAMBDA t : catalog[t].version, Tracks) < MaxSaves

(* A call that adds or removes the challenge is under way.                   *)
Edited(x) == \E e \in Editors : /\ stage[e] \in {"adding", "validating", "saving",
                                                "removing", "looking", "releasing"}
                                /\ x \in job[e].challenges

(* A call begins, most of them with a read of the track.                     *)
Begin(c, j, next, read) ==
    /\ stage[c] = "idle"
    /\ FewSaves
    /\ stage' = [stage EXCEPT ![c] = next]
    /\ job' = [job EXCEPT ![c] = j]
    /\ copy' = [copy EXCEPT ![c] = read]
    /\ raced' = raced \cup {x \in j.challenges : Edited(x)}
    /\ UNCHANGED documents

GoTo(c, next) == /\ stage' = [stage EXCEPT ![c] = next]
                 /\ UNCHANGED <<job, copy, raced>>

(* The call ends: answered, refused, failed, or lost in a restart.          *)
Finish(c) == /\ stage' = [stage EXCEPT ![c] = "idle"]
             /\ job' = [job EXCEPT ![c] = None]
             /\ copy' = [copy EXCEPT ![c] = None]
             /\ UNCHANGED raced

Listed(doc, x) == doc.lists[x] > 0

Saved(doc, read, lists, total) ==
    [lists   |-> lists,
     version |-> doc.version + 1,
     total   |-> IF total = read.total THEN doc.total ELSE total]

BugNoVersionCheck(t, read, lists, total) ==
    /\ catalog' = [catalog EXCEPT ![t] = Saved(@, read, lists, total)]
    /\ loose' = [loose EXCEPT ![t] = {}]

(* track.save(): the save hook sorts a list that is not empty, so that the  *)
(* whole list is written, which mongoose does only if the stored version is *)
(* the one that was read; otherwise it throws.  Other fields are written if *)
(* they were assigned.                                                      *)
SaveTrack(t, read, lists, total) ==
    /\ catalog[t].version = read.version
    /\ catalog' = [catalog EXCEPT ![t] = Saved(@, read, lists, total)]
    /\ loose' = [loose EXCEPT ![t] = {}]

(* A save that assigns no field and leaves an empty list writes nothing.    *)
WriteNothing == UNCHANGED <<catalog, loose>>

-----------------------------------------------------------------------------
(* addChallengeToTrack: the track is read, and then the challenge.          *)
StartAdd(e) == \E t \in Tracks, x \in created :
    Begin(e, About(t, {x}), "adding", catalog[t])

(* The slot must be free or this track's.                                   *)
CheckSlot(e) ==
    /\ stage[e] = "adding"
    /\ \A x \in job[e].challenges : slot[x] \in {None, job[e].track}
    /\ GoTo(e, "validating")
    /\ UNCHANGED documents

BugClaimsNothing(e) ==
    /\ stage[e] = "validating"
    /\ GoTo(e, "saving")
    /\ UNCHANGED documents

(* The solution has passed its validation, or that is skipped.  A challenge *)
(* that the track does not list yet has its slot claimed.                   *)
Claim(e) ==
    /\ stage[e] = "validating"
    /\ slot' = [x \in Challenges |->
                   IF x \in job[e].challenges /\ ~Listed(copy[e], x) THEN job[e].track
                   ELSE slot[x]]
    /\ GoTo(e, "saving")
    /\ UNCHANGED <<catalog, created, given, loose, enrolled>>

BugListsTwice(doc, X) == [x \in Challenges |-> IF x \in X THEN doc.lists[x] + 1
                                                ELSE doc.lists[x]]

(* The list with a challenge: an entry that is there is changed, not added. *)
With(doc, X) == [x \in Challenges |->
                    IF x \in X /\ ~Listed(doc, x) THEN 1 ELSE doc.lists[x]]

SaveAddition(e) ==
    /\ stage[e] = "saving"
    /\ SaveTrack(job[e].track, copy[e], With(copy[e], job[e].challenges), copy[e].total)
    /\ Finish(e)
    /\ UNCHANGED <<slot, created, given, enrolled>>

(* removeChallengeFromTrack: every entry of the challenge is filtered out.   *)
StartRemove(e) ==
    \E t \in Tracks, x \in Challenges :
        Begin(e, About(t, {x}), "removing", catalog[t])

Without(doc, X) == [x \in Challenges |-> IF x \in X THEN 0 ELSE doc.lists[x]]

IsEmpty(doc) == \A x \in Challenges : ~Listed(doc, x)

(* The slot is looked at only if the challenge was listed.                  *)
SaveRemoval(e) ==
    /\ stage[e] = "removing"
    /\ \/ IsEmpty(copy[e]) /\ WriteNothing
       \/ /\ ~IsEmpty(copy[e])
          /\ SaveTrack(job[e].track, copy[e], Without(copy[e], job[e].challenges),
                       copy[e].total)
    /\ \/ /\ \E x \in job[e].challenges : Listed(copy[e], x)
          /\ stage' = [stage EXCEPT ![e] = "looking"]
          /\ copy' = [copy EXCEPT ![e] = None]
          /\ UNCHANGED <<job, raced>>
       \/ /\ \A x \in job[e].challenges : ~Listed(copy[e], x)
          /\ Finish(e)
    /\ UNCHANGED <<slot, created, given, enrolled>>

(* The challenge is read: its slot is released if it is this track's.       *)
LookAtSlot(e) ==
    /\ stage[e] = "looking"
    /\ IF \A x \in job[e].challenges : slot[x] = job[e].track THEN GoTo(e, "releasing")
       ELSE Finish(e)
    /\ UNCHANGED documents

ReleaseSlot(e) ==
    /\ stage[e] = "releasing"
    /\ slot' = [x \in Challenges |-> IF x \in job[e].challenges THEN None ELSE slot[x]]
    /\ Finish(e)
    /\ UNCHANGED <<catalog, created, given, loose, enrolled>>

(* bulkCreateChallenges: the challenges are created one by one; then the     *)
(* track is read and the created ones are added to its list, whether or not  *)
(* they are there.  createChallenge is a bulk of one without a track.        *)
StartBulk(e) == \E t \in Tracks : Begin(e, About(t, {}), "creating", None)

BugResultsFirst(e) ==
    /\ stage[e] = "creating"
    /\ \E x \in Challenges \ created :
          job' = [job EXCEPT ![e].challenges = @ \cup {x}]
    /\ UNCHANGED <<documents, raced, stage, copy>>

(* One of them is saved and noted among the results.                        *)
CreateOne(e) ==
    /\ stage[e] = "creating"
    /\ \E x \in Challenges \ created :
          /\ created' = created \cup {x}
          /\ job' = [job EXCEPT ![e].challenges = @ \cup {x}]
    /\ UNCHANGED <<catalog, slot, given, loose, raced, enrolled, stage, copy>>

ReadToFill(e) ==
    /\ stage[e] = "creating"
    /\ job[e].challenges # {}
    /\ copy' = [copy EXCEPT ![e] = catalog[job[e].track]]
    /\ stage' = [stage EXCEPT ![e] = "filling"]
    /\ UNCHANGED <<documents, raced, job>>

SaveBulk(e) ==
    /\ stage[e] = "filling"
    /\ SaveTrack(job[e].track, copy[e],
                 [x \in Challenges |-> IF x \in job[e].challenges THEN copy[e].lists[x] + 1
                                       ELSE copy[e].lists[x]],
                 copy[e].total)
    /\ given' = given \cup {<<job[e].track, x>> : x \in job[e].challenges}
    /\ Finish(e)
    /\ UNCHANGED <<slot, created, enrolled>>

(* updateTrack: the list is stored as it was sent.  Nothing is checked, no   *)
(* slot is claimed or released, and the version stays.  Without a list, it  *)
(* changes nothing that is modelled.                                        *)
UpdateTrack(e) ==
    /\ stage[e] = "idle"
    /\ FewSaves
    /\ \E t \in Tracks, l \in Given :
          /\ catalog' = [catalog EXCEPT ![t].lists = l]
          /\ given' = given \cup Naming(t, l)
          /\ loose' = [loose EXCEPT ![t] =
                          @ \cup {x \in Challenges : l[x] # catalog[t].lists[x]}]
    /\ UNCHANGED <<slot, created, raced, enrolled, stage, job, copy>>

(* deleteTrack: the track is read, and saved as inactive.                   *)
StartArchive(e) == \E t \in Tracks : Begin(e, About(t, {}), "archiving", catalog[t])

SaveArchived(e) ==
    /\ stage[e] = "archiving"
    /\ \/ IsEmpty(copy[e]) /\ WriteNothing
       \/ /\ ~IsEmpty(copy[e])
          /\ SaveTrack(job[e].track, copy[e], copy[e].lists, copy[e].total)
    /\ Finish(e)
    /\ UNCHANGED <<slot, created, given, enrolled>>

-----------------------------------------------------------------------------
(* enrollInTrack: the track is read, and then the student's enrolment.      *)
StartEnroll(c) == \E t \in Tracks : Begin(c, About(t, {}), "checking", catalog[t])

Pair(c) == <<StudentOf[c], job[c].track>>

CheckEnrolled(c) ==
    /\ stage[c] = "checking"
    /\ IF Pair(c) \in enrolled THEN Finish(c) ELSE GoTo(c, "enrolling")
    /\ UNCHANGED documents

(* The enrolment is inserted, unless the unique index refuses it.           *)
InsertEnrollment(c) ==
    /\ stage[c] = "enrolling"
    /\ Pair(c) \notin enrolled
    /\ enrolled' = enrolled \cup {Pair(c)}
    /\ GoTo(c, "counting")
    /\ UNCHANGED <<catalog, slot, created, given, loose>>

(* The statistics are saved with the track, and so with its list as it was  *)
(* read.  An empty list is not written, and no version is compared.         *)
CountEnrollment(c) ==
    /\ stage[c] = "counting"
    /\ \/ /\ IsEmpty(copy[c])
          /\ catalog' = [catalog EXCEPT ![job[c].track].total = copy[c].total + 1]
          /\ UNCHANGED loose
       \/ /\ ~IsEmpty(copy[c])
          /\ SaveTrack(job[c].track, copy[c], copy[c].lists, copy[c].total + 1)
    /\ Finish(c)
    /\ UNCHANGED <<slot, created, given, enrolled>>

(* A call ends early: refused, a version or index conflict, a failed        *)
(* validation or database operation, or a restart.                          *)
Abandon(c) ==
    /\ stage[c] # "idle"
    /\ Finish(c)
    /\ UNCHANGED documents

Next ==
    \/ \E e \in Editors :
          \/ StartAdd(e) \/ CheckSlot(e) \/ Claim(e) \/ SaveAddition(e)
          \/ StartRemove(e) \/ SaveRemoval(e) \/ LookAtSlot(e) \/ ReleaseSlot(e)
          \/ StartBulk(e) \/ CreateOne(e) \/ ReadToFill(e) \/ SaveBulk(e)
          \/ UpdateTrack(e) \/ StartArchive(e) \/ SaveArchived(e)
    \/ \E c \in Enrollers :
          StartEnroll(c) \/ CheckEnrolled(c) \/ InsertEnrollment(c) \/ CountEnrollment(c)
    \/ \E c \in Calls : Abandon(c)

Spec == Init /\ [][Next]_vars

-----------------------------------------------------------------------------
EnrolledIn(t) == {u \in Students : <<u, t>> \in enrolled}

(* A track never counts more enrolments than it has, and lists a challenge   *)
(* at most once, unless a list was sent with it or it was added in bulk,     *)
(* however calls overlap and whatever fails.                                 *)
CatalogSound ==
    \A t \in Tracks :
        /\ catalog[t].total <= Cardinality(EnrolledIn(t))
        /\ \A x \in Challenges : <<t, x>> \notin given => catalog[t].lists[x] <= 1

(* A step changes the list of a track only in the challenges that the call  *)
(* it belongs to adds or removes: no save, and no enrolment, undoes what     *)
(* another call has saved meanwhile.  The list that updateTrack stores is    *)
(* the exception: it undoes saves, and the next save may undo it.            *)
NoEditLost ==
    [][\A t \in Tracks, x \in Challenges :
          catalog'[t].lists[x] # catalog[t].lists[x] =>
             \/ x \in loose[t] \cup loose'[t]
             \/ \E e \in Editors : /\ stage[e] \in {"saving", "removing", "filling"}
                                   /\ job[e].track = t
                                   /\ x \in job[e].challenges
                                   /\ stage'[e] # stage[e]]_vars

(* A challenge is listed only by the track that has claimed its slot,       *)
(* however calls about the track overlap, but for two ways around the claim: *)
(* a list that is stored without one (in bulk, or sent to createTrack or     *)
(* updateTrack), and two calls that add or remove that challenge at once,    *)
(* between whose reads and writes of the slot nothing stands.                *)
ListedIsClaimed ==
    \A t \in Tracks, x \in Challenges \ raced :
        Listed(catalog[t], x) /\ <<t, x>> \notin given => slot[x] = t
=============================================================================

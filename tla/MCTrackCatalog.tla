---------------------------- MODULE MCTrackCatalog ----------------------------
(* Values for TrackCatalog. *)
EXTENDS TrackCatalog, TLC

(* Each student has one call.                                               *)
Themselves == [c \in Enrollers |-> c]

(* No challenges, or every one twice.                                       *)
SomeLists == {[x \in Challenges |-> n] : n \in {0, 2}}

(* Tracks are alike, and so are the calls of administrators.                *)
Alike == Permutations(Tracks) \cup Permutations(Editors)

(* Bound: one list at a time that updateTrack has changed and no save has    *)
(* followed, and one pair of a track and a challenge listed without a check. *)
FewLists == /\ Cardinality({t \in Tracks : loose[t] # {}}) <= 1
            /\ Cardinality(given) <= 1
=============================================================================

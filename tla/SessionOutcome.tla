---------------------------- MODULE SessionOutcome ----------------------------
(***************************************************************************)
(* What the server promises about the fate of one test session, without    *)
(* handlers, timers or connections.  A session is graded only while it is  *)
(* in progress, and grading it creates its Result and completes it in one  *)
(* step; it may be closed without being graded; it never returns to        *)
(* inProgress.  Closing is allowed whatever the label is: a handler that   *)
(* saw the session in progress may label it expired or abandoned after     *)
(* another one has closed it.                                              *)
(***************************************************************************)
EXTENDS Naturals

VARIABLES label,   \* TestSession.status
          grades   \* how many Result documents the session has

outcomeVars == <<label, grades>>

Init == label = "inProgress" /\ grades = 0

Grade ==
    /\ label = "inProgress"
    /\ label' = "completed"
    /\ grades' = grades + 1

Close ==
    /\ label' \in {"expired", "abandoned"}
    /\ UNCHANGED grades

Next == Grade \/ Close

Spec == Init /\ [][Next]_outcomeVars
=============================================================================

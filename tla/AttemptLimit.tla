----------------------------- MODULE AttemptLimit -----------------------------
(***************************************************************************)
(* How many attempts one student gets: the sessions the student starts, the *)
(* requests for more attempts, and the overrides that requests and         *)
(* administrators write and a start reads.  They share nothing else.        *)
(***************************************************************************)
EXTENDS SessionCreation, AttemptRequests

vars == <<sessions, starts, requestVars, extra>>

TypeOK == OverrideType /\ CreationType /\ RequestsType

Init == OverrideInit /\ CreationInit /\ RequestsInit

Next == \/ CreationNext /\ UNCHANGED requestVars
        \/ RequestsNext /\ UNCHANGED <<sessions, starts>>
        \/ Administer /\ UNCHANGED <<sessions, starts, requestVars>>

Spec == Init /\ [][Next]_vars

(* When reviews do not overlap, requests are granted as AttemptAccount says, *)
(* beside the student's starts and the administrator's changes: decided      *)
(* once, granted after the approval, once at most, and in full.              *)
Account == INSTANCE AttemptAccount
              WITH account <- [t \in Tests |-> ExtraAttempts(t)]
IsAccount == Account!Spec
=============================================================================

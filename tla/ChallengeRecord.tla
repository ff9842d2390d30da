---------------------------- MODULE ChallengeRecord ----------------------------
(***************************************************************************)
(* What a student's progress on a code challenge promises: every judged    *)
(* submission is recorded once, by one more attempt in its language and in *)
(* total, and a language that is solved stays solved.                      *)
(***************************************************************************)
EXTENDS Naturals

CONSTANTS Students, Languages

VARIABLES attempts,  \* attempts of each student in each language
          total,     \* attempts of each student
          solved     \* the languages each student has solved the challenge in

recordVars == <<attempts, total, solved>>

Init == /\ attempts = [u \in Students |-> [l \in Languages |-> 0]]
        /\ total = [u \in Students |-> 0]
        /\ solved = [u \in Students |-> {}]

Record(u, l) ==
    /\ attempts' = [attempts EXCEPT ![u] = [attempts[u] EXCEPT ![l] = @ + 1]]
    /\ total' = [total EXCEPT ![u] = @ + 1]
    /\ \E passed \in {{}, {l}} :
          solved' = [solved EXCEPT ![u] = @ \cup passed]

Next == \E u \in Students, l \in Languages : Record(u, l)

Spec == Init /\ [][Next]_recordVars
=============================================================================

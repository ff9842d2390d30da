---------------------------- MODULE Questionnaire ----------------------------
(* What the questions of one session promise: the sections are worked through  *)
(* in order, and an answer is recorded or withdrawn only in the open section.  *)
EXTENDS Naturals

CONSTANTS NumSections,  \* how many sections the test has
          Questions,    \* pairs <<section, position in the section>>
          Answers,      \* what may be recorded for a question
          None          \* no answer

VARIABLES open,         \* the section the student works on
          record        \* the answer recorded for each question

vars == <<open, record>>

Init == /\ open = 0
        /\ record = [q \in Questions |-> None]

Record == \E q \in Questions, a \in Answers \cup {None} :
             /\ q[1] = open
             /\ record' = [record EXCEPT ![q] = a]
             /\ UNCHANGED open

CloseSection == /\ open + 1 < NumSections
                /\ open' = open + 1
                /\ UNCHANGED record

Next == Record \/ CloseSection

Spec == Init /\ [][Next]_vars
=============================================================================

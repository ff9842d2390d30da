---------------------------- MODULE QuestionFlow ----------------------------
(***************************************************************************)
(* The questions of one session in progress: where the student is, what is *)
(* answered, skipped and submitted, and the handlers of                    *)
(* QuestionHandlerService.  A handler finds the document, works on its     *)
(* copy without interruption and saves: save() writes the paths that differ*)
(* from what was read.  A call may arrive late or twice.                   *)
(*                                                                         *)
(* A test without sections is a test with one section that nobody submits. *)
(* View counts and times are left out.                                     *)
(***************************************************************************)
EXTENDS Naturals

CONSTANTS NumSections,  \* testSnapshot.sections.length
          Sizes,        \* how many questions each section has
          First,        \* how many questions precede each section
          UseSections,  \* testSnapshot.settings.useSections
          Calls,        \* calls that may be in progress at once
          Handlers,     \* the handlers that are called
          None,         \* studentAnswer: null
          Unplaced,     \* an answer sent without its questionIndex
          Idle          \* no handler is running

Sections == 0 .. NumSections - 1

ASSUME FlowAssumption ==
    /\ NumSections \in Nat \ {0}
    /\ Sizes \in [Sections -> Nat \ {0}]
    /\ UseSections \in BOOLEAN
    /\ ~UseSections => NumSections = 1
    /\ Handlers \subseteq {"answer", "view", "navigate", "skip", "submitSection", "review"}

(* A question is named by its section and its position there.  First is what *)
(* the loop of toGlobalIndex adds up.                                        *)
Questions == UNION {{s} \X (0 .. Sizes[s] - 1) : s \in Sections}

ASSUME FirstAssumption ==
    /\ First \in [Sections -> Nat]
    /\ First[0] = 0
    /\ \A s \in Sections : s + 1 \in Sections => First[s + 1] = First[s] + Sizes[s]

(* An answer is the question it was written for, or Unplaced.               *)
Answers == Questions \cup {Unplaced}

ASSUME AnswerAssumption == /\ None \notin Answers
                           /\ Unplaced \notin Questions

VARIABLES doc,    \* the stored session document
          calls   \* the copies of the handlers in progress: as read, as changed

vars == <<doc, calls>>

Docs == [sec       : Sections,                    \* currentSectionIndex
         idx       : Nat,                         \* currentQuestionIndex
         answer    : [Questions -> Answers \cup {None}],
         status    : [Questions -> {"not_viewed", "viewed", "answered", "skipped"}],
         section   : [Sections -> {"not_started", "in_progress", "reviewing", "submitted"}],
         answered  : SUBSET Nat,                  \* answeredQuestions
         skipped   : SUBSET Nat,                  \* skippedQuestions
         completed : SUBSET Sections,             \* completedSections
         review    : BOOLEAN]                     \* reviewPhase

Copies == [read : Docs, write : Docs]

TypeOK == /\ doc \in Docs
          /\ calls \in [Calls -> Copies \cup {Idle}]

Init == /\ doc = [sec |-> 0, idx |-> 0,
                  answer |-> [q \in Questions |-> None],
                  status |-> [q \in Questions |-> "not_viewed"],
                  section |-> [s \in Sections |-> IF s = 0 THEN "in_progress"
                                                           ELSE "not_started"],
                  answered |-> {}, skipped |-> {}, completed |-> {}, review |-> FALSE]
        /\ calls = [c \in Calls |-> Idle]

-----------------------------------------------------------------------------
(* The helpers of the service.                                              *)

Here(d) == <<d.sec, d.idx>>
InRange(d) == d.idx < Sizes[d.sec]
IsLastQuestion(d) == d.idx + 1 >= Sizes[d.sec]
BugIsLastSection(d) == d.sec >= NumSections
IsLastSection(d) == d.sec + 1 >= NumSections

BugToGlobalIndex(q) == q[2]
ToGlobalIndex(q) == First[q[1]] + q[2]

Reviewing(d) == d.review \/ (UseSections /\ d.section[d.sec] = "reviewing")

SetSectionStatus(d, status) ==
    IF UseSections THEN [d EXCEPT !.section[d.sec] = status] ELSE d

MarkViewed(d) ==
    IF InRange(d) /\ d.status[Here(d)] = "not_viewed"
    THEN [d EXCEPT !.status[Here(d)] = "viewed"]
    ELSE d

-----------------------------------------------------------------------------
(* What each handler makes of the document it read.                         *)

Stored(d, a) ==
    [d EXCEPT !.answer[Here(d)] = a,
              !.status[Here(d)] = "answered",
              !.answered = @ \cup {ToGlobalIndex(Here(d))},
              !.skipped = @ \ {ToGlobalIndex(Here(d))}]

(* submitAnswer, once the answer is stored: on to the next question, or into *)
(* the review of the section.                                                *)
Advanced(d) ==
    CASE Reviewing(d) -> d
      [] ~Reviewing(d) /\ ~IsLastQuestion(d) -> MarkViewed([d EXCEPT !.idx = @ + 1])
      [] ~Reviewing(d) /\ IsLastQuestion(d) -> SetSectionStatus(d, "reviewing")

(* navigateToQuestion takes an index of the current section.                *)
BugNavigated(d, q) == MarkViewed([d EXCEPT !.sec = q[1], !.idx = q[2]])
Navigated(d, q) == MarkViewed([d EXCEPT !.idx = q[2]])

Skipped(d) ==
    LET cleared == IF InRange(d) THEN [d EXCEPT !.answer[Here(d)] = None,
                                                !.status[Here(d)] = "skipped"]
                                 ELSE d
    IN  [cleared EXCEPT !.skipped = @ \cup {ToGlobalIndex(Here(d))},
                        !.answered = @ \ {ToGlobalIndex(Here(d))},
                        !.idx = IF IsLastQuestion(d) THEN @ ELSE @ + 1]

BugSectionSubmitted(d) ==
    IF IsLastSection(d)
    THEN [d EXCEPT !.section[d.sec] = "submitted", !.completed = @ \cup {d.sec}]
    ELSE [d EXCEPT !.section[d.sec] = "submitted",
                   !.section[d.sec + 1] = "in_progress",
                   !.sec = @ + 1]
SectionSubmitted(d) ==
    LET closed == [d EXCEPT !.section[d.sec] = "submitted",
                            !.completed = @ \cup {d.sec}]
    IN  IF IsLastSection(d) THEN closed
        ELSE [closed EXCEPT !.sec = @ + 1, !.idx = 0,
                            !.section[d.sec + 1] = "in_progress"]

ReviewStarted(d) == [SetSectionStatus(d, "reviewing") EXCEPT !.review = TRUE]

-----------------------------------------------------------------------------
(* A handler up to its save().                                              *)
Handle(c, result) == /\ calls[c] = Idle
                     /\ calls' = [calls EXCEPT ![c] = [read |-> doc, write |-> result]]
                     /\ UNCHANGED doc

(* The student may answer the questions of the sections reached so far; the  *)
(* call may arrive when the session has moved on.  `placed' says whether it  *)
(* carries its question's index, which must then be the current one.  It may *)
(* come without an answer, which stores nothing, or with null, which clears  *)
(* the answer and marks the question answered all the same.                  *)
SubmitAnswer(c) ==
    \E q \in Questions, placed \in BOOLEAN :
       /\ q[1] <= doc.sec
       /\ placed => q[2] = doc.idx
       /\ InRange(doc)
       /\ \/ Handle(c, Advanced(doc))
          \/ \E a \in {IF placed THEN q ELSE Unplaced, None} :
                Handle(c, Advanced(Stored(doc, a)))

GetCurrentQuestion(c) == InRange(doc) /\ Handle(c, MarkViewed(doc))

(* The index the client sends is that of a question it has been shown.      *)
NavigateToQuestion(c) == \E q \in Questions : /\ q[1] <= doc.sec
                                              /\ q[2] < Sizes[doc.sec]
                                              /\ Handle(c, Navigated(doc, q))

SkipQuestion(c) == Handle(c, Skipped(doc))

SubmitSection(c) == /\ UseSections
                    /\ doc.section[doc.sec] \in {"reviewing", "in_progress"}
                    /\ Handle(c, SectionSubmitted(doc))

StartSectionReview(c) == Handle(c, ReviewStarted(doc))

-----------------------------------------------------------------------------
(* save() of Mongoose: a path the handler did not change keeps what is       *)
(* stored; an element pushed to a list is added to the stored list, a list   *)
(* that lost an element is stored as a whole.                                *)
MergedPath(stored, read, written) == IF written = read THEN stored ELSE written

MergedList(stored, read, written) ==
    IF read \subseteq written THEN stored \cup (written \ read) ELSE written

Merged(d, copy) ==
    [sec       |-> MergedPath(d.sec, copy.read.sec, copy.write.sec),
     idx       |-> MergedPath(d.idx, copy.read.idx, copy.write.idx),
     answer    |-> [q \in Questions |-> MergedPath(d.answer[q], copy.read.answer[q],
                                                   copy.write.answer[q])],
     status    |-> [q \in Questions |-> MergedPath(d.status[q], copy.read.status[q],
                                                   copy.write.status[q])],
     section   |-> [s \in Sections |-> MergedPath(d.section[s], copy.read.section[s],
                                                  copy.write.section[s])],
     answered  |-> MergedList(d.answered, copy.read.answered, copy.write.answered),
     skipped   |-> MergedList(d.skipped, copy.read.skipped, copy.write.skipped),
     completed |-> MergedList(d.completed, copy.read.completed, copy.write.completed),
     review    |-> MergedPath(d.review, copy.read.review, copy.write.review)]

Save(c) == /\ calls[c] # Idle
           /\ doc' = Merged(doc, calls[c])
           /\ calls' = [calls EXCEPT ![c] = Idle]

(* The save may fail, also because another one changed the array's version  *)
(* since the read; which saves check it depends on the paths they change.   *)
SaveFails(c) == /\ calls[c] # Idle
                /\ calls' = [calls EXCEPT ![c] = Idle]
                /\ UNCHANGED doc

Next == \E c \in Calls :
           \/ "answer" \in Handlers /\ SubmitAnswer(c)
           \/ "view" \in Handlers /\ GetCurrentQuestion(c)
           \/ "navigate" \in Handlers /\ NavigateToQuestion(c)
           \/ "skip" \in Handlers /\ SkipQuestion(c)
           \/ "submitSection" \in Handlers /\ SubmitSection(c)
           \/ "review" \in Handlers /\ StartSectionReview(c)
           \/ Save(c)
           \/ SaveFails(c)

Spec == Init /\ [][Next]_vars

-----------------------------------------------------------------------------
(* An answer sent with its index is stored under that index, however the    *)
(* calls overlap: the index check of submitAnswer works on the copy whose    *)
(* question is changed.                                                      *)
AnswersKeepTheirIndex ==
    \A q \in Questions : doc.answer[q] \in Questions => doc.answer[q][2] = q[2]

(* However the calls overlap, the student is never in a section while an    *)
(* earlier one is not in completedSections.                                 *)
EarlierSectionsCompleted == \A s \in Sections : s < doc.sec => s \in doc.completed

(* When calls do not overlap: the two lists of global indices, the statuses *)
(* of the questions and the stored answers tell the same story, through all *)
(* answers, skips, returns and sections.  A question whose answer was       *)
(* cleared counts as answered; no answer is kept for any other status.      *)
Indices(d, status) == {ToGlobalIndex(q) : q \in {p \in Questions : d.status[p] = status}}

Agree(d) ==
    /\ d.answered = Indices(d, "answered")
    /\ d.skipped = Indices(d, "skipped")
    /\ \A q \in Questions : d.answer[q] # None => d.status[q] = "answered"

ListsAgree == Agree(doc)

(* When calls do not overlap: the sections before the current one are       *)
(* submitted, those after it have not been started, and the current index   *)
(* is one of the current section.                                           *)
Ordered(d) ==
    /\ \A s \in Sections : /\ s < d.sec => d.section[s] = "submitted"
                           /\ s > d.sec => d.section[s] = "not_started"
    /\ InRange(d)

SectionOrder == Ordered(doc)

(* When calls do not overlap, the session is a Questionnaire: an answer     *)
(* changes only while its section is the current one, and sections follow   *)
(* each other.                                                              *)
Paper == INSTANCE Questionnaire WITH open <- doc.sec, record <- doc.answer
IsQuestionnaire == Paper!Spec

(* An answer sent with its index reaches the question it was written for,   *)
(* late or repeated as it may be: what the index is sent for.               *)
AnswersReachTheirQuestion ==
    \A q \in Questions : doc.answer[q] \in {q, None, Unplaced}
=============================================================================

---------------------------- MODULE TestDashboard ----------------------------
(***************************************************************************)
(* A student's dashboard and the question flow it drives: TestSessionPage  *)
(* shows a question or the review of a section, each button sends one      *)
(* request, and TestSessionContext shows what the reply says.  A request or*)
(* its reply may be lost; the student then clicks something else, clicks   *)
(* again, reloads the page, or leaves it and comes back.                   *)
(*                                                                         *)
(* The server is QuestionFlow, one call per request.  Submitting and       *)
(* abandoning the test end the session, which TestSession is about.        *)
(***************************************************************************)
EXTENDS QuestionFlow

CONSTANT Hasty   \* what the student does while a request is under way

ASSUME HastyAssumption == Hasty \subseteq {"grid", "leave"}

ASSUME EveryHandler ==
    Handlers = {"answer", "view", "navigate", "skip", "submitSection", "review"}

VARIABLES screen,  \* questionState, isReviewing, submitting; whether the page shows them
          wire,    \* each request: what it asks, whether the page awaits it, its reply
          missed   \* what no reply has told the page since one was lost

dashboardVars == <<doc, calls, screen, wire, missed>>

Screens == [at : Questions \cup {None}, review : BOOLEAN,
            submitting : BOOLEAN, open : BOOLEAN]

(* A reply may tell which question the session is at, and whether it is     *)
(* under review.                                                            *)
News == {"question", "review"}

(* What a reply makes the page show: a question, the review, or the page it *)
(* already shows; with the question it is about, if it carries one.         *)
Replies == [page : {"question", "review", "same"}, at : Questions \cup {None}]

Failure == [page |-> "same", at |-> None]

Requests == [op      : {"answer", "skip", "navigate", "submitSection", "review", "view"},
             about   : Questions \cup {None},
             awaited : BOOLEAN,
             reply   : {{}} \cup {{r} : r \in Replies}]

ASSUME IdleAssumption == Idle \notin Requests

DashboardTypeOK == /\ TypeOK
                   /\ screen \in Screens
                   /\ wire \in [Calls -> Requests \cup {Idle}]
                   /\ missed \in SUBSET News

(* The state of the page belongs to the application, and the end of a test  *)
(* does not reset isReviewing: it may be left from an earlier test.         *)
DashboardInit == /\ Init
                 /\ \E left \in BOOLEAN :
                       screen = [at |-> None, review |-> left,
                                 submitting |-> FALSE, open |-> FALSE]
                 /\ wire = [c \in Calls |-> Idle]
                 /\ missed = News

-----------------------------------------------------------------------------
(* The page.                                                                *)

Request(op, q) == [op |-> op, about |-> q, awaited |-> TRUE, reply |-> {}]

Send(c, op, q) == /\ wire[c] = Idle
                  /\ wire' = [wire EXCEPT ![c] = Request(op, q)]
                  /\ screen' = [screen EXCEPT !.submitting = TRUE]
                  /\ UNCHANGED <<doc, calls, missed>>

ShowsQuestion == screen.open /\ screen.at # None /\ ~screen.review
ShowsReview == screen.open /\ screen.at # None /\ screen.review

SendAnswer(c) == /\ ShowsQuestion
                 /\ ~screen.submitting
                 /\ Send(c, "answer", screen.at)

SendSkip(c) == /\ ShowsQuestion
               /\ ~screen.submitting
               /\ Send(c, "skip", screen.at)

SendReview(c) == /\ ShowsQuestion
                 /\ ~screen.submitting
                 /\ Send(c, "review", screen.at)

(* In the last section, and without sections, the button submits the test.  *)
SendSection(c) == /\ ShowsReview
                  /\ ~screen.submitting
                  /\ UseSections
                  /\ screen.at[1] + 1 < NumSections
                  /\ Send(c, "submitSection", screen.at)

(* The overview, the previous button and the grid of the review; the grid   *)
(* is the one that stays enabled while a request is under way.              *)
PickQuestion(c) == \E q \in Questions :
    /\ ShowsQuestion \/ ShowsReview
    /\ screen.submitting => screen.review /\ "grid" \in Hasty
    /\ q[1] = screen.at[1]
    /\ Send(c, "navigate", q)

Awaits(d) == wire[d] # Idle /\ wire[d].awaited

(* A page that opens starts the test or, told that its session exists,      *)
(* rejoins it; both show the current question.  A reload loses the state    *)
(* and forgets the requests under way.                                      *)
Reload(c) == /\ \A d \in Calls : Awaits(d) => "leave" \in Hasty
             /\ wire[c] = Idle
             /\ wire' = [d \in Calls |->
                            IF d = c THEN Request("view", None)
                            ELSE IF wire[d] = Idle THEN Idle
                            ELSE [wire[d] EXCEPT !.awaited = FALSE]]
             /\ screen' = [at |-> None, review |-> FALSE,
                           submitting |-> FALSE, open |-> FALSE]
             /\ missed' = {"question"}
             /\ UNCHANGED <<doc, calls>>

(* A student who comes back from another page of the application finds the  *)
(* state as it was, once the page has opened.  (A page that is still        *)
(* opening is reloaded, never left.)                                        *)
Return(c) == /\ \A d \in Calls : Awaits(d) => /\ "leave" \in Hasty
                                             /\ wire[d].op # "view"
             /\ wire[c] = Idle
             /\ wire' = [wire EXCEPT ![c] = Request("view", None)]
             /\ screen' = [screen EXCEPT !.open = FALSE]
             /\ UNCHANGED <<doc, calls, missed>>

OpenPage(c) == Reload(c) \/ Return(c)

(* startSession and rejoinSession show a question and keep isReviewing; a   *)
(* page that fails to open shows neither.                                   *)
Opened(s, r) == IF r.at = None THEN s ELSE [s EXCEPT !.at = r.at, !.open = TRUE]

BugShown(s, op, r) ==
    IF op = "view" THEN Opened(s, r)
    ELSE [s EXCEPT !.submitting = FALSE,
                   !.at = IF r.at = None THEN @ ELSE r.at,
                   !.review = @ \/ r.page = "review"]
Shown(s, op, r) ==
    IF op = "view" THEN Opened(s, r)
    ELSE [s EXCEPT !.submitting = FALSE,
                   !.at = IF r.at = None THEN @ ELSE r.at,
                   !.review = \/ r.page = "review"
                              \/ @ /\ (r.page = "same" \/ r.at = None)]

(* What a reply tells.                                                      *)
Told(op, r) == IF r.at = None THEN {} ELSE IF op = "view" THEN {"question"} ELSE News

Receive(c) == /\ wire[c] # Idle
              /\ \E r \in wire[c].reply :
                    IF wire[c].awaited
                    THEN /\ screen' = Shown(screen, wire[c].op, r)
                         /\ missed' = missed \ Told(wire[c].op, r)
                    ELSE UNCHANGED <<screen, missed>>
              /\ wire' = [wire EXCEPT ![c] = Idle]
              /\ UNCHANGED <<doc, calls>>

(* The request or the reply is lost, and the page is told of an error.  A   *)
(* view changes nothing that the page shows.                                *)
Lose(c) == /\ wire[c] # Idle
           /\ calls[c] = Idle
           /\ IF wire[c].awaited
              THEN /\ screen' = Shown(screen, wire[c].op, Failure)
                   /\ missed' = IF wire[c].op = "view" \/ wire[c].reply = {}
                                THEN missed ELSE News
              ELSE UNCHANGED <<screen, missed>>
           /\ wire' = [wire EXCEPT ![c] = Idle]
           /\ UNCHANGED <<doc, calls>>

-----------------------------------------------------------------------------
(* The server: the handler of each request, and the reply to it.            *)

Arrived(c, op) == wire[c] # Idle /\ wire[c].op = op /\ wire[c].reply = {}

Respond(c, r) == wire' = [wire EXCEPT ![c].reply = {r}]

(* The question a document stands at, if there is one.                      *)
QuestionOf(d) == IF InRange(d) THEN Here(d) ELSE None

Serve(c, e) == Handle(c, e) /\ UNCHANGED <<screen, wire, missed>>

BugServeAnswer(c) == /\ Arrived(c, "answer")
                     /\ InRange(doc)
                     /\ Serve(c, Advanced(Stored(doc, wire[c].about)))
ServeAnswer(c) == /\ Arrived(c, "answer")
                  /\ wire[c].about[2] = doc.idx
                  /\ InRange(doc)
                  /\ Serve(c, Advanced(Stored(doc, wire[c].about)))

ServeSkip(c) == Arrived(c, "skip") /\ Serve(c, Skipped(doc))

BugServeNavigation(c) == /\ Arrived(c, "navigate")
                         /\ Serve(c, Navigated(doc, wire[c].about))
ServeNavigation(c) == /\ Arrived(c, "navigate")
                      /\ wire[c].about[2] < Sizes[doc.sec]
                      /\ Serve(c, Navigated(doc, wire[c].about))

ServeSection(c) == /\ Arrived(c, "submitSection")
                   /\ doc.section[doc.sec] \in {"reviewing", "in_progress"}
                   /\ Serve(c, SectionSubmitted(doc))

ServeReview(c) == Arrived(c, "review") /\ Serve(c, ReviewStarted(doc))

ServeView(c) == /\ Arrived(c, "view")
                /\ InRange(doc)
                /\ Serve(c, MarkViewed(doc))

(* An answer to another index is told the current question; the rest is an  *)
(* error.                                                                   *)
AnswerBehind(c) == /\ Arrived(c, "answer")
                   /\ wire[c].about[2] # doc.idx
                   /\ calls[c] = Idle
                   /\ Respond(c, [page |-> "question", at |-> QuestionOf(doc)])
                   /\ UNCHANGED <<doc, calls, screen, missed>>

Refuse(c) == /\ \/ Arrived(c, "answer") /\ wire[c].about[2] = doc.idx /\ ~InRange(doc)
                \/ Arrived(c, "navigate") /\ wire[c].about[2] >= Sizes[doc.sec]
                \/ Arrived(c, "submitSection")
                   /\ doc.section[doc.sec] \notin {"reviewing", "in_progress"}
                \/ Arrived(c, "view") /\ ~InRange(doc)
             /\ calls[c] = Idle
             /\ Respond(c, Failure)
             /\ UNCHANGED <<doc, calls, screen, missed>>

(* The action of the reply: answer_saved keeps the page; section_review,    *)
(* confirm_submit, review_started and test_complete bring the review; the   *)
(* others bring a question.                                                 *)
PageOf(op, d) ==
    CASE op = "answer" /\ Reviewing(d)        -> "same"
      [] op = "answer" /\ ~Reviewing(d)       -> IF IsLastQuestion(d) THEN "review"
                                                                      ELSE "question"
      [] op = "review"                        -> "review"
      [] op = "submitSection"                 -> IF IsLastSection(d) THEN "review"
                                                                     ELSE "question"
      [] op \in {"skip", "navigate", "view"}  -> "question"

(* test_complete after the last section comes without a question.           *)
ReplyTo(op, copy) ==
    [page |-> PageOf(op, copy.read),
     at   |-> IF op = "submitSection" /\ IsLastSection(copy.read)
              THEN None ELSE QuestionOf(copy.write)]

SaveAndReply(c) == /\ Save(c)
                   /\ Respond(c, ReplyTo(wire[c].op, calls[c]))
                   /\ UNCHANGED <<screen, missed>>

FailAndReply(c) == /\ SaveFails(c)
                   /\ Respond(c, Failure)
                   /\ UNCHANGED <<screen, missed>>

-----------------------------------------------------------------------------
Click(c) == \/ SendAnswer(c) \/ SendSkip(c) \/ SendReview(c)
            \/ SendSection(c) \/ PickQuestion(c)

Work(c) == \/ ServeAnswer(c) \/ ServeSkip(c) \/ ServeNavigation(c)
           \/ ServeSection(c) \/ ServeReview(c) \/ ServeView(c)

DashboardNext == \E c \in Calls : \/ Click(c) \/ OpenPage(c)
                                  \/ Receive(c) \/ Lose(c)
                                  \/ Work(c) \/ AnswerBehind(c) \/ Refuse(c)
                                  \/ SaveAndReply(c) \/ FailAndReply(c)

DashboardSpec == DashboardInit /\ [][DashboardNext]_dashboardVars

-----------------------------------------------------------------------------
(* For a student who waits for replies, the server is used as QuestionFlow   *)
(* assumes: no request is about a section the session has not reached,      *)
(* though requests and replies are lost and the page shows what was.        *)
ImplementsFlow == Spec

(* A student who waits for replies: the page shows the question where the   *)
(* session is unless the reply to a click was lost, until any reply shows a *)
(* question.  It shows the review only while the section is under review,   *)
(* unless it was open before such a loss, or in an earlier test, and since  *)
(* then neither was the page reloaded nor did a click bring a question.     *)
InStep == ~screen.submitting =>
             /\ "question" \notin missed => screen.at = Here(doc)
             /\ "review" \notin missed /\ screen.review /\ UseSections
                   => doc.section[doc.sec] = "reviewing"
=============================================================================

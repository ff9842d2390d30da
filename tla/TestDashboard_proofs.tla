------------------------- MODULE TestDashboard_proofs -------------------------
(***************************************************************************)
(* Proofs about TestDashboard, for tests of any shape and a student who    *)
(* waits for replies (OneAtATime): requests and replies may be lost.       *)
(***************************************************************************)
EXTENDS TestDashboard, QuestionFlow_proofs

(* What a page shows that is in step with the session.                      *)
ShowsHere(s, d) == s.at = Here(d)

ReviewHolds(s, d) == s.review /\ UseSections => d.section[d.sec] = "reviewing"

Faithful(s, d) == /\ "question" \notin missed => ShowsHere(s, d)
                  /\ "review" \notin missed => ReviewHolds(s, d)

(* A question that is shown is one of the current section; a review may be  *)
(* of an earlier one.  An open page that may show another question than the *)
(* session's may show a review that is over, too.                           *)
PageInv ==
  /\ screen.at # None => /\ screen.at[1] <= doc.sec
                         /\ ~screen.review => screen.at[1] = doc.sec
  /\ screen.open /\ "question" \in missed => "review" \in missed

(* What a reply will make of the page: one that comes with a question       *)
(* brings the page in step, but for the review when the page opens.         *)
Informs(op, r) ==
  /\ r.at # None => /\ r.at = Here(doc)
                    /\ op # "view" => ReviewHolds(Shown(screen, op, r), doc)
  /\ r.at = None => r = Failure \/ missed = News

(* The page has not changed since it sent its request.                      *)
RequestInv ==
  \A c \in Calls : wire[c] # Idle =>
     /\ wire[c].awaited
     /\ wire[c].op # "view" => screen.submitting
     /\ wire[c].op \in {"answer", "skip", "review"} => ShowsQuestion
     /\ wire[c].op = "answer" => wire[c].about = screen.at
     /\ wire[c].op = "navigate" => wire[c].about # None /\ wire[c].about[1] <= doc.sec
     /\ wire[c].op = "submitSection" => /\ ShowsReview
                                        /\ UseSections
                                        /\ screen.at[1] + 1 < NumSections
     /\ \A r \in wire[c].reply : Informs(wire[c].op, r)

(* What a handler is about to store: only submitSection leaves the section, *)
(* answers reach their questions, and the review is what the reply says.    *)
Written(op, copy) ==
  /\ op # "submitSection" => copy.write.sec = copy.read.sec
  /\ \A q \in Questions : copy.write.answer[q] \in {q, None, Unplaced}
  /\ PageOf(op, copy.read) = "review" /\ op # "submitSection" /\ UseSections
        => copy.write.section[copy.write.sec] = "reviewing"
  /\ op = "view" => /\ copy.write.idx = copy.read.idx
                    /\ copy.write.section = copy.read.section

CallInv ==
  \A c \in Calls : calls[c] # Idle =>
     /\ wire[c] # Idle
     /\ wire[c].reply = {}
     /\ Written(wire[c].op, calls[c])

(* Until a reply is lost, or one has come that the page has yet to show, the *)
(* page is in step.                                                         *)
SteadyInv ==
  (\A c \in Calls : wire[c] # Idle /\ wire[c].op # "view" => wire[c].reply \subseteq {Failure})
     => Faithful(screen, doc)

DashboardInv == /\ DashboardTypeOK
                /\ AloneInv
                /\ PageInv
                /\ RequestInv
                /\ CallInv
                /\ SteadyInv
                /\ AnswersReachTheirQuestion

-----------------------------------------------------------------------------
(* What the handlers are about to store. *)

LEMMA StateFacts ==
  ASSUME DashboardInv
  PROVE  /\ doc \in Docs
         /\ InRange(doc)
         /\ QuestionOf(doc) = Here(doc)
         /\ Here(doc) \in Questions
         /\ Here(doc)[1] = doc.sec /\ Here(doc)[2] = doc.idx
         /\ doc.sec \in Nat
<1>1. doc \in Docs /\ InRange(doc)
  BY DEF DashboardInv, AloneInv, TypeOK, Ordered
<1> QED BY <1>1, HereFacts, SectionFacts DEF QuestionOf

LEMMA RequestFacts ==
  ASSUME DashboardInv, NEW c \in Calls, wire[c] # Idle
  PROVE  /\ wire[c] \in Requests
         /\ screen \in Screens
         /\ screen.at # None => screen.at \in Questions
         /\ screen.at # None => screen.at[1] \in Nat
<1>1. wire \in [Calls -> Requests \cup {Idle}] /\ screen \in Screens
  BY DEF DashboardInv, DashboardTypeOK
<1> QED BY <1>1, QuestionFacts, SectionFacts DEF Screens

(* The review of a section, if the handler brings it, is stored.            *)
LEMMA AdvancedReview ==
  ASSUME NEW d \in Docs, NEW a \in Answers \cup {None}, InRange(d), UseSections,
         ~Reviewing(d), IsLastQuestion(d)
  PROVE  Advanced(Stored(d, a)).section[d.sec] = "reviewing"
<1> DEFINE t == Stored(d, a)
<1>1. t \in Docs /\ t.sec = d.sec /\ t.idx = d.idx /\ t.section = d.section
  BY StoredEffect
<1>2. t.review = d.review
  BY DEF Stored, Docs
<1>3. Advanced(t) = Advanced(Stored(d, a)) /\ d.sec \in Sections
  BY HereFacts
<1> HIDE DEF t
<1>4. ~Reviewing(t) /\ IsLastQuestion(t)
  BY <1>1, <1>2 DEF Reviewing, IsLastQuestion
<1>5. Advanced(t) = SetSectionStatus(t, "reviewing")
  BY <1>4 DEF Advanced
<1> QED BY <1>1, <1>3, <1>5 DEF SetSectionStatus, Docs

LEMMA ServedAnswer ==
  ASSUME DashboardInv, NEW c \in Calls, ServeAnswer(c)
  PROVE  LET e == Advanced(Stored(doc, wire[c].about))
         IN  /\ wire[c].about = Here(doc)
             /\ Outcome(doc, e)
             /\ Written("answer", [read |-> doc, write |-> e])
<1> DEFINE a == wire[c].about
           e == Advanced(Stored(doc, a))
<1>0. wire[c] # Idle /\ wire[c].op = "answer" /\ a[2] = doc.idx
  BY DEF ServeAnswer, Arrived
<1>1. a = Here(doc)
  <2>1. ShowsQuestion /\ a = screen.at
    BY <1>0 DEF DashboardInv, RequestInv
  <2>2. a \in Questions /\ a[1] = doc.sec
    BY <1>0, <2>1, RequestFacts DEF DashboardInv, PageInv, ShowsQuestion
  <2> QED BY <1>0, <2>2, QuestionFacts DEF Here
<1>2. /\ doc \in Docs /\ InRange(doc) /\ a \in Questions /\ a \in Answers \cup {None}
      /\ a[2] = doc.idx
  BY <1>0, <1>1, StateFacts DEF Answers
<1>3. Outcome(doc, e)
  BY <1>2 DEF Outcome
<1> DEFINE t == Stored(doc, a)
<1>4. t \in Docs /\ t.sec = doc.sec /\ t.answer = [doc.answer EXCEPT ![Here(doc)] = a]
  BY <1>2, StoredEffect
<1>5. e.sec = doc.sec /\ e.answer = [doc.answer EXCEPT ![Here(doc)] = a]
  <2> HIDE DEF t
  <2>1. Advanced(t).sec = t.sec /\ Advanced(t).answer = t.answer
    BY <1>4, AdvancedEffect DEF Relabelled, Looked
  <2> QED BY <1>4, <2>1 DEF t
<1>6. ~Reviewing(doc) /\ IsLastQuestion(doc) /\ UseSections
         => e.section[doc.sec] = "reviewing"
  BY <1>2, AdvancedReview
<1> HIDE DEF a, e
<1>7. \A q \in Questions : e.answer[q] \in {q, None, Unplaced}
  <2>1. \A q \in Questions : doc.answer[q] \in {q, None, Unplaced}
    BY DEF DashboardInv, AnswersReachTheirQuestion
  <2>2. doc.answer \in [Questions -> Answers \cup {None}]
    BY <1>2 DEF Docs
  <2> QED BY <1>1, <1>5, <2>1, <2>2
<1>8. Written("answer", [read |-> doc, write |-> e])
  BY <1>5, <1>6, <1>7 DEF Written, PageOf
<1> QED BY <1>1, <1>3, <1>8 DEF e, a

(* Handlers that leave the section and the answers, or clear one.           *)
LEMMA WrittenQuietly ==
  ASSUME DashboardInv, NEW e \in Docs, NEW op \in {"skip", "navigate"},
         e.sec = doc.sec,
         \A q \in Questions : e.answer[q] \in {doc.answer[q], None}
  PROVE  Written(op, [read |-> doc, write |-> e])
BY DEF Written, PageOf, DashboardInv, AnswersReachTheirQuestion

LEMMA ServedOther ==
  ASSUME DashboardInv, NEW c \in Calls, NEW e,
         \/ ServeSkip(c) /\ e = Skipped(doc)
         \/ ServeNavigation(c) /\ e = Navigated(doc, wire[c].about)
         \/ ServeView(c) /\ e = MarkViewed(doc)
         \/ ServeReview(c) /\ e = ReviewStarted(doc)
         \/ ServeSection(c) /\ e = SectionSubmitted(doc)
  PROVE  Outcome(doc, e) /\ Written(wire[c].op, [read |-> doc, write |-> e])
<1>0. doc \in Docs /\ InRange(doc)
  BY StateFacts
<1>a. \A q \in Questions : doc.answer[q] \in {q, None, Unplaced}
  BY DEF DashboardInv, AnswersReachTheirQuestion
<1>1. CASE ServeSkip(c) /\ e = Skipped(doc)
  <2>1. /\ e \in Docs /\ e.sec = doc.sec
        /\ e.answer = [doc.answer EXCEPT ![Here(doc)] = None]
    BY <1>0, <1>1, SkippedEffect
  <2>2. doc.answer \in [Questions -> Answers \cup {None}]
    BY <1>0 DEF Docs
  <2>3. \A q \in Questions : e.answer[q] \in {doc.answer[q], None}
    BY <2>1, <2>2
  <2>4. wire[c].op = "skip"
    BY <1>1 DEF ServeSkip, Arrived
  <2> QED BY <1>1, <2>1, <2>3, <2>4, WrittenQuietly DEF Outcome
<1>2. CASE ServeNavigation(c) /\ e = Navigated(doc, wire[c].about)
  <2>1. /\ wire[c] # Idle /\ wire[c].op = "navigate"
        /\ wire[c].about[2] < Sizes[doc.sec]
    BY <1>2 DEF ServeNavigation, Arrived
  <2>2. wire[c].about \in Questions
    BY <2>1, RequestFacts DEF DashboardInv, RequestInv, Requests
  <2>3. Looked(doc, e)
    BY <1>0, <1>2, <2>2, MovedEffect, QuestionFacts DEF Navigated
  <2>4. Written("navigate", [read |-> doc, write |-> e])
    BY <2>3, WrittenQuietly DEF Looked
  <2> QED BY <1>2, <2>1, <2>2, <2>4 DEF Outcome
<1>3. CASE ServeView(c) /\ e = MarkViewed(doc)
  <2>1. Looked(doc, e)
    BY <1>0, <1>3, MarkViewedEffect
  <2>2. wire[c].op = "view"
    BY <1>3 DEF ServeView, Arrived
  <2>3. Written("view", [read |-> doc, write |-> e])
    BY <1>0, <1>3, <1>a, <2>1, MarkViewedEffect DEF Written, PageOf, Looked
  <2> QED BY <1>0, <1>3, <2>2, <2>3 DEF Outcome
<1>4. CASE ServeReview(c) /\ e = ReviewStarted(doc)
  <2>1. Relabelled(doc, e)
    BY <1>0, <1>4, ReviewEffect
  <2>2. wire[c].op = "review"
    BY <1>4 DEF ServeReview, Arrived
  <2>3. UseSections => e.section[doc.sec] = "reviewing"
    BY <1>0, <1>4, HereFacts DEF ReviewStarted, SetSectionStatus, Docs
  <2>4. Written("review", [read |-> doc, write |-> e])
    BY <1>a, <2>1, <2>3 DEF Written, Relabelled
  <2> QED BY <1>4, <2>2, <2>4 DEF Outcome
<1>5. CASE ServeSection(c) /\ e = SectionSubmitted(doc)
  <2>1. /\ wire[c].op = "submitSection"
        /\ doc.section[doc.sec] \in {"reviewing", "in_progress"}
    BY <1>5 DEF ServeSection, Arrived
  <2>2. e.answer = doc.answer
    BY <1>0, <1>5, SubmittedEffect
  <2>3. Written("submitSection", [read |-> doc, write |-> e])
    BY <1>a, <2>2 DEF Written
  <2> QED BY <1>5, <2>1, <2>3 DEF Outcome
<1> QED BY <1>1, <1>2, <1>3, <1>4, <1>5

LEMMA Served ==
  ASSUME DashboardInv, NEW c \in Calls, Work(c)
  PROVE  \E e : /\ Serve(c, e)
                /\ wire[c] # Idle /\ wire[c].reply = {}
                /\ Outcome(doc, e)
                /\ Written(wire[c].op, [read |-> doc, write |-> e])
<1>1. wire[c] # Idle /\ wire[c].reply = {}
  BY DEF Work, ServeAnswer, ServeSkip, ServeNavigation, ServeSection, ServeReview,
         ServeView, Arrived
<1>2. CASE ServeAnswer(c)
  <2>1. wire[c].op = "answer"
    BY <1>2 DEF ServeAnswer, Arrived
  <2> QED BY <1>1, <1>2, <2>1, ServedAnswer DEF ServeAnswer
<1>3. CASE ServeSkip(c)
  BY <1>1, <1>3, ServedOther DEF ServeSkip
<1>4. CASE ServeNavigation(c)
  BY <1>1, <1>4, ServedOther DEF ServeNavigation
<1>5. CASE ServeSection(c)
  BY <1>1, <1>5, ServedOther DEF ServeSection
<1>6. CASE ServeReview(c)
  BY <1>1, <1>6, ServedOther DEF ServeReview
<1>7. CASE ServeView(c)
  BY <1>1, <1>7, ServedOther DEF ServeView
<1> QED BY <1>2, <1>3, <1>4, <1>5, <1>6, <1>7 DEF Work

-----------------------------------------------------------------------------
(* The steps of the page. *)

LEMMA OneCall ==
  ASSUME OneAtATime, NEW c \in Calls
  PROVE  \A d \in Calls : d = c
BY DEF OneAtATime

LEMMA Untouched ==
  ASSUME DashboardInv, UNCHANGED <<doc, calls>>
  PROVE  AloneInv' /\ TypeOK' /\ AnswersReachTheirQuestion'
<1>1. AloneInv' /\ TypeOK'
  BY QuietAlone DEF DashboardInv, vars, AloneInv
<1>2. AnswersReachTheirQuestion'
  BY DEF DashboardInv, AnswersReachTheirQuestion
<1> QED BY <1>1, <1>2

Operations == {"answer", "skip", "navigate", "submitSection", "review", "view"}

(* What the page must show for it to send a request.                        *)
Fitting(op, q) ==
  /\ op \in {"answer", "skip", "review"} => ShowsQuestion
  /\ op = "answer" => q = screen.at
  /\ op = "navigate" => q # None /\ q[1] <= doc.sec
  /\ op = "submitSection" => /\ ShowsReview
                             /\ UseSections
                             /\ screen.at[1] + 1 < NumSections

LEMMA Sending ==
  ASSUME DashboardInv, OneAtATime, NEW c \in Calls, NEW op \in Operations,
         NEW q \in Questions \cup {None}, Fitting(op, q), Send(c, op, q)
  PROVE  DashboardInv'
<1>1. /\ wire \in [Calls -> Requests \cup {Idle}] /\ screen \in Screens
      /\ missed \in SUBSET News /\ wire[c] = Idle /\ calls[c] = Idle
  BY DEF DashboardInv, DashboardTypeOK, CallInv, Send
<1>2. Request(op, q) \in Requests
  BY DEF Request, Requests, Operations
<1>3. /\ wire'[c] = Request(op, q)
      /\ wire' \in [Calls -> Requests \cup {Idle}]
      /\ screen' = [screen EXCEPT !.submitting = TRUE]
      /\ UNCHANGED <<doc, calls, missed>>
  BY <1>1, <1>2 DEF Send
<1>4. AloneInv' /\ TypeOK' /\ AnswersReachTheirQuestion'
  BY <1>3, Untouched
<1>5. /\ screen' \in Screens /\ screen'.submitting
      /\ screen'.at = screen.at /\ screen'.review = screen.review
      /\ screen'.open = screen.open
  BY <1>1, <1>3 DEF Screens
<1>6. DashboardTypeOK'
  BY <1>1, <1>3, <1>4, <1>5 DEF DashboardTypeOK
<1>7. PageInv'
  BY <1>3, <1>5 DEF DashboardInv, PageInv
<1>8. RequestInv'
  <2>1. wire'[c].op = op /\ wire'[c].about = q /\ wire'[c].awaited /\ wire'[c].reply = {}
    BY <1>3 DEF Request
  <2> QED BY <1>3, <1>5, <2>1, OneCall DEF RequestInv, Fitting, ShowsQuestion, ShowsReview
<1>9. CallInv'
  BY <1>1, <1>3, OneCall DEF CallInv
<1>10. SteadyInv'
  <2>1. \A d \in Calls : wire[d] = Idle
    BY <1>1, OneCall
  <2>2. Faithful(screen, doc)
    BY <2>1 DEF DashboardInv, SteadyInv
  <2> QED BY <1>3, <1>5, <2>2 DEF SteadyInv, Faithful, ShowsHere, ReviewHolds, Here
<1> QED BY <1>4, <1>6, <1>7, <1>8, <1>9, <1>10 DEF DashboardInv

LEMMA Clicking ==
  ASSUME DashboardInv, OneAtATime, NEW c \in Calls, Click(c)
  PROVE  DashboardInv'
<1>0. /\ screen \in Screens
      /\ screen.at # None => /\ screen.at \in Questions
                             /\ screen.at[1] <= doc.sec
  BY DEF DashboardInv, DashboardTypeOK, PageInv, Screens
<1>1. CASE SendAnswer(c)
  <2>1. ShowsQuestion /\ Send(c, "answer", screen.at)
    BY <1>1 DEF SendAnswer
  <2> QED BY <1>0, <2>1, Sending DEF Fitting, Operations, ShowsQuestion
<1>2. CASE SendSkip(c)
  <2>1. ShowsQuestion /\ Send(c, "skip", screen.at)
    BY <1>2 DEF SendSkip
  <2> QED BY <1>0, <2>1, Sending DEF Fitting, Operations, ShowsQuestion
<1>3. CASE SendReview(c)
  <2>1. ShowsQuestion /\ Send(c, "review", screen.at)
    BY <1>3 DEF SendReview
  <2> QED BY <1>0, <2>1, Sending DEF Fitting, Operations, ShowsQuestion
<1>4. CASE SendSection(c)
  <2>1. /\ ShowsReview /\ UseSections /\ screen.at[1] + 1 < NumSections
        /\ Send(c, "submitSection", screen.at)
    BY <1>4 DEF SendSection
  <2>2. screen.at \in Questions
    BY <1>0, <2>1 DEF ShowsReview
  <2>3. Fitting("submitSection", screen.at)
    BY <2>1 DEF Fitting
  <2>4. "submitSection" \in Operations
    BY DEF Operations
  <2> QED BY <2>1, <2>2, <2>3, <2>4, Sending
<1>5. CASE PickQuestion(c)
  <2>1. PICK q \in Questions : screen.at # None /\ q[1] = screen.at[1] /\ Send(c, "navigate", q)
    BY <1>5 DEF PickQuestion, ShowsQuestion, ShowsReview
  <2>2. q # None
    BY AnswerAssumption DEF Answers
  <2>3. Fitting("navigate", q)
    BY <1>0, <2>1, <2>2 DEF Fitting
  <2>4. "navigate" \in Operations
    BY DEF Operations
  <2> QED BY <2>1, <2>3, <2>4, Sending
<1> QED BY <1>1, <1>2, <1>3, <1>4, <1>5 DEF Click

LEMMA Opening ==
  ASSUME DashboardInv, OneAtATime, NEW c \in Calls, OpenPage(c)
  PROVE  DashboardInv'
<1>1. /\ wire \in [Calls -> Requests \cup {Idle}] /\ wire[c] = Idle /\ calls[c] = Idle
      /\ screen \in Screens /\ missed \in SUBSET News
  BY DEF DashboardInv, DashboardTypeOK, CallInv, OpenPage, Reload, Return
<1>2. Request("view", None) \in Requests
  BY DEF Request, Requests
<1>3. /\ wire' = [d \in Calls |-> Request("view", None)]
      /\ UNCHANGED <<doc, calls>>
  BY <1>1, OneCall DEF OpenPage, Reload, Return
<1>4. \A d \in Calls : wire[d] = Idle
  BY <1>1, OneCall
<1>5. Faithful(screen, doc)
  BY <1>4 DEF DashboardInv, SteadyInv
<1>6. /\ screen' \in Screens /\ missed' \in SUBSET News
      /\ PageInv' /\ SteadyInv'
  <2>1. CASE Reload(c)
    <3>1. /\ screen' = [at |-> None, review |-> FALSE, submitting |-> FALSE, open |-> FALSE]
          /\ missed' = {"question"}
      BY <2>1 DEF Reload
    <3> QED BY <3>1 DEF Screens, News, PageInv, SteadyInv, Faithful, ReviewHolds
  <2>2. CASE Return(c)
    <3>1. screen' = [screen EXCEPT !.open = FALSE] /\ missed' = missed
      BY <2>2 DEF Return
    <3>2. /\ screen' \in Screens /\ ~screen'.open
          /\ screen'.at = screen.at /\ screen'.review = screen.review
      BY <1>1, <3>1 DEF Screens
    <3>3. PageInv'
      BY <1>3, <3>1, <3>2 DEF DashboardInv, PageInv
    <3>4. SteadyInv'
      BY <1>3, <1>5, <3>1, <3>2 DEF SteadyInv, Faithful, ShowsHere, ReviewHolds, Here
    <3> QED BY <1>1, <3>1, <3>2, <3>3, <3>4
  <2> QED BY <2>1, <2>2 DEF OpenPage
<1>7. AloneInv' /\ TypeOK' /\ AnswersReachTheirQuestion'
  BY <1>3, Untouched
<1>8. DashboardTypeOK'
  BY <1>2, <1>3, <1>6, <1>7 DEF DashboardTypeOK
<1>9. RequestInv'
  BY <1>3 DEF RequestInv, Request
<1>10. CallInv'
  BY <1>1, <1>3, OneCall DEF CallInv
<1> QED BY <1>6, <1>7, <1>8, <1>9, <1>10 DEF DashboardInv

(* The request is over.                                                     *)
LEMMA Finishing ==
  ASSUME DashboardInv, OneAtATime, NEW c \in Calls, wire[c] # Idle, calls[c] = Idle,
         UNCHANGED <<doc, calls>>, wire' = [wire EXCEPT ![c] = Idle],
         screen' \in Screens, missed' \in SUBSET News,
         PageInv', Faithful(screen, doc)'
  PROVE  DashboardInv'
<1>1. wire \in [Calls -> Requests \cup {Idle}]
  BY DEF DashboardInv, DashboardTypeOK
<1>2. wire' \in [Calls -> Requests \cup {Idle}] /\ \A d \in Calls : wire'[d] = Idle
  BY <1>1, OneCall
<1>3. AloneInv' /\ TypeOK' /\ AnswersReachTheirQuestion'
  BY Untouched
<1>4. DashboardTypeOK'
  BY <1>2, <1>3 DEF DashboardTypeOK
<1>5. RequestInv'
  BY <1>2 DEF RequestInv
<1>6. CallInv'
  BY OneCall DEF CallInv
<1>7. SteadyInv'
  BY DEF SteadyInv
<1> QED BY <1>3, <1>4, <1>5, <1>6, <1>7 DEF DashboardInv

(* What the page shows after a reply, and a failure leaves.                 *)
LEMMA ShownFacts ==
  ASSUME NEW s \in Screens, NEW op, NEW r \in Replies
  PROVE  LET t == Shown(s, op, r)
         IN  /\ t \in Screens
             /\ t.at = IF r.at = None THEN s.at ELSE r.at
             /\ op # "view" => t.open = s.open
             /\ op = "view" => t.review = s.review
             /\ op = "view" /\ r.at = None => t = s
             /\ r.at = None => t.open = s.open /\ (s.review => t.review)
             /\ r = Failure => t.review = s.review
<1>1. CASE op = "view"
  BY <1>1 DEF Screens, Replies, Shown, Opened, Failure
<1>2. CASE op # "view"
  <2>1. Shown(s, op, r) = [at         |-> IF r.at = None THEN s.at ELSE r.at,
                           review     |-> \/ r.page = "review"
                                          \/ s.review /\ (r.page = "same" \/ r.at = None),
                           submitting |-> FALSE,
                           open       |-> s.open]
    BY <1>2 DEF Screens, Shown
  <2>2. /\ s.review \in BOOLEAN /\ s.open \in BOOLEAN
        /\ s.at \in Questions \cup {None} /\ r.at \in Questions \cup {None}
    BY DEF Screens, Replies
  <2>3. Shown(s, op, r) \in Screens
    BY <2>1, <2>2 DEF Screens
  <2>4. r = Failure => r.page = "same" /\ r.at = None
    BY DEF Failure
  <2> DEFINE t == Shown(s, op, r)
  <2>5. /\ t.at = IF r.at = None THEN s.at ELSE r.at
        /\ t.open = s.open
        /\ t.review <=> \/ r.page = "review"
                        \/ s.review /\ (r.page = "same" \/ r.at = None)
    BY <2>1
  <2>6. t.review \in BOOLEAN
    BY <2>3 DEF Screens
  <2>7. r = Failure => t.review = s.review
    BY <2>2, <2>4, <2>5, <2>6
  <2> HIDE DEF t
  <2>8. /\ t \in Screens
        /\ t.at = IF r.at = None THEN s.at ELSE r.at
        /\ t.open = s.open
        /\ r.at = None => t.open = s.open /\ (s.review => t.review)
        /\ r = Failure => t.review = s.review
    BY <2>3, <2>5, <2>7 DEF t
  <2> QED BY <1>2, <2>8 DEF t
<1> QED BY <1>1, <1>2

LEMMA Receiving ==
  ASSUME DashboardInv, OneAtATime, NEW c \in Calls, Receive(c)
  PROVE  DashboardInv'
<1> DEFINE op == wire[c].op
<1>1. /\ wire[c] # Idle /\ wire[c] \in Requests /\ wire[c].awaited
      /\ screen \in Screens /\ missed \in SUBSET News
      /\ UNCHANGED <<doc, calls>> /\ wire' = [wire EXCEPT ![c] = Idle]
  BY DEF DashboardInv, DashboardTypeOK, RequestInv, Receive
<1>2. PICK r \in wire[c].reply : /\ screen' = Shown(screen, op, r)
                                 /\ missed' = missed \ Told(op, r)
  BY <1>1 DEF Receive
<1>3. r \in Replies /\ wire[c].reply = {r}
  BY <1>1, <1>2 DEF Requests
<1>4. Informs(op, r)
  BY <1>1, <1>2 DEF DashboardInv, RequestInv
<1>5. calls[c] = Idle
  BY <1>3 DEF DashboardInv, CallInv
<1>6. op = "view" => Faithful(screen, doc)
  BY OneCall DEF DashboardInv, SteadyInv
<1>7. r = Failure => Faithful(screen, doc)
  BY <1>3, OneCall DEF DashboardInv, SteadyInv
<1>8. doc.sec \in Nat /\ Here(doc)[1] = doc.sec /\ Here(doc)' = Here(doc)
  BY <1>1, StateFacts DEF Here
<1> HIDE DEF op
<1>9. /\ screen' \in Screens /\ missed' \in SUBSET News
      /\ screen'.at = IF r.at = None THEN screen.at ELSE r.at
      /\ op # "view" => screen'.open = screen.open
      /\ op = "view" => screen'.review = screen.review
      /\ op = "view" /\ r.at = None => screen' = screen
      /\ r.at = None => /\ screen'.open = screen.open
                        /\ screen.review => screen'.review
      /\ r = Failure => screen'.review = screen.review
  BY <1>1, <1>2, <1>3, ShownFacts DEF Told
<1>10. CASE r.at # None
  <2>1. screen'.at = Here(doc) /\ "question" \notin missed'
    BY <1>2, <1>4, <1>9, <1>10 DEF Informs, Told, News
  <2>2. PageInv'
    BY <1>1, <1>8, <2>1 DEF PageInv
  <2>3. "review" \notin missed' => ReviewHolds(screen', doc)
    <3>1. CASE op = "view"
      <4>1. missed' = missed \ {"question"}
        BY <1>2, <1>10, <3>1 DEF Told
      <4> QED BY <1>6, <1>9, <3>1, <4>1 DEF Faithful, ReviewHolds
    <3>2. CASE op # "view"
      BY <1>2, <1>4, <1>10, <3>2 DEF Informs
    <3> QED BY <3>1, <3>2
  <2>4. Faithful(screen, doc)'
    BY <1>1, <1>8, <2>1, <2>3 DEF Faithful, ShowsHere, ReviewHolds
  <2> QED BY <1>1, <1>5, <1>9, <2>2, <2>4, Finishing
<1>11. CASE r.at = None
  <2>1. missed' = missed /\ screen'.at = screen.at
    BY <1>2, <1>9, <1>11 DEF Told
  <2>2. PageInv'
    BY <1>1, <1>9, <1>11, <2>1 DEF DashboardInv, PageInv
  <2>3. Faithful(screen, doc)'
    <3>1. CASE op = "view" \/ r = Failure
      BY <1>1, <1>6, <1>7, <1>8, <1>9, <1>11, <2>1, <3>1
         DEF Faithful, ShowsHere, ReviewHolds
    <3>2. CASE op # "view" /\ r # Failure
      BY <1>4, <1>11, <2>1, <3>2 DEF Informs, Faithful, News
    <3> QED BY <3>1, <3>2
  <2> QED BY <1>1, <1>5, <1>9, <2>2, <2>3, Finishing
<1> QED BY <1>10, <1>11

LEMMA Losing ==
  ASSUME DashboardInv, OneAtATime, NEW c \in Calls, Lose(c)
  PROVE  DashboardInv'
<1>1. /\ wire[c] # Idle /\ wire[c].awaited /\ calls[c] = Idle
      /\ screen \in Screens /\ missed \in SUBSET News
  BY DEF DashboardInv, DashboardTypeOK, RequestInv, Lose
<1>2. /\ screen' = Shown(screen, wire[c].op, Failure)
      /\ missed' = IF wire[c].op = "view" \/ wire[c].reply = {} THEN missed ELSE News
      /\ UNCHANGED <<doc, calls>> /\ wire' = [wire EXCEPT ![c] = Idle]
  BY <1>1 DEF Lose
<1>3. Failure \in Replies /\ Failure.at = None
  BY DEF Replies, Failure
<1>4. /\ screen' \in Screens /\ missed' \in SUBSET News
      /\ screen'.at = screen.at /\ screen'.review = screen.review
      /\ screen'.open = screen.open
  BY <1>1, <1>2, <1>3, ShownFacts
<1>5. PageInv'
  BY <1>2, <1>4 DEF DashboardInv, PageInv, News
<1>6. Faithful(screen, doc)'
  <2>1. CASE wire[c].op = "view" \/ wire[c].reply = {}
    <3>1. Faithful(screen, doc)
      BY <2>1, OneCall DEF DashboardInv, SteadyInv
    <3> QED BY <1>2, <1>4, <2>1, <3>1 DEF Faithful, ShowsHere, ReviewHolds, Here
  <2>2. CASE ~(wire[c].op = "view" \/ wire[c].reply = {})
    BY <1>2, <2>2 DEF Faithful, News
  <2> QED BY <2>1, <2>2
<1> QED BY <1>1, <1>2, <1>4, <1>5, <1>6, Finishing

-----------------------------------------------------------------------------
(* The steps of the server. *)

(* A handler that works on its copy is one of QuestionFlow's.               *)
LEMMA Working ==
  ASSUME DashboardInv, OneAtATime, NEW c \in Calls, Work(c)
  PROVE  DashboardInv'
<1>1. PICK e : /\ Serve(c, e)
               /\ wire[c] # Idle /\ wire[c].reply = {}
               /\ Outcome(doc, e)
               /\ Written(wire[c].op, [read |-> doc, write |-> e])
  BY Served
<1>2. /\ calls \in [Calls -> Copies \cup {Idle}] /\ doc' = doc
      /\ calls' = [calls EXCEPT ![c] = [read |-> doc, write |-> e]]
      /\ UNCHANGED <<screen, wire, missed>>
  BY <1>1 DEF Serve, Handle, DashboardInv, AloneInv, TypeOK
<1>3. AloneInv' /\ TypeOK'
  BY <1>1, HandleAlone DEF Serve, DashboardInv, AloneInv
<1>4. DashboardTypeOK' /\ PageInv' /\ AnswersReachTheirQuestion'
  BY <1>2, <1>3 DEF DashboardInv, DashboardTypeOK, PageInv, AnswersReachTheirQuestion
<1>5. RequestInv'
  BY <1>2 DEF DashboardInv, RequestInv, Informs, ReviewHolds, Here, ShowsQuestion, ShowsReview
<1>6. CallInv'
  <2>1. calls'[c] = [read |-> doc, write |-> e]
    BY <1>2
  <2>2. ASSUME NEW d \in Calls
        PROVE  wire'[d] # Idle /\ wire'[d].reply = {} /\ Written(wire'[d].op, calls'[d])
    <3>1. d = c
      BY OneCall
    <3> QED BY <1>1, <1>2, <2>1, <3>1
  <2>3. \A d \in Calls : /\ wire'[d] # Idle /\ wire'[d].reply = {}
                         /\ Written(wire[d].op, calls[d])'
    BY <2>2 DEF Written, PageOf, Reviewing, IsLastQuestion, IsLastSection
  <2> QED BY <2>3 DEF CallInv
<1>7. SteadyInv'
  BY <1>2 DEF DashboardInv, SteadyInv, Faithful, ShowsHere, ReviewHolds, Here
<1> QED BY <1>3, <1>4, <1>5, <1>6, <1>7 DEF DashboardInv

(* The server is done with a request, and the reply is r.                   *)
LEMMA Responding ==
  ASSUME DashboardInv, OneAtATime, NEW c \in Calls, wire[c] # Idle, wire[c].reply = {},
         NEW r \in Replies, Respond(c, r), UNCHANGED <<screen, missed>>,
         calls'[c] = Idle, AloneInv', AnswersReachTheirQuestion', PageInv',
         doc.sec <= doc'.sec, doc'.sec \in Nat,
         wire[c].op = "view" => Here(doc)' = Here(doc) /\ doc'.section = doc.section,
         r.at # None => r.at = Here(doc)',
         r.at # None /\ wire[c].op # "view"
            => ReviewHolds(Shown(screen, wire[c].op, r), doc'),
         r.at = None => r = Failure \/ missed = News,
         r = Failure => doc' = doc
  PROVE  DashboardInv'
<1>1. /\ wire \in [Calls -> Requests \cup {Idle}] /\ wire[c] \in Requests
      /\ screen \in Screens /\ doc.sec \in Nat
  BY StateFacts DEF DashboardInv, DashboardTypeOK
<1>2. /\ wire'[c] = [wire[c] EXCEPT !.reply = {r}]
      /\ [wire[c] EXCEPT !.reply = {r}] \in Requests
      /\ wire' \in [Calls -> Requests \cup {Idle}]
  BY <1>1 DEF Respond, Requests
<1>3. /\ wire'[c].op = wire[c].op /\ wire'[c].about = wire[c].about
      /\ wire'[c].awaited = wire[c].awaited /\ wire'[c].reply = {r}
      /\ wire'[c] # Idle
  BY <1>1, <1>2, IdleAssumption DEF Requests
<1>4. DashboardTypeOK'
  BY <1>2 DEF DashboardInv, DashboardTypeOK, AloneInv
<1>5. RequestInv'
  <2>1. ASSUME NEW d \in Calls, wire'[d] # Idle
        PROVE  /\ wire'[d].awaited
               /\ wire'[d].op # "view" => screen'.submitting
               /\ wire'[d].op \in {"answer", "skip", "review"} => ShowsQuestion'
               /\ wire'[d].op = "answer" => wire'[d].about = screen'.at
               /\ wire'[d].op = "navigate" => wire'[d].about # None /\ wire'[d].about[1] <= doc'.sec
               /\ wire'[d].op = "submitSection" => /\ ShowsReview'
                                                   /\ UseSections
                                                   /\ screen'.at[1] + 1 < NumSections
               /\ \A s \in wire'[d].reply : Informs(wire[d].op, s)'
    <3>1. d = c
      BY OneCall
    <3>2. wire[c].op = "navigate" => wire[c].about # None /\ wire[c].about[1] <= doc'.sec
      <4>1. wire[c].op = "navigate" => wire[c].about # None /\ wire[c].about[1] <= doc.sec
        BY DEF DashboardInv, RequestInv
      <4>2. wire[c].about # None => wire[c].about[1] \in Nat
        BY <1>1, QuestionFacts, SectionFacts DEF Requests
      <4> QED BY <1>1, <4>1, <4>2
    <3>3. /\ wire[c].awaited
          /\ wire[c].op # "view" => screen.submitting
          /\ wire[c].op \in {"answer", "skip", "review"} => ShowsQuestion
          /\ wire[c].op = "answer" => wire[c].about = screen.at
          /\ wire[c].op = "submitSection" => /\ ShowsReview
                                             /\ UseSections
                                             /\ screen.at[1] + 1 < NumSections
      BY DEF DashboardInv, RequestInv
    <3>4. ShowsQuestion' = ShowsQuestion /\ ShowsReview' = ShowsReview
      BY DEF ShowsQuestion, ShowsReview
    <3>5. \A s \in wire'[c].reply : Informs(wire[c].op, s)'
      <4>1. \A s \in wire'[c].reply : s = r
        BY <1>3
      <4>2. Informs(wire[c].op, r)'
        BY <1>3 DEF Informs, ReviewHolds
      <4> QED BY <4>1, <4>2
    <3> QED BY <1>3, <3>1, <3>2, <3>3, <3>4, <3>5
  <2> QED BY <2>1 DEF RequestInv, Informs
<1>6. CallInv'
  BY OneCall DEF CallInv
<1>7. SteadyInv'
  <2>1. SUFFICES ASSUME \A d \in Calls : wire'[d] # Idle /\ wire'[d].op # "view"
                             => wire'[d].reply \subseteq {Failure}
                 PROVE  Faithful(screen, doc)'
    BY DEF SteadyInv
  <2>2. Faithful(screen, doc)
    BY OneCall DEF DashboardInv, SteadyInv
  <2>3. CASE wire[c].op = "view"
    <3>1. Here(doc)' = Here(doc) /\ doc'.sec = doc.sec /\ doc'.section = doc.section
      BY <2>3 DEF Here
    <3> QED BY <2>2, <3>1 DEF Faithful, ShowsHere, ReviewHolds
  <2>4. CASE wire[c].op # "view"
    <3>1. doc' = doc
      BY <1>3, <2>1, <2>4
    <3> QED BY <2>2, <3>1 DEF Faithful, ShowsHere, ReviewHolds, Here
  <2> QED BY <2>3, <2>4
<1> QED BY <1>4, <1>5, <1>6, <1>7 DEF DashboardInv

(* A reply without a call of a handler.                                     *)
LEMMA Answering ==
  ASSUME DashboardInv, OneAtATime, NEW c \in Calls, AnswerBehind(c) \/ Refuse(c)
  PROVE  DashboardInv'
<1>1. /\ wire[c] # Idle /\ wire[c].reply = {} /\ calls[c] = Idle
      /\ UNCHANGED <<doc, calls, screen, missed>>
  BY DEF AnswerBehind, Refuse, Arrived
<1>2. /\ AloneInv' /\ AnswersReachTheirQuestion' /\ PageInv' /\ calls'[c] = Idle
      /\ doc.sec <= doc'.sec /\ doc'.sec \in Nat
  <2>1. doc.sec \in Nat /\ AloneInv' /\ AnswersReachTheirQuestion'
    BY <1>1, Untouched, StateFacts
  <2>2. PageInv'
    BY <1>1 DEF DashboardInv, PageInv
  <2> QED BY <1>1, <2>1, <2>2
<1>3. CASE AnswerBehind(c)
  <2> DEFINE r == [page |-> "question", at |-> QuestionOf(doc)]
  <2>1. Respond(c, r) /\ r \in Replies /\ r.at # None /\ r.at = Here(doc)
    BY <1>3, StateFacts, AnswerAssumption DEF AnswerBehind, Replies, Answers
  <2>2. wire[c].op = "answer" /\ r # Failure
    BY <1>3, <2>1 DEF AnswerBehind, Arrived, Failure
  <2>3. ~screen.review
    BY <1>1, <2>2 DEF DashboardInv, RequestInv, ShowsQuestion
  <2>4. screen \in Screens /\ r.page = "question"
    BY DEF DashboardInv, DashboardTypeOK
  <2> HIDE DEF r
  <2>5. ~Shown(screen, wire[c].op, r).review
    BY <2>2, <2>3, <2>4 DEF Shown, Screens
  <2>6. ReviewHolds(Shown(screen, wire[c].op, r), doc')
    BY <2>5 DEF ReviewHolds
  <2>7. r.at = Here(doc)'
    BY <1>1, <2>1 DEF Here
  <2> QED BY <1>1, <1>2, <2>1, <2>2, <2>6, <2>7, Responding
<1>4. CASE Refuse(c)
  <2>1. Respond(c, Failure) /\ Failure \in Replies /\ Failure.at = None
    BY <1>4 DEF Refuse, Replies, Failure
  <2>2. Here(doc)' = Here(doc) /\ doc'.section = doc.section
    BY <1>1 DEF Here
  <2> QED BY <1>1, <1>2, <2>1, <2>2, Responding
<1> QED BY <1>3, <1>4

LEMMA Failing ==
  ASSUME DashboardInv, OneAtATime, NEW c \in Calls, FailAndReply(c)
  PROVE  DashboardInv'
<1>1. /\ calls[c] # Idle /\ doc' = doc /\ UNCHANGED <<screen, missed>>
      /\ Respond(c, Failure)
      /\ SaveFails(c)
  BY DEF FailAndReply, SaveFails
<1>2. /\ wire[c] # Idle /\ wire[c].reply = {} /\ calls'[c] = Idle
  BY <1>1 DEF DashboardInv, CallInv, SaveFails, AloneInv, TypeOK
<1>3. AloneInv' /\ AnswersReachTheirQuestion' /\ PageInv'
  BY <1>1, QuietAlone DEF DashboardInv, PageInv, AnswersReachTheirQuestion
<1>4. doc.sec <= doc'.sec /\ doc'.sec \in Nat
  BY <1>1, StateFacts
<1>5. Failure \in Replies /\ Failure.at = None
  BY DEF Replies, Failure
<1>6. Here(doc)' = Here(doc) /\ doc'.section = doc.section
  BY <1>1 DEF Here
<1> QED BY <1>1, <1>2, <1>3, <1>4, <1>5, <1>6, Responding

(* The reply to a handler that has saved its copy shows what it stored.     *)
LEMMA Saving ==
  ASSUME DashboardInv, OneAtATime, NEW c \in Calls, SaveAndReply(c)
  PROVE  DashboardInv'
<1> DEFINE op == wire[c].op
           w == calls[c].write
           r == ReplyTo(op, calls[c])
<1>1. /\ calls[c] # Idle /\ Save(c) /\ Respond(c, r) /\ UNCHANGED <<screen, missed>>
  BY DEF SaveAndReply, Save
<1>2. /\ wire[c] # Idle /\ wire[c].reply = {} /\ wire[c] \in Requests
      /\ Written(op, calls[c]) /\ screen \in Screens
  BY <1>1 DEF DashboardInv, DashboardTypeOK, CallInv
<1>3. /\ calls[c] = [read |-> doc, write |-> w] /\ w \in Docs /\ doc \in Docs
      /\ Ordered(w) /\ PaperMove(doc, w)
  BY <1>1 DEF DashboardInv, AloneInv, TypeOK, Copies
<1>4. doc' = w /\ calls'[c] = Idle
  BY <1>1, <1>3, MergedFresh DEF Save, DashboardInv, AloneInv, TypeOK
<1>5. AloneInv'
  BY <1>1, SaveAlone DEF DashboardInv
<1>6. /\ op # "submitSection" => w.sec = doc.sec
      /\ \A q \in Questions : w.answer[q] \in {q, None, Unplaced}
      /\ PageOf(op, doc) = "review" /\ op # "submitSection" /\ UseSections
            => w.section[w.sec] = "reviewing"
  BY <1>2, <1>3 DEF Written
<1>7. AnswersReachTheirQuestion'
  BY <1>4, <1>6 DEF AnswersReachTheirQuestion
<1>8. /\ QuestionOf(w) = Here(w) /\ Here(w) \in Questions /\ Here(w) # None
      /\ Here(w)[1] = w.sec /\ w.sec \in Nat /\ doc.sec \in Nat
  BY <1>3, HereFacts, SectionFacts, AnswerAssumption DEF QuestionOf, Ordered, Answers
<1>9. doc.sec <= w.sec
  BY <1>3, <1>8 DEF PaperMove
<1>10. PageInv'
  <2>1. op = "submitSection" => ShowsReview
    BY <1>2 DEF DashboardInv, RequestInv
  <2>2. screen.at # None => screen.at[1] \in Nat /\ screen.at[1] <= doc.sec
    BY <1>2, RequestFacts DEF DashboardInv, PageInv
  <2>3. screen.at # None => screen.at[1] <= w.sec
    BY <1>8, <1>9, <2>2
  <2>4. screen.at # None /\ ~screen.review => screen.at[1] = w.sec
    BY <1>6, <2>1 DEF DashboardInv, PageInv, ShowsReview
  <2> QED BY <1>1, <1>4, <2>3, <2>4 DEF DashboardInv, PageInv
<1>11. op \in {"answer", "skip", "navigate", "submitSection", "review", "view"}
  BY <1>2 DEF Requests
<1>12. PageOf(op, doc) \in {"question", "review", "same"}
  BY <1>11 DEF PageOf
<1>13. r = [page |-> PageOf(op, doc),
            at   |-> IF op = "submitSection" /\ IsLastSection(doc) THEN None ELSE Here(w)]
  BY <1>3, <1>8 DEF ReplyTo
<1>14. r \in Replies
  BY <1>8, <1>12, <1>13 DEF Replies
<1>15. r.at = None => missed = News
  <2>1. SUFFICES ASSUME r.at = None PROVE missed = News
    OBVIOUS
  <2>2. op = "submitSection" /\ IsLastSection(doc)
    BY <1>8, <1>13, <2>1
  <2>3. screen.at[1] + 1 < NumSections /\ screen.open
    BY <1>2, <2>2 DEF DashboardInv, RequestInv, ShowsReview
  <2>4. "question" \in missed
    <3>1. SUFFICES ASSUME "question" \notin missed PROVE FALSE
      OBVIOUS
    <3>2. Faithful(screen, doc)
      BY <1>2, OneCall DEF DashboardInv, SteadyInv
    <3>3. screen.at[1] = doc.sec
      BY <3>1, <3>2, StateFacts DEF Faithful, ShowsHere
    <3> QED BY <1>8, <2>2, <2>3, <3>3, FlowAssumption DEF IsLastSection
  <2>5. missed \in SUBSET News /\ "review" \in missed
    BY <2>3, <2>4 DEF DashboardInv, DashboardTypeOK, PageInv
  <2> QED BY <2>4, <2>5 DEF News
<1>16. r.at # None => r.at = Here(w) /\ (op # "view" => ReviewHolds(Shown(screen, op, r), w))
  <2> SUFFICES ASSUME r.at # None
               PROVE  r.at = Here(w) /\ (op # "view" => ReviewHolds(Shown(screen, op, r), w))
    OBVIOUS
  <2>1. ~(op = "submitSection" /\ IsLastSection(doc)) /\ r.at = Here(w)
    BY <1>13
  <2>2. r.page = PageOf(op, doc)
    BY <1>13
  <2> HIDE DEF r
  <2>3. r.page = "review" /\ UseSections => w.section[w.sec] = "reviewing"
    BY <1>6, <1>11, <2>1, <2>2 DEF PageOf
  <2>4. r.page = "same" => ~screen.review
    <3>1. r.page = "same" => op = "answer"
      BY <1>11, <2>2 DEF PageOf
    <3>2. op = "answer" => ~screen.review
      BY <1>2 DEF DashboardInv, RequestInv, ShowsQuestion
    <3> QED BY <3>1, <3>2
  <2>5. ASSUME op # "view" PROVE ReviewHolds(Shown(screen, op, r), w)
    <3>1. Shown(screen, op, r).review => r.page = "review"
      BY <1>2, <2>4, <2>5 DEF Shown, Screens
    <3> QED BY <2>3, <3>1 DEF ReviewHolds
  <2> QED BY <2>1, <2>5
<1>17. r.at # None => r.at = Here(doc)'
  BY <1>4, <1>16 DEF Here
<1>18. op = "view" => Here(doc)' = Here(doc) /\ doc'.section = doc.section
  <2>1. op = "view" => w.sec = doc.sec /\ w.idx = doc.idx /\ w.section = doc.section
    BY <1>2, <1>3 DEF Written
  <2> QED BY <1>4, <2>1 DEF Here
<1>19. r # Failure
  <2>1. r.at = None => r.page = "review"
    BY <1>8, <1>13, <1>11 DEF PageOf
  <2> HIDE DEF r
  <2> QED BY <2>1 DEF Failure
<1>20. /\ r.at = None => r = Failure \/ missed = News
       /\ r = Failure => doc' = doc
       /\ r.at # None /\ op # "view" => ReviewHolds(Shown(screen, op, r), doc')
  BY <1>4, <1>15, <1>16, <1>19
<1> HIDE DEF r, w
<1> QED BY <1>1, <1>2, <1>4, <1>5, <1>7, <1>8, <1>9, <1>10, <1>14, <1>17, <1>18, <1>20,
           Responding

-----------------------------------------------------------------------------
LEMMA DashboardStarts == DashboardInit => DashboardInv
<1> SUFFICES ASSUME DashboardInit PROVE DashboardInv
  OBVIOUS
<1>1. AloneInv /\ TypeOK
  BY InitAlone DEF DashboardInit, AloneInv
<1>2. /\ screen \in Screens /\ screen.at = None
      /\ \A c \in Calls : wire[c] = Idle
      /\ \A c \in Calls : calls[c] = Idle
      /\ missed = News
      /\ \A q \in Questions : doc.answer[q] = None
  BY DEF DashboardInit, Init, Screens
<1>3. DashboardTypeOK
  BY <1>1, <1>2 DEF DashboardInit, DashboardTypeOK
<1> QED BY <1>1, <1>2, <1>3
     DEF DashboardInv, PageInv, RequestInv, CallInv, SteadyInv, Faithful, News,
         AnswersReachTheirQuestion

LEMMA DashboardSteps ==
  ASSUME DashboardInv, OneAtATime, [DashboardNext]_dashboardVars
  PROVE  DashboardInv'
<1>1. CASE UNCHANGED dashboardVars
  <2>1. AloneInv' /\ TypeOK' /\ AnswersReachTheirQuestion'
    BY <1>1, Untouched DEF dashboardVars
  <2>2. UNCHANGED <<doc, calls, screen, wire, missed>>
    BY <1>1 DEF dashboardVars
  <2>3. DashboardTypeOK' /\ PageInv' /\ SteadyInv'
    BY <2>1, <2>2 DEF DashboardInv, DashboardTypeOK, PageInv, SteadyInv,
                       Faithful, ShowsHere, ReviewHolds, Here
  <2>4. RequestInv'
    BY <2>2 DEF DashboardInv, RequestInv, Informs, ReviewHolds, Here, ShowsQuestion, ShowsReview
  <2>5. CallInv'
    BY <2>2 DEF DashboardInv, CallInv, Written, PageOf, Reviewing, IsLastQuestion, IsLastSection
  <2> QED BY <2>1, <2>3, <2>4, <2>5 DEF DashboardInv
<1>2. CASE DashboardNext
  <2>1. PICK c \in Calls : \/ Click(c) \/ OpenPage(c) \/ Receive(c) \/ Lose(c)
                           \/ Work(c) \/ AnswerBehind(c) \/ Refuse(c)
                           \/ SaveAndReply(c) \/ FailAndReply(c)
    BY <1>2 DEF DashboardNext
  <2> QED BY <2>1, Clicking, Opening, Receiving, Losing, Working, Answering, Saving, Failing
<1> QED BY <1>1, <1>2

LEMMA DashboardInvariant ==
  ASSUME OneAtATime
  PROVE  DashboardSpec => []DashboardInv
<1>1. DashboardInv /\ [DashboardNext]_dashboardVars => DashboardInv'
  BY DashboardSteps
<1> QED BY <1>1, DashboardStarts, PTL DEF DashboardSpec

(* A request that is served is a call of QuestionFlow.                      *)
LEMMA ServingIsAFlowStep ==
  ASSUME DashboardInv, NEW c \in Calls, Work(c)
  PROVE  Next
<1>0. InRange(doc) /\ doc.sec \in Nat
  BY StateFacts
<1>1. CASE ServeAnswer(c)
  <2> DEFINE q == wire[c].about
  <2>1. /\ q = Here(doc) /\ q \in Questions /\ q[1] = doc.sec /\ q[2] = doc.idx
    BY <1>1, ServedAnswer, StateFacts
  <2>2. Handle(c, Advanced(Stored(doc, q)))
    BY <1>1 DEF ServeAnswer, Serve
  <2>3. q[1] <= doc.sec
    BY <1>0, <2>1
  <2> HIDE DEF q
  <2>4. SubmitAnswer(c)
    <3>1. q \in {IF TRUE THEN q ELSE Unplaced, None}
      OBVIOUS
    <3> QED BY <1>0, <2>1, <2>2, <2>3, <3>1 DEF SubmitAnswer
  <2> QED BY <2>4, EveryHandler DEF Next
<1>2. CASE ServeSkip(c)
  BY <1>2, EveryHandler DEF ServeSkip, Serve, SkipQuestion, Next
<1>3. CASE ServeNavigation(c)
  <2>1. /\ wire[c] # Idle /\ wire[c].op = "navigate"
        /\ wire[c].about[2] < Sizes[doc.sec]
        /\ Handle(c, Navigated(doc, wire[c].about))
    BY <1>3 DEF ServeNavigation, Arrived, Serve
  <2>2. wire[c].about \in Questions /\ wire[c].about[1] <= doc.sec
    BY <2>1, RequestFacts DEF DashboardInv, RequestInv, Requests
  <2>3. NavigateToQuestion(c)
    BY <2>1, <2>2 DEF NavigateToQuestion
  <2> QED BY <2>3, EveryHandler DEF Next
<1>4. CASE ServeSection(c)
  <2>1. UseSections
    BY <1>4 DEF ServeSection, Arrived, DashboardInv, RequestInv
  <2>2. SubmitSection(c)
    BY <1>4, <2>1 DEF ServeSection, Serve, SubmitSection
  <2> QED BY <2>2, EveryHandler DEF Next
<1>5. CASE ServeReview(c)
  BY <1>5, EveryHandler DEF ServeReview, Serve, StartSectionReview, Next
<1>6. CASE ServeView(c)
  BY <1>6, EveryHandler DEF ServeView, Serve, GetCurrentQuestion, Next
<1> QED BY <1>1, <1>2, <1>3, <1>4, <1>5, <1>6 DEF Work

LEMMA DashboardFlows ==
  ASSUME DashboardInv, [DashboardNext]_dashboardVars
  PROVE  [Next]_vars
<1>1. CASE UNCHANGED dashboardVars
  BY <1>1 DEF dashboardVars, vars
<1>2. ASSUME NEW c \in Calls, \/ Click(c) \/ OpenPage(c) \/ Receive(c) \/ Lose(c)
                              \/ AnswerBehind(c) \/ Refuse(c)
      PROVE  UNCHANGED vars
  BY <1>2 DEF Click, SendAnswer, SendSkip, SendReview, SendSection, PickQuestion, Send,
              OpenPage, Reload, Return, Receive, Lose, AnswerBehind, Refuse, vars
<1>3. ASSUME NEW c \in Calls, SaveAndReply(c) \/ FailAndReply(c)
      PROVE  Next
  BY <1>3 DEF SaveAndReply, FailAndReply, Next
<1> QED BY <1>1, <1>2, <1>3, ServingIsAFlowStep DEF DashboardNext

(* One request at a time: whatever the page shows and however requests and  *)
(* replies are lost, it uses the server as QuestionFlow assumes.            *)
THEOREM DashboardImplementsFlow ==
  ASSUME OneAtATime
  PROVE  DashboardSpec => ImplementsFlow
<1>1. DashboardInit => Init
  BY DEF DashboardInit
<1>2. DashboardInv /\ [DashboardNext]_dashboardVars => [Next]_vars
  BY DashboardFlows
<1> QED BY <1>1, <1>2, DashboardInvariant, PTL DEF DashboardSpec, ImplementsFlow, Spec

(* One request at a time: every answer is stored for the question the       *)
(* student was shown, after lost replies too.                               *)
THEOREM AnswersReachTheirQuestions ==
  ASSUME OneAtATime
  PROVE  DashboardSpec => []AnswersReachTheirQuestion
<1>1. DashboardInv => AnswersReachTheirQuestion
  BY DEF DashboardInv
<1> QED BY <1>1, DashboardInvariant, PTL

(* One request at a time: unless the reply to a click was lost, the page    *)
(* shows where the session is; and it shows the review of a section that is *)
(* not under review only if it was left from before such a loss, or from an *)
(* earlier test.                                                            *)
THEOREM PageStaysInStep ==
  ASSUME OneAtATime
  PROVE  DashboardSpec => []InStep
<1>1. DashboardInv => InStep
  <2> SUFFICES ASSUME DashboardInv, ~screen.submitting PROVE Faithful(screen, doc)
    BY DEF InStep, Faithful, ShowsHere, ReviewHolds
  <2>1. \A c \in Calls : wire[c] # Idle => wire[c].op = "view"
    BY DEF DashboardInv, RequestInv
  <2> QED BY <2>1 DEF DashboardInv, SteadyInv
<1> QED BY <1>1, DashboardInvariant, PTL

(* One request at a time: the session, the page and the requests have their *)
(* types.                                                                   *)
THEOREM DashboardTypes ==
  ASSUME OneAtATime
  PROVE  DashboardSpec => []DashboardTypeOK
<1>1. DashboardInv => DashboardTypeOK
  BY DEF DashboardInv
<1> QED BY <1>1, DashboardInvariant, PTL

(* One request at a time: the page and the server together are a            *)
(* Questionnaire, as the server is.                                         *)
THEOREM DashboardIsQuestionnaire ==
  ASSUME OneAtATime
  PROVE  DashboardSpec => IsQuestionnaire
BY DashboardImplementsFlow, FlowImplementsQuestionnaire, PTL DEF ImplementsFlow
==============================================================================

------------------------- MODULE QuestionFlow_proofs -------------------------
(***************************************************************************)
(* Proofs about QuestionFlow, for tests of any shape.  The first part      *)
(* holds however the calls overlap, the second when there is one at a time.*)
(***************************************************************************)
EXTENDS QuestionFlow, TLAPS, WellFoundedInduction

-----------------------------------------------------------------------------
(* Questions and their global indices. *)

LEMMA SectionFacts == /\ Sections \subseteq Nat
                      /\ 0 \in Sections
                      /\ \A s \in Sections : Sizes[s] \in Nat \ {0} /\ First[s] \in Nat
                      /\ \A s \in Sections : s + 1 < NumSections => s + 1 \in Sections
BY FlowAssumption, FirstAssumption DEF Sections

LEMMA QuestionFacts ==
  /\ \A s \in Sections, i \in Nat : i < Sizes[s] <=> <<s, i>> \in Questions
  /\ \A q \in Questions : /\ q = <<q[1], q[2]>>
                          /\ q[1] \in Sections
                          /\ q[2] \in Nat
                          /\ q[2] < Sizes[q[1]]
<1>1. \A s \in Sections : Sizes[s] \in Nat
  BY SectionFacts
<1>2. ASSUME NEW s \in Sections, NEW i \in Nat
      PROVE  i < Sizes[s] <=> <<s, i>> \in Questions
  <2>1. i < Sizes[s] <=> <<s, i>> \in {s} \X (0 .. Sizes[s] - 1)
    BY <1>1
  <2>2. ASSUME NEW t \in Sections, <<s, i>> \in {t} \X (0 .. Sizes[t] - 1)
        PROVE  t = s
    BY <2>2
  <2> QED BY <2>1, <2>2 DEF Questions
<1>3. ASSUME NEW q \in Questions
      PROVE  /\ q = <<q[1], q[2]>>
             /\ q[1] \in Sections
             /\ q[2] \in Nat
             /\ q[2] < Sizes[q[1]]
  <2>1. PICK s \in Sections : q \in {s} \X (0 .. Sizes[s] - 1)
    BY DEF Questions
  <2> QED BY <2>1, <1>1
<1> QED BY <1>2, <1>3

(* The sections do not share global indices: by induction on the later one.  *)
LEMMA FirstGrows ==
  \A t \in Sections : \A s \in Sections : s < t => First[s] + Sizes[s] <= First[t]
<1> DEFINE Good(t) == \A s \in Sections : s < t => First[s] + Sizes[s] <= First[t]
           Wrong == {t \in Sections : ~Good(t)}
<1>1. SUFFICES ASSUME Wrong # {} PROVE FALSE
  OBVIOUS
<1>2. Wrong \subseteq Nat
  BY SectionFacts
<1>3. PICK t \in Wrong : \A u \in Wrong : ~(<<u, t>> \in OpToRel(<, Nat))
  <2> HIDE DEF Wrong
  <2> QED BY <1>1, <1>2, WFMin, NatLessThanWellFounded
<1>4. PICK s \in Sections : s < t /\ ~(First[s] + Sizes[s] <= First[t])
  OBVIOUS
<1>5. t \in Nat /\ s \in Nat /\ t - 1 \in Nat /\ t - 1 \in Sections /\ (t - 1) + 1 = t
  BY <1>4, SectionFacts, FlowAssumption DEF Sections
<1>6. t - 1 \notin Wrong
  <2>1. t - 1 \in Wrong => <<t - 1, t>> \in OpToRel(<, Nat)
    BY <1>5 DEF OpToRel
  <2> QED BY <2>1, <1>3
<1>7. First[t] = First[t - 1] + Sizes[t - 1]
  <2>1. t \in Sections
    OBVIOUS
  <2> QED BY <2>1, <1>5, FirstAssumption
<1>8. CASE s = t - 1
  BY <1>8, <1>7, <1>4, <1>5, SectionFacts
<1>9. CASE s < t - 1
  BY <1>9, <1>6, <1>7, <1>4, <1>5, SectionFacts
<1> QED BY <1>8, <1>9, <1>4, <1>5

LEMMA GlobalIndexFacts ==
  /\ \A q \in Questions : ToGlobalIndex(q) \in Nat
  /\ \A p, q \in Questions : ToGlobalIndex(p) = ToGlobalIndex(q) => p = q
<1>1. ASSUME NEW q \in Questions PROVE ToGlobalIndex(q) \in Nat
  BY QuestionFacts, SectionFacts DEF ToGlobalIndex
<1>2. ASSUME NEW p \in Questions, NEW q \in Questions,
             ToGlobalIndex(p) = ToGlobalIndex(q), p[1] < q[1]
      PROVE  FALSE
  <2>1. First[p[1]] + Sizes[p[1]] <= First[q[1]]
    BY <1>2, FirstGrows, QuestionFacts
  <2> QED BY <2>1, <1>2, QuestionFacts, SectionFacts DEF ToGlobalIndex
<1>3. ASSUME NEW p \in Questions, NEW q \in Questions,
             ToGlobalIndex(p) = ToGlobalIndex(q)
      PROVE  p = q
  <2>1. p[1] = q[1]
    BY <1>2, <1>3, QuestionFacts, SectionFacts
  <2>2. p[2] = q[2]
    BY <2>1, <1>3, QuestionFacts, SectionFacts DEF ToGlobalIndex
  <2> QED BY <2>1, <2>2, QuestionFacts
<1> QED BY <1>1, <1>3

-----------------------------------------------------------------------------
(* What the handlers do to a document, field by field. *)

LEMMA HereFacts ==
  ASSUME NEW d \in Docs
  PROVE  /\ d.sec \in Sections
         /\ d.idx \in Nat
         /\ InRange(d) <=> Here(d) \in Questions
         /\ Here(d)[1] = d.sec
         /\ Here(d)[2] = d.idx
         /\ ToGlobalIndex(Here(d)) \in Nat
BY QuestionFacts, SectionFacts DEF Docs, InRange, Here, ToGlobalIndex

(* The student is somewhere else in the section, or has seen a question.    *)
Looked(d, e) ==
  /\ e \in Docs
  /\ e.sec = d.sec
  /\ e.answer = d.answer
  /\ e.section = d.section
  /\ e.answered = d.answered
  /\ e.skipped = d.skipped
  /\ e.completed = d.completed
  /\ \A q \in Questions : \/ e.status[q] = d.status[q]
                          \/ d.status[q] = "not_viewed" /\ e.status[q] = "viewed"

LEMMA MarkViewedEffect ==
  ASSUME NEW d \in Docs
  PROVE  Looked(d, MarkViewed(d)) /\ MarkViewed(d).idx = d.idx
BY HereFacts DEF MarkViewed, Looked, Docs

LEMMA MovedEffect ==
  ASSUME NEW d \in Docs, NEW i \in Nat
  PROVE  /\ Looked(d, MarkViewed([d EXCEPT !.idx = i]))
         /\ MarkViewed([d EXCEPT !.idx = i]).idx = i
<1> DEFINE m == [d EXCEPT !.idx = i]
<1>1. m \in Docs /\ m.idx = i
  BY DEF Docs
<1>2. /\ m.sec = d.sec /\ m.answer = d.answer /\ m.status = d.status
      /\ m.section = d.section /\ m.answered = d.answered
      /\ m.skipped = d.skipped /\ m.completed = d.completed
  BY DEF Docs
<1> HIDE DEF m
<1>3. Looked(m, MarkViewed(m)) /\ MarkViewed(m).idx = m.idx
  BY <1>1, MarkViewedEffect
<1>4. Looked(d, MarkViewed(m)) /\ MarkViewed(m).idx = i
  BY <1>1, <1>2, <1>3 DEF Looked
<1> QED BY <1>4 DEF m

LEMMA StoredEffect ==
  ASSUME NEW d \in Docs, InRange(d), NEW a \in Answers \cup {None}
  PROVE  LET e == Stored(d, a)
         IN  /\ e \in Docs
             /\ e.sec = d.sec
             /\ e.idx = d.idx
             /\ e.answer = [d.answer EXCEPT ![Here(d)] = a]
             /\ e.status = [d.status EXCEPT ![Here(d)] = "answered"]
             /\ e.section = d.section
             /\ e.answered = d.answered \cup {ToGlobalIndex(Here(d))}
             /\ e.skipped = d.skipped \ {ToGlobalIndex(Here(d))}
             /\ e.completed = d.completed
BY HereFacts DEF Stored, Docs

LEMMA SkippedEffect ==
  ASSUME NEW d \in Docs
  PROVE  LET e == Skipped(d)
         IN  /\ e \in Docs
             /\ e.sec = d.sec
             /\ e.idx = IF IsLastQuestion(d) THEN d.idx ELSE d.idx + 1
             /\ e.answer = IF InRange(d) THEN [d.answer EXCEPT ![Here(d)] = None]
                                         ELSE d.answer
             /\ e.status = IF InRange(d) THEN [d.status EXCEPT ![Here(d)] = "skipped"]
                                         ELSE d.status
             /\ e.section = d.section
             /\ e.answered = d.answered \ {ToGlobalIndex(Here(d))}
             /\ e.skipped = d.skipped \cup {ToGlobalIndex(Here(d))}
             /\ e.completed = d.completed
<1> DEFINE g == ToGlobalIndex(Here(d))
           i == IF IsLastQuestion(d) THEN d.idx ELSE d.idx + 1
           cleared == IF InRange(d) THEN [d EXCEPT !.answer[Here(d)] = None,
                                                   !.status[Here(d)] = "skipped"]
                                    ELSE d
           lists == [cleared EXCEPT !.skipped = @ \cup {g}, !.answered = @ \ {g}, !.idx = i]
<1>1. /\ cleared \in Docs
      /\ cleared.sec = d.sec
      /\ cleared.idx = d.idx
      /\ cleared.answer = IF InRange(d) THEN [d.answer EXCEPT ![Here(d)] = None]
                                        ELSE d.answer
      /\ cleared.status = IF InRange(d) THEN [d.status EXCEPT ![Here(d)] = "skipped"]
                                        ELSE d.status
      /\ cleared.section = d.section
      /\ cleared.answered = d.answered
      /\ cleared.skipped = d.skipped
      /\ cleared.completed = d.completed
  BY HereFacts DEF Docs
<1>2. i \in Nat /\ g \in Nat
  BY HereFacts
<1>3. Skipped(d) = lists
  BY <1>1 DEF Skipped, Docs
<1> HIDE DEF cleared, g, i
<1>4. /\ lists \in Docs
      /\ lists.sec = cleared.sec
      /\ lists.idx = i
      /\ lists.answer = cleared.answer
      /\ lists.status = cleared.status
      /\ lists.section = cleared.section
      /\ lists.answered = cleared.answered \ {g}
      /\ lists.skipped = cleared.skipped \cup {g}
      /\ lists.completed = cleared.completed
  BY <1>1, <1>2 DEF Docs
<1> QED BY <1>1, <1>3, <1>4 DEF g, i

(* Only the status of the current section, or the review flag, changes.     *)
Relabelled(d, e) ==
  /\ e \in Docs
  /\ e.sec = d.sec
  /\ e.idx = d.idx
  /\ e.answer = d.answer
  /\ e.status = d.status
  /\ \A s \in Sections \ {d.sec} : e.section[s] = d.section[s]
  /\ e.answered = d.answered
  /\ e.skipped = d.skipped
  /\ e.completed = d.completed

LEMMA ReviewEffect ==
  ASSUME NEW d \in Docs
  PROVE  /\ Relabelled(d, SetSectionStatus(d, "reviewing"))
         /\ Relabelled(d, ReviewStarted(d))
<1>1. Relabelled(d, SetSectionStatus(d, "reviewing"))
  BY DEF Relabelled, SetSectionStatus, Docs
<1> DEFINE r == SetSectionStatus(d, "reviewing")
<1>2. r \in Docs
  BY <1>1 DEF Relabelled
<1> HIDE DEF r
<1>3. Relabelled(r, [r EXCEPT !.review = TRUE])
  BY <1>2 DEF Relabelled, Docs
<1>4. Relabelled(d, [r EXCEPT !.review = TRUE])
  BY <1>1, <1>3 DEF Relabelled, r
<1> QED BY <1>1, <1>4 DEF r, ReviewStarted

LEMMA AdvancedEffect ==
  ASSUME NEW d \in Docs
  PROVE  \/ Relabelled(d, Advanced(d))
         \/ /\ Looked(d, Advanced(d))
            /\ Advanced(d).idx = d.idx + 1
            /\ ~IsLastQuestion(d)
<1>1. CASE Reviewing(d)
  <2>1. Advanced(d) = d
    BY <1>1 DEF Advanced
  <2> QED BY <2>1 DEF Relabelled
<1>2. CASE ~Reviewing(d) /\ ~IsLastQuestion(d)
  <2>1. Advanced(d) = MarkViewed([d EXCEPT !.idx = d.idx + 1])
    BY <1>2 DEF Advanced
  <2> QED BY <1>2, <2>1, MovedEffect, HereFacts
<1>3. CASE ~Reviewing(d) /\ IsLastQuestion(d)
  <2>1. Advanced(d) = SetSectionStatus(d, "reviewing")
    BY <1>3 DEF Advanced
  <2> QED BY <2>1, ReviewEffect
<1> QED BY <1>1, <1>2, <1>3

LEMMA SubmittedEffect ==
  ASSUME NEW d \in Docs
  PROVE  LET e == SectionSubmitted(d)
         IN  /\ e \in Docs
             /\ e.answer = d.answer
             /\ e.status = d.status
             /\ e.answered = d.answered
             /\ e.skipped = d.skipped
             /\ e.completed = d.completed \cup {d.sec}
             /\ e.section[d.sec] = "submitted"
             /\ \A s \in Sections : s \notin {d.sec, d.sec + 1} => e.section[s] = d.section[s]
             /\ \/ e.sec = d.sec /\ e.idx = d.idx /\ e.section = [d.section EXCEPT ![d.sec] = "submitted"]
                \/ e.sec = d.sec + 1 /\ e.idx = 0 /\ d.sec + 1 < NumSections
<1>1. CASE IsLastSection(d)
  BY <1>1, HereFacts DEF SectionSubmitted, Docs
<1>2. CASE ~IsLastSection(d)
  <2>1. d.sec + 1 < NumSections /\ d.sec + 1 \in Sections /\ d.sec + 1 # d.sec
    <3>1. d.sec \in Sections /\ d.sec \in Nat
      BY HereFacts, SectionFacts
    <3>2. d.sec + 1 < NumSections /\ d.sec + 1 # d.sec
      BY <1>2, <3>1, FlowAssumption DEF IsLastSection
    <3> QED BY <3>1, <3>2, SectionFacts
  <2> QED BY <1>2, <2>1, HereFacts DEF SectionSubmitted, Docs
<1> QED BY <1>1, <1>2

-----------------------------------------------------------------------------
(* What a handler that has read d may be about to store. *)
Outcome(d, e) ==
  \/ /\ InRange(d)
     /\ \/ e = Advanced(d)
        \/ \E q \in Questions : q[2] = d.idx /\ e = Advanced(Stored(d, q))
        \/ \E a \in {Unplaced, None} : e = Advanced(Stored(d, a))
        \/ e = MarkViewed(d)
  \/ \E q \in Questions : q[2] < Sizes[d.sec] /\ e = Navigated(d, q)
  \/ e = Skipped(d)
  \/ /\ d.section[d.sec] \in {"reviewing", "in_progress"}
     /\ e = SectionSubmitted(d)
  \/ e = ReviewStarted(d)

LEMMA StepCases ==
  ASSUME [Next]_vars
  PROVE  \/ \E c \in Calls : \E e : Outcome(doc, e) /\ Handle(c, e)
         \/ \E c \in Calls : Save(c) \/ SaveFails(c)
         \/ UNCHANGED vars
<1>1. ASSUME NEW c \in Calls, SubmitAnswer(c)
      PROVE  \E e : Outcome(doc, e) /\ Handle(c, e)
  <2>1. PICK q \in Questions, placed \in BOOLEAN :
           /\ placed => q[2] = doc.idx
           /\ InRange(doc)
           /\ \/ Handle(c, Advanced(doc))
              \/ \E a \in {IF placed THEN q ELSE Unplaced, None} :
                    Handle(c, Advanced(Stored(doc, a)))
    BY <1>1 DEF SubmitAnswer
  <2>2. CASE Handle(c, Advanced(doc))
    BY <2>1, <2>2 DEF Outcome
  <2>3. ASSUME NEW a \in {IF placed THEN q ELSE Unplaced, None},
               Handle(c, Advanced(Stored(doc, a)))
        PROVE  \E e : Outcome(doc, e) /\ Handle(c, e)
    <3>1. CASE a \in {Unplaced, None}
      BY <2>1, <2>3, <3>1 DEF Outcome
    <3>2. CASE a = q /\ placed
      BY <2>1, <2>3, <3>2 DEF Outcome
    <3> QED BY <3>1, <3>2
  <2> QED BY <2>1, <2>2, <2>3
<1>2. ASSUME NEW c \in Calls, GetCurrentQuestion(c)
      PROVE  \E e : Outcome(doc, e) /\ Handle(c, e)
  BY <1>2 DEF GetCurrentQuestion, Outcome
<1>3. ASSUME NEW c \in Calls, NavigateToQuestion(c)
      PROVE  \E e : Outcome(doc, e) /\ Handle(c, e)
  BY <1>3 DEF NavigateToQuestion, Outcome
<1>4. ASSUME NEW c \in Calls, SkipQuestion(c) \/ StartSectionReview(c)
      PROVE  \E e : Outcome(doc, e) /\ Handle(c, e)
  BY <1>4 DEF SkipQuestion, StartSectionReview, Outcome
<1>5. ASSUME NEW c \in Calls, SubmitSection(c)
      PROVE  \E e : Outcome(doc, e) /\ Handle(c, e)
  BY <1>5 DEF SubmitSection, Outcome
<1> QED BY <1>1, <1>2, <1>3, <1>4, <1>5 DEF Next

(* An answer that is stored anew with its index is stored under that index. *)
Placed(d, e) ==
  \A q \in Questions :
     e.answer[q] \notin {d.answer[q], None, Unplaced}
        => e.answer[q] \in Questions /\ e.answer[q][2] = q[2]

(* A handler keeps the types, submits at most the section it is in, and      *)
(* stores an answer only under the index that came with it.                  *)
LEMMA OutcomeFacts ==
  ASSUME NEW d \in Docs, NEW e, Outcome(d, e)
  PROVE  /\ e \in Docs
         /\ d.completed \subseteq e.completed
         /\ e.sec # d.sec => e.sec = d.sec + 1 /\ d.sec \in e.completed
         /\ Placed(d, e)
<1>1. CASE /\ InRange(d)
           /\ \/ e = Advanced(d)
              \/ \E q \in Questions : q[2] = d.idx /\ e = Advanced(Stored(d, q))
              \/ \E a \in {Unplaced, None} : e = Advanced(Stored(d, a))
  <2>1. ASSUME NEW a \in Answers \cup {None}, a \in Questions => a[2] = d.idx,
               e = Advanced(Stored(d, a))
        PROVE  /\ e \in Docs /\ e.completed = d.completed /\ e.sec = d.sec
               /\ e.answer = [d.answer EXCEPT ![Here(d)] = a]
    <3> DEFINE t == Stored(d, a)
    <3>1. /\ t \in Docs /\ t.completed = d.completed /\ t.sec = d.sec
          /\ t.answer = [d.answer EXCEPT ![Here(d)] = a]
      BY <1>1, StoredEffect
    <3>2. Relabelled(t, Advanced(t)) \/ Looked(t, Advanced(t))
      BY <3>1, AdvancedEffect
    <3>3. e = Advanced(t)
      BY <2>1
    <3> HIDE DEF t
    <3> QED BY <3>1, <3>2, <3>3 DEF Looked, Relabelled
  <2>2. CASE e = Advanced(d)
    BY <2>2, AdvancedEffect DEF Looked, Relabelled, Placed
  <2>3. ASSUME NEW a \in Answers \cup {None}, a \in Questions => a[2] = d.idx,
               e = Advanced(Stored(d, a))
        PROVE  Placed(d, e)
    <3>1. e.answer = [d.answer EXCEPT ![Here(d)] = a]
      BY <2>1, <2>3
    <3>2. d.answer \in [Questions -> Answers \cup {None}]
      BY DEF Docs
    <3> QED BY <2>3, <3>1, <3>2, HereFacts DEF Answers, Placed
  <2>4. \/ e = Advanced(d)
        \/ \E a \in Answers \cup {None} :
              (a \in Questions => a[2] = d.idx) /\ e = Advanced(Stored(d, a))
    <3>1. /\ Unplaced \in Answers /\ Unplaced \notin Questions
          /\ None \notin Questions /\ Questions \subseteq Answers
      BY AnswerAssumption DEF Answers
    <3> QED BY <1>1, <3>1
  <2> QED BY <2>1, <2>2, <2>3, <2>4
<1>2. CASE e = MarkViewed(d)
  BY <1>2, MarkViewedEffect DEF Looked, Placed
<1>3. CASE \E q \in Questions : e = Navigated(d, q)
  BY <1>3, MovedEffect, QuestionFacts DEF Looked, Navigated, Placed
<1>4. CASE e = Skipped(d)
  <2>1. /\ e \in Docs /\ e.completed = d.completed /\ e.sec = d.sec
        /\ e.answer \in {d.answer, [d.answer EXCEPT ![Here(d)] = None]}
    BY <1>4, SkippedEffect
  <2>2. d.answer \in [Questions -> Answers \cup {None}]
    BY DEF Docs
  <2>3. \A q \in Questions : e.answer[q] \in {d.answer[q], None}
    BY <2>1, <2>2
  <2> QED BY <2>1, <2>3 DEF Placed
<1>5. CASE e = SectionSubmitted(d)
  BY <1>5, SubmittedEffect DEF Placed
<1>6. CASE e = ReviewStarted(d)
  BY <1>6, ReviewEffect DEF Relabelled, Placed
<1> QED BY <1>1, <1>2, <1>3, <1>4, <1>5, <1>6 DEF Outcome

LEMMA MergedType ==
  ASSUME NEW d \in Docs, NEW copy \in Copies
  PROVE  Merged(d, copy) \in Docs
BY DEF Merged, MergedPath, MergedList, Docs, Copies

-----------------------------------------------------------------------------
(* However the calls overlap. *)

KeepsIndex(d) == \A q \in Questions : d.answer[q] \in Questions => d.answer[q][2] = q[2]

ReachedInTurn(d) == \A s \in Sections : s < d.sec => s \in d.completed

(* What a handler in progress read is still submitted, and what it is about *)
(* to store would do on its own.                                            *)
CopyInv ==
  \A c \in Calls : calls[c] # Idle =>
     /\ KeepsIndex(calls[c].write)
     /\ ReachedInTurn(calls[c].write)
     /\ calls[c].read.completed \subseteq calls[c].write.completed
     /\ calls[c].read.completed \subseteq doc.completed

OverlapInv == TypeOK /\ KeepsIndex(doc) /\ ReachedInTurn(doc) /\ CopyInv

LEMMA InitOverlap == Init => OverlapInv
<1> SUFFICES ASSUME Init PROVE OverlapInv
  OBVIOUS
<1>1. TypeOK
  BY SectionFacts DEF Init, TypeOK, Docs
<1>2. KeepsIndex(doc)
  BY AnswerAssumption DEF Init, KeepsIndex, Answers
<1>3. ReachedInTurn(doc)
  BY SectionFacts DEF Init, ReachedInTurn
<1>4. CopyInv
  BY DEF Init, CopyInv
<1> QED BY <1>1, <1>2, <1>3, <1>4 DEF OverlapInv

LEMMA HandleOverlap ==
  ASSUME OverlapInv, NEW c \in Calls, NEW e, Outcome(doc, e), Handle(c, e)
  PROVE  OverlapInv'
<1> USE DEF Handle
<1>1. doc \in Docs /\ calls \in [Calls -> Copies \cup {Idle}]
  BY DEF OverlapInv, TypeOK
<1>2. /\ e \in Docs
      /\ doc.completed \subseteq e.completed
      /\ e.sec # doc.sec => e.sec = doc.sec + 1 /\ doc.sec \in e.completed
      /\ Placed(doc, e)
  BY <1>1, OutcomeFacts
<1>3. TypeOK'
  BY <1>1, <1>2 DEF TypeOK, Copies
<1>4. KeepsIndex(e)
  <2>1. KeepsIndex(doc)
    BY DEF OverlapInv
  <2> QED BY <1>2, <2>1, AnswerAssumption DEF KeepsIndex, Placed, Answers
<1>5. ReachedInTurn(e)
  <2>1. ReachedInTurn(doc) /\ doc.sec \in Nat /\ Sections \subseteq Nat
    BY <1>1, HereFacts, SectionFacts DEF OverlapInv
  <2> QED BY <1>2, <2>1 DEF ReachedInTurn
<1>6. CopyInv'
  <2>1. CopyInv
    BY DEF OverlapInv
  <2>2. calls'[c] = [read |-> doc, write |-> e]
    BY <1>1
  <2>3. \A d \in Calls \ {c} : calls'[d] = calls[d]
    BY <1>1
  <2> QED BY <1>2, <1>4, <1>5, <2>1, <2>2, <2>3 DEF CopyInv
<1> QED BY <1>3, <1>6 DEF OverlapInv, KeepsIndex, ReachedInTurn

LEMMA SaveOverlap ==
  ASSUME OverlapInv, NEW c \in Calls, Save(c)
  PROVE  OverlapInv'
<1> DEFINE w == calls[c].write
           r == calls[c].read
<1>1. /\ doc \in Docs
      /\ calls \in [Calls -> Copies \cup {Idle}]
      /\ calls[c] \in Copies
      /\ doc' = Merged(doc, calls[c])
  BY DEF OverlapInv, TypeOK, Save
<1>2. /\ KeepsIndex(w) /\ ReachedInTurn(w)
      /\ r.completed \subseteq w.completed
      /\ r.completed \subseteq doc.completed
  BY DEF OverlapInv, CopyInv, Save
<1>3. TypeOK'
  BY <1>1, MergedType DEF Save, TypeOK
<1>4. /\ \A q \in Questions : doc'.answer[q] \in {doc.answer[q], w.answer[q]}
      /\ doc'.sec \in {doc.sec, w.sec}
      /\ doc'.completed = doc.completed \cup (w.completed \ r.completed)
  BY <1>1, <1>2 DEF Merged, MergedPath, MergedList
<1>5. KeepsIndex(doc')
  BY <1>2, <1>4 DEF KeepsIndex, OverlapInv
<1>6. ReachedInTurn(doc')
  BY <1>2, <1>4 DEF ReachedInTurn, OverlapInv
<1>7. CopyInv'
  BY <1>1, <1>4 DEF CopyInv, OverlapInv, Save
<1> QED BY <1>3, <1>5, <1>6, <1>7 DEF OverlapInv, KeepsIndex, ReachedInTurn

LEMMA NextOverlap == OverlapInv /\ [Next]_vars => OverlapInv'
<1> SUFFICES ASSUME OverlapInv, [Next]_vars PROVE OverlapInv'
  OBVIOUS
<1>1. CASE \E c \in Calls : \E e : Outcome(doc, e) /\ Handle(c, e)
  BY <1>1, HandleOverlap
<1>2. CASE \E c \in Calls : Save(c)
  BY <1>2, SaveOverlap
<1>3. CASE \E c \in Calls : SaveFails(c)
  BY <1>3 DEF SaveFails, OverlapInv, TypeOK, CopyInv, KeepsIndex, ReachedInTurn
<1>4. CASE UNCHANGED vars
  BY <1>4 DEF vars, OverlapInv, TypeOK, CopyInv, KeepsIndex, ReachedInTurn
<1> QED BY <1>1, <1>2, <1>3, <1>4, StepCases

LEMMA OverlapInvariant == Spec => []OverlapInv
BY InitOverlap, NextOverlap, PTL DEF Spec

(* The document and the copies of the handlers keep their shape: no merge of*)
(* stale paths leaves a section or a question the test does not have.        *)
THEOREM FlowTypes == Spec => []TypeOK
<1>1. OverlapInv => TypeOK
  BY DEF OverlapInv
<1> QED BY <1>1, OverlapInvariant, PTL

(* However calls overlap, repeat and arrive late, an answer sent with its   *)
(* index is stored under that index.                                        *)
THEOREM IndexIsKept == Spec => []AnswersKeepTheirIndex
<1>1. OverlapInv => AnswersKeepTheirIndex
  BY DEF OverlapInv, KeepsIndex, AnswersKeepTheirIndex
<1> QED BY <1>1, OverlapInvariant, PTL

(* In a test with one section that is enough for the answer to reach its    *)
(* question.                                                                *)
THEOREM OneSectionIsEnough ==
  ASSUME NumSections = 1
  PROVE  Spec => []AnswersReachTheirQuestion
<1>1. OverlapInv => AnswersReachTheirQuestion
  <2> SUFFICES ASSUME OverlapInv, NEW q \in Questions, doc.answer[q] \notin {None, Unplaced}
               PROVE  doc.answer[q] = q
    BY DEF AnswersReachTheirQuestion
  <2>1. doc.answer[q] \in Questions
    BY DEF OverlapInv, TypeOK, Docs, Answers
  <2>2. doc.answer[q][2] = q[2]
    BY <2>1 DEF OverlapInv, KeepsIndex
  <2>3. \A p \in Questions : p[1] = 0
    BY QuestionFacts, SectionFacts DEF Sections
  <2> QED BY <2>1, <2>2, <2>3, QuestionFacts
<1> QED BY <1>1, OverlapInvariant, PTL

(* However calls overlap, no section is entered before those ahead of it     *)
(* are submitted.                                                           *)
THEOREM SectionsInTurn == Spec => []EarlierSectionsCompleted
<1>1. OverlapInv => EarlierSectionsCompleted
  BY DEF OverlapInv, ReachedInTurn, EarlierSectionsCompleted
<1> QED BY <1>1, OverlapInvariant, PTL

-----------------------------------------------------------------------------
(* One call at a time. *)

OneAtATime == \A c, d \in Calls : c = d

(* What the abstract specification sees of a handler. *)
PaperMove(d, e) ==
  \/ /\ e.sec = d.sec
     /\ \/ e.answer = d.answer
        \/ \E q \in Questions, a \in Answers \cup {None} :
              q[1] = d.sec /\ e.answer = [d.answer EXCEPT ![q] = a]
  \/ e.sec = d.sec + 1 /\ d.sec + 1 < NumSections /\ e.answer = d.answer

LEMMA IndicesMember ==
  ASSUME NEW d, NEW st, NEW n
  PROVE  n \in Indices(d, st) <=> \E q \in Questions : d.status[q] = st /\ n = ToGlobalIndex(q)
BY DEF Indices

LEMMA AgreeLooked ==
  ASSUME NEW d \in Docs, NEW e, Agree(d), Looked(d, e)
  PROVE  Agree(e)
<1>1. \A q \in Questions : /\ e.status[q] = "answered" <=> d.status[q] = "answered"
                           /\ e.status[q] = "skipped" <=> d.status[q] = "skipped"
  BY DEF Looked
<1>2. /\ Indices(e, "answered") = Indices(d, "answered")
      /\ Indices(e, "skipped") = Indices(d, "skipped")
  <2>1. ASSUME NEW st \in {"answered", "skipped"}, NEW n
        PROVE  n \in Indices(e, st) <=> n \in Indices(d, st)
    BY <1>1, IndicesMember
  <2> QED BY <2>1
<1> QED BY <1>1, <1>2 DEF Agree, Looked

(* The current question takes a new status: its global index, which no other*)
(* question has, moves to the list of that status.                          *)
LEMMA AgreeChanged ==
  ASSUME NEW d \in Docs, NEW e, Agree(d), InRange(d),
         NEW st \in {"answered", "skipped"}, NEW a \in Answers \cup {None},
         st = "skipped" => a = None,
         e.answer = [d.answer EXCEPT ![Here(d)] = a],
         e.status = [d.status EXCEPT ![Here(d)] = st],
         e.answered = IF st = "answered" THEN d.answered \cup {ToGlobalIndex(Here(d))}
                                         ELSE d.answered \ {ToGlobalIndex(Here(d))},
         e.skipped = IF st = "skipped" THEN d.skipped \cup {ToGlobalIndex(Here(d))}
                                       ELSE d.skipped \ {ToGlobalIndex(Here(d))}
  PROVE  Agree(e)
<1> DEFINE h == Here(d)
<1>1. h \in Questions
  BY HereFacts
<1>2. d.answer \in [Questions -> Answers \cup {None}] /\ DOMAIN d.status = Questions
  BY DEF Docs
<1>3. e.status[h] = st /\ e.answer[h] = a
  BY <1>1, <1>2
<1>4. \A q \in Questions \ {h} : e.status[q] = d.status[q] /\ e.answer[q] = d.answer[q]
  BY <1>2
<1> HIDE DEF h
<1>5. ASSUME NEW t \in {"answered", "skipped"}
      PROVE  Indices(e, t) = IF st = t THEN Indices(d, t) \cup {ToGlobalIndex(h)}
                                       ELSE Indices(d, t) \ {ToGlobalIndex(h)}
  <2>1. \A q \in Questions \ {h} : ToGlobalIndex(q) # ToGlobalIndex(h)
    BY <1>1, GlobalIndexFacts
  <2>2. CASE st = t
    BY <2>1, <2>2, <1>1, <1>3, <1>4 DEF Indices
  <2>3. CASE st # t
    BY <2>1, <2>3, <1>1, <1>3, <1>4 DEF Indices
  <2> QED BY <2>2, <2>3
<1>6. e.answered = Indices(e, "answered") /\ e.skipped = Indices(e, "skipped")
  BY <1>5 DEF Agree, h
<1>7. \A q \in Questions : e.answer[q] # None => e.status[q] = "answered"
  BY <1>3, <1>4 DEF Agree
<1> QED BY <1>6, <1>7 DEF Agree

LEMMA AgreeStored ==
  ASSUME NEW d \in Docs, Agree(d), InRange(d), NEW a \in Answers \cup {None}
  PROVE  Agree(Stored(d, a))
BY StoredEffect, AgreeChanged

LEMMA AgreeSkipped ==
  ASSUME NEW d \in Docs, Agree(d), InRange(d)
  PROVE  Agree(Skipped(d))
BY SkippedEffect, AgreeChanged

LEMMA AgreeRelabelled ==
  ASSUME NEW d, NEW e, Agree(d),
         e.answer = d.answer, e.status = d.status,
         e.answered = d.answered, e.skipped = d.skipped
  PROVE  Agree(e)
BY DEF Agree, Indices

LEMMA AgreeAdvanced ==
  ASSUME NEW d \in Docs, Agree(d)
  PROVE  Agree(Advanced(d))
<1>1. CASE Relabelled(d, Advanced(d))
  BY <1>1, AgreeRelabelled DEF Relabelled
<1>2. CASE Looked(d, Advanced(d))
  BY <1>2, AgreeLooked
<1> QED BY <1>1, <1>2, AdvancedEffect

LEMMA OutcomeAgrees ==
  ASSUME NEW d \in Docs, NEW e, Outcome(d, e), Agree(d), InRange(d)
  PROVE  Agree(e)
<1>1. CASE e = Advanced(d)
  BY <1>1, AgreeAdvanced
<1>2. ASSUME NEW a \in Answers \cup {None}, e = Advanced(Stored(d, a))
      PROVE  Agree(e)
  <2>1. Stored(d, a) \in Docs
    BY StoredEffect
  <2>2. Agree(Stored(d, a))
    BY AgreeStored
  <2> QED BY <1>2, <2>1, <2>2, AgreeAdvanced
<1>3. CASE e = MarkViewed(d)
  BY <1>3, MarkViewedEffect, AgreeLooked
<1>4. CASE \E q \in Questions : e = Navigated(d, q)
  BY <1>4, MovedEffect, QuestionFacts, AgreeLooked DEF Navigated
<1>5. CASE e = Skipped(d)
  BY <1>5, AgreeSkipped
<1>6. CASE e = SectionSubmitted(d)
  BY <1>6, SubmittedEffect, AgreeRelabelled
<1>7. CASE e = ReviewStarted(d)
  BY <1>7, ReviewEffect, AgreeRelabelled DEF Relabelled
<1> QED BY <1>1, <1>2, <1>3, <1>4, <1>5, <1>6, <1>7 DEF Outcome, Answers

LEMMA OrderedSame ==
  ASSUME NEW d \in Docs, NEW e \in Docs, Ordered(d), e.sec = d.sec, InRange(e),
         \A s \in Sections \ {d.sec} : e.section[s] = d.section[s]
  PROVE  Ordered(e)
BY HereFacts, SectionFacts DEF Ordered

LEMMA NextIndex ==
  ASSUME NEW d \in Docs, ~IsLastQuestion(d)
  PROVE  d.idx + 1 < Sizes[d.sec]
<1>1. d.idx \in Nat /\ d.sec \in Sections
  BY HereFacts
<1>2. Sizes[d.sec] \in Nat
  BY <1>1, SectionFacts
<1> QED BY <1>1, <1>2 DEF IsLastQuestion

LEMMA OutcomeOrdered ==
  ASSUME NEW d \in Docs, NEW e, Outcome(d, e), Ordered(d)
  PROVE  Ordered(e)
<1>0. e \in Docs /\ InRange(d)
  BY OutcomeFacts DEF Ordered
<1>1. ASSUME NEW x \in Docs, x.sec = d.sec, x.idx = d.idx, x.section = d.section,
             e = Advanced(x)
      PROVE  Ordered(e)
  <2>1. CASE Relabelled(x, e)
    BY <2>1, <1>0, <1>1, OrderedSame DEF Relabelled, InRange
  <2>2. CASE Looked(x, e) /\ e.idx = x.idx + 1 /\ ~IsLastQuestion(x)
    BY <2>2, <1>0, <1>1, OrderedSame, NextIndex DEF Looked, InRange
  <2> QED BY <1>1, <2>1, <2>2, AdvancedEffect
<1>2. CASE e = Advanced(d)
  BY <1>1, <1>2
<1>3. CASE \E a \in Answers \cup {None} : e = Advanced(Stored(d, a))
  BY <1>0, <1>1, <1>3, StoredEffect
<1>4. CASE e = MarkViewed(d)
  BY <1>0, <1>4, MarkViewedEffect, OrderedSame DEF Looked, InRange
<1>5. CASE \E q \in Questions : q[2] < Sizes[d.sec] /\ e = Navigated(d, q)
  BY <1>0, <1>5, MovedEffect, QuestionFacts, OrderedSame DEF Looked, InRange, Navigated
<1>6. CASE e = Skipped(d)
  <2>1. e.sec = d.sec /\ e.section = d.section
    BY <1>6, SkippedEffect
  <2>2. e.idx = IF IsLastQuestion(d) THEN d.idx ELSE d.idx + 1
    BY <1>6, SkippedEffect
  <2>3. InRange(e)
    BY <1>0, <2>1, <2>2, NextIndex DEF InRange
  <2> QED BY <1>0, <2>1, <2>3, OrderedSame
<1>7. CASE e = SectionSubmitted(d)
  <2>1. /\ e.section[d.sec] = "submitted"
        /\ \A s \in Sections : s \notin {d.sec, d.sec + 1} => e.section[s] = d.section[s]
    BY <1>7, SubmittedEffect
  <2>2. CASE e.sec = d.sec /\ e.idx = d.idx /\ e.section = [d.section EXCEPT ![d.sec] = "submitted"]
    <3>1. \A s \in Sections \ {d.sec} : e.section[s] = d.section[s]
      BY <2>2 DEF Docs
    <3> QED BY <1>0, <2>2, <3>1, OrderedSame DEF InRange
  <2>3. CASE e.sec = d.sec + 1 /\ e.idx = 0
    <3>1. d.sec \in Nat /\ Sections \subseteq Nat
      BY HereFacts, SectionFacts
    <3>2. InRange(e)
      <4>1. e.sec \in Sections
        BY <1>0, HereFacts
      <4>2. Sizes[e.sec] \in Nat \ {0}
        BY <4>1, SectionFacts
      <4> QED BY <2>3, <4>2 DEF InRange
    <3> QED BY <2>1, <2>3, <3>1, <3>2 DEF Ordered
  <2> QED BY <1>7, <2>2, <2>3, SubmittedEffect
<1>8. CASE e = ReviewStarted(d)
  BY <1>0, <1>8, ReviewEffect, OrderedSame DEF Relabelled, InRange
<1> QED BY <1>2, <1>3, <1>4, <1>5, <1>6, <1>7, <1>8 DEF Outcome, Answers

LEMMA OutcomeOnPaper ==
  ASSUME NEW d \in Docs, NEW e, Outcome(d, e), InRange(d)
  PROVE  PaperMove(d, e)
<1>0. Here(d) \in Questions /\ Here(d)[1] = d.sec
  BY HereFacts
<1>1. CASE e = Advanced(d)
  BY <1>1, AdvancedEffect DEF Relabelled, Looked, PaperMove
<1>2. ASSUME NEW a \in Answers \cup {None}, e = Advanced(Stored(d, a))
      PROVE  PaperMove(d, e)
  <2> DEFINE t == Stored(d, a)
  <2>1. t \in Docs /\ t.sec = d.sec /\ t.answer = [d.answer EXCEPT ![Here(d)] = a]
    BY StoredEffect
  <2>2. e = Advanced(t)
    BY <1>2
  <2> HIDE DEF t
  <2>3. e.sec = t.sec /\ e.answer = t.answer
    BY <2>1, <2>2, AdvancedEffect DEF Relabelled, Looked
  <2> QED BY <1>0, <2>1, <2>3 DEF PaperMove
<1>3. CASE e = MarkViewed(d)
  BY <1>3, MarkViewedEffect DEF Looked, PaperMove
<1>4. CASE \E q \in Questions : e = Navigated(d, q)
  BY <1>4, MovedEffect, QuestionFacts DEF Looked, Navigated, PaperMove
<1>5. CASE e = Skipped(d)
  <2>1. e.sec = d.sec /\ e.answer = [d.answer EXCEPT ![Here(d)] = None]
    BY <1>5, SkippedEffect
  <2> QED BY <1>0, <2>1 DEF PaperMove
<1>6. CASE e = SectionSubmitted(d)
  BY <1>6, SubmittedEffect DEF PaperMove
<1>7. CASE e = ReviewStarted(d)
  BY <1>7, ReviewEffect DEF Relabelled, PaperMove
<1> QED BY <1>1, <1>2, <1>3, <1>4, <1>5, <1>6, <1>7 DEF Outcome, Answers

(* A save onto the document that was read stores what the handler made.     *)
LEMMA MergedFresh ==
  ASSUME NEW d \in Docs, NEW e \in Docs
  PROVE  Merged(d, [read |-> d, write |-> e]) = e
<1> DEFINE m == Merged(d, [read |-> d, write |-> e])
<1>1. /\ m.sec = e.sec /\ m.idx = e.idx /\ m.review = e.review
      /\ m.answered = e.answered /\ m.skipped = e.skipped /\ m.completed = e.completed
  BY DEF Merged, MergedPath, MergedList
<1>2. m.answer = e.answer /\ m.status = e.status /\ m.section = e.section
  BY DEF Merged, MergedPath, Docs
<1>3. m \in Docs
  BY MergedType DEF Copies
<1> HIDE DEF m
<1>4. m = e
  BY <1>1, <1>2, <1>3 DEF Docs
<1> QED BY <1>4 DEF m

(* The call in progress has read the stored document, and what it is about   *)
(* to store is consistent.                                                  *)
AloneInv ==
  /\ TypeOK
  /\ Agree(doc)
  /\ Ordered(doc)
  /\ \A c \in Calls : calls[c] # Idle =>
        /\ calls[c] = [read |-> doc, write |-> calls[c].write]
        /\ Agree(calls[c].write)
        /\ Ordered(calls[c].write)
        /\ PaperMove(doc, calls[c].write)

LEMMA InitAlone == Init => AloneInv
<1> SUFFICES ASSUME Init PROVE AloneInv
  OBVIOUS
<1>1. TypeOK
  BY InitOverlap DEF OverlapInv
<1>2. Agree(doc)
  <2>1. \A q \in Questions : doc.status[q] = "not_viewed" /\ doc.answer[q] = None
    BY DEF Init
  <2>2. doc.answered = {} /\ doc.skipped = {}
    BY DEF Init
  <2> QED BY <2>1, <2>2 DEF Agree, Indices
<1>3. Ordered(doc)
  BY SectionFacts DEF Init, Ordered, InRange
<1>4. \A c \in Calls : calls[c] = Idle
  BY DEF Init
<1> QED BY <1>1, <1>2, <1>3, <1>4 DEF AloneInv

LEMMA SaveAlone ==
  ASSUME AloneInv, OneAtATime, NEW c \in Calls, Save(c)
  PROVE  /\ AloneInv'
         /\ PaperMove(doc, doc')
<1> DEFINE w == calls[c].write
<1>1. /\ doc \in Docs
      /\ calls \in [Calls -> Copies \cup {Idle}]
      /\ calls[c] \in Copies
      /\ doc' = Merged(doc, calls[c])
  BY DEF AloneInv, TypeOK, Save
<1>2. /\ w \in Docs
      /\ calls[c] = [read |-> doc, write |-> w]
      /\ Agree(w) /\ Ordered(w) /\ PaperMove(doc, w)
  BY <1>1 DEF AloneInv, Save, Copies
<1> HIDE DEF w
<1>3. doc' = w
  BY <1>1, <1>2, MergedFresh
<1>4. \A d \in Calls : calls'[d] = Idle
  BY <1>1 DEF Save, OneAtATime
<1>5. TypeOK'
  BY <1>1, <1>2, <1>3 DEF Save, TypeOK
<1> QED BY <1>2, <1>3, <1>4, <1>5 DEF AloneInv, Agree, Ordered, Indices, InRange

LEMMA HandleAlone ==
  ASSUME AloneInv, OneAtATime, NEW c \in Calls, NEW e, Outcome(doc, e), Handle(c, e)
  PROVE  AloneInv'
<1>1. doc \in Docs /\ Agree(doc) /\ Ordered(doc) /\ InRange(doc) /\ doc' = doc
  BY DEF AloneInv, TypeOK, Ordered, Handle
<1>2. e \in Docs /\ Agree(e) /\ Ordered(e) /\ PaperMove(doc, e)
  BY <1>1, OutcomeFacts, OutcomeAgrees, OutcomeOrdered, OutcomeOnPaper
<1>3. calls' = [calls EXCEPT ![c] = [read |-> doc, write |-> e]]
  BY DEF Handle
<1>4. calls \in [Calls -> Copies \cup {Idle}]
  BY DEF AloneInv, TypeOK
<1>5. \A d \in Calls : calls'[d] = [read |-> doc, write |-> e]
  BY <1>3, <1>4 DEF OneAtATime
<1>6. TypeOK'
  BY <1>1, <1>2, <1>3, <1>4 DEF TypeOK, Copies
<1>7. \A d \in Calls :
         calls'[d] = [read |-> doc', write |-> calls'[d].write] /\ calls'[d].write = e
  BY <1>1, <1>5
<1> QED BY <1>1, <1>2, <1>6, <1>7 DEF AloneInv, Agree, Ordered, Indices, InRange, PaperMove

LEMMA QuietAlone ==
  ASSUME AloneInv, (\E c \in Calls : SaveFails(c)) \/ UNCHANGED vars
  PROVE  AloneInv' /\ doc' = doc
<1>1. doc' = doc /\ \A d \in Calls : calls'[d] \in {calls[d], Idle}
  BY DEF AloneInv, TypeOK, SaveFails, vars
<1>2. TypeOK'
  BY DEF AloneInv, TypeOK, SaveFails, vars
<1>3. Agree(doc)' /\ Ordered(doc)'
  BY <1>1 DEF AloneInv, Agree, Ordered, Indices, InRange
<1>4. ASSUME NEW c \in Calls, calls'[c] # Idle
      PROVE  /\ calls'[c] = [read |-> doc', write |-> calls'[c].write]
             /\ Agree(calls'[c].write)
             /\ Ordered(calls'[c].write)
             /\ PaperMove(doc', calls'[c].write)
  <2>1. calls'[c] = calls[c] /\ calls[c] # Idle /\ doc' = doc
    BY <1>1, <1>4
  <2> QED BY <2>1 DEF AloneInv
<1>5. \A c \in Calls : calls'[c] # Idle =>
         /\ calls'[c] = [read |-> doc', write |-> calls'[c].write]
         /\ Agree(calls[c].write)'
         /\ Ordered(calls[c].write)'
         /\ PaperMove(doc, calls[c].write)'
  BY <1>4 DEF Agree, Ordered, Indices, InRange, PaperMove
<1> QED BY <1>1, <1>2, <1>3, <1>5 DEF AloneInv

LEMMA NextAlone ==
  ASSUME AloneInv, OneAtATime, [Next]_vars
  PROVE  AloneInv' /\ (PaperMove(doc, doc') \/ doc' = doc)
<1>1. CASE \E c \in Calls : \E e : Outcome(doc, e) /\ Handle(c, e)
  BY <1>1, HandleAlone DEF Handle
<1>2. CASE \E c \in Calls : Save(c)
  BY <1>2, SaveAlone
<1>3. CASE (\E c \in Calls : SaveFails(c)) \/ UNCHANGED vars
  BY <1>3, QuietAlone
<1> QED BY <1>1, <1>2, <1>3, StepCases

LEMMA AloneInvariant ==
  ASSUME OneAtATime
  PROVE  Spec => []AloneInv
<1>1. AloneInv /\ [Next]_vars => AloneInv'
  BY NextAlone
<1> QED BY <1>1, InitAlone, PTL DEF Spec

(* Calls one at a time, late or repeated: the lists of answered and skipped *)
(* questions, their statuses and the stored answers agree.                  *)
THEOREM ListsStayInAgreement ==
  ASSUME OneAtATime
  PROVE  Spec => []ListsAgree
<1>1. AloneInv => ListsAgree
  BY DEF AloneInv, ListsAgree
<1> QED BY <1>1, AloneInvariant, PTL

(* Calls one at a time: sections are submitted in order, and the index is   *)
(* one of the current section.                                              *)
THEOREM SectionsStayInOrder ==
  ASSUME OneAtATime
  PROVE  Spec => []SectionOrder
<1>1. AloneInv => SectionOrder
  BY DEF AloneInv, SectionOrder
<1> QED BY <1>1, AloneInvariant, PTL

(* Calls one at a time: the session implements Questionnaire, so that an    *)
(* answer changes only while its section is the current one.                *)
THEOREM FlowImplementsQuestionnaire ==
  ASSUME OneAtATime
  PROVE  Spec => IsQuestionnaire
<1>1. Init => Paper!Init
  BY DEF Init, Paper!Init
<1>2. AloneInv /\ [Next]_vars => [Paper!Next]_Paper!vars
  <2> SUFFICES ASSUME AloneInv, [Next]_vars
               PROVE  Paper!Record \/ Paper!CloseSection \/ UNCHANGED <<doc.sec, doc.answer>>
    BY DEF Paper!Next, Paper!vars
  <2>1. CASE doc' = doc
    BY <2>1
  <2>2. CASE PaperMove(doc, doc')
    BY <2>2 DEF PaperMove, Paper!Record, Paper!CloseSection
  <2> QED BY <2>1, <2>2, NextAlone
<1> QED BY <1>1, <1>2, AloneInvariant, PTL DEF Spec, IsQuestionnaire, Paper!Spec
=============================================================================

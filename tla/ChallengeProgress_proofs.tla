------------------------ MODULE ChallengeProgress_proofs ------------------------
(***************************************************************************)
(* Proofs about ChallengeProgress, for any students, languages, submissions *)
(* and number of failures.                                                  *)
(***************************************************************************)
EXTENDS ChallengeProgress, FiniteSetTheorems, TLAPS

(* What is stored of a submission at each stage of its call.                *)
CallInv ==
    \A s \in Submissions :
        /\ pc[s] \in {"idle", "counted"} => status[s] = None
        /\ pc[s] \in {"stored", "running", "judged", "recorded", "measured", "rated",
                      "catching"} => status[s] # None
        /\ pc[s] \in {"idle", "counted", "stored", "running"} => verdict[s] = None
        /\ pc[s] \in {"judged", "recorded", "measured", "rated"} =>
              verdict[s] # None /\ status[s] = verdict[s]
        /\ read[s] # None => progress[StudentOf[s]] # None

-----------------------------------------------------------------------------
(* Documents. *)

LEMMA DocumentFields ==
  ASSUME NEW d \in Documents
  PROVE  /\ d.solution \in [Languages -> Statuses] /\ d.tries \in [Languages -> Nat]
         /\ d.best \in [Languages -> Submissions \cup {None}]
         /\ d.total \in Nat /\ d.overall \in Statuses /\ d # None
BY NoDocument DEF Documents

LEMMA MakeDocument ==
  ASSUME NEW a \in [Languages -> Statuses], NEW b \in [Languages -> Nat],
         NEW c \in [Languages -> Submissions \cup {None}], NEW d \in Nat, NEW e \in Statuses
  PROVE  [solution |-> a, tries |-> b, best |-> c, total |-> d, overall |-> e] \in Documents
BY DEF Documents

LEMMA NewDocumentType == NewDocument \in Documents
<1>1. "not_attempted" \in Statuses
  BY DEF Statuses
<1> QED BY <1>1, MakeDocument DEF NewDocument

(* updateUserProgress and the save hook, path by path.                      *)
After(d, l, v, s) == [UpdateUserProgress(d, l, v, s) EXCEPT
                         !.overall = Overall(UpdateUserProgress(d, l, v, s))]

LEMMA UpdateEffect ==
  ASSUME NEW d \in Documents, NEW l \in Languages, NEW v, NEW s \in Submissions
  PROVE  LET e == After(d, l, v, s) IN
         /\ e \in Documents
         /\ \A k \in Languages \ {l} : /\ e.solution[k] = d.solution[k]
                                       /\ e.tries[k] = d.tries[k] /\ e.best[k] = d.best[k]
         /\ e.solution[l] = IF v = "passed" THEN "solved"
                            ELSE IF d.solution[l] = "not_attempted" THEN "attempted"
                            ELSE d.solution[l]
         /\ e.tries[l] = d.tries[l] + 1
         /\ e.best[l] = IF v = "passed" THEN s ELSE d.best[l]
         /\ e.total = d.total + 1
         /\ e.overall = "solved" => \/ \E k \in Languages : e.solution[k] = "solved"
                                    \/ d.overall = "solved"
         /\ (\E k \in Languages : e.solution[k] = "solved") => e.overall = "solved"
<1> DEFINE after == IF v = "passed" THEN "solved"
                    ELSE IF d.solution[l] = "not_attempted" THEN "attempted"
                    ELSE d.solution[l]
           sol == [d.solution EXCEPT ![l] = after]
           tri == [d.tries EXCEPT ![l] = @ + 1]
           bes == [d.best EXCEPT ![l] = IF v = "passed" THEN s ELSE @]
           tot == d.total + 1
           upd == UpdateUserProgress(d, l, v, s)
           e == After(d, l, v, s)
<1>1. /\ d.solution \in [Languages -> Statuses] /\ d.tries \in [Languages -> Nat]
      /\ d.best \in [Languages -> Submissions \cup {None}]
      /\ d.total \in Nat /\ d.overall \in Statuses
  BY DocumentFields
<1>2. after \in Statuses
  BY <1>1 DEF Statuses
<1>3. /\ sol \in [Languages -> Statuses] /\ tri \in [Languages -> Nat]
      /\ bes \in [Languages -> Submissions \cup {None}] /\ tot \in Nat
  BY <1>1, <1>2
<1>4. /\ upd.solution = sol /\ upd.tries = tri /\ upd.best = bes /\ upd.total = tot
      /\ upd.overall = d.overall
      /\ upd = [solution |-> sol, tries |-> tri, best |-> bes, total |-> tot,
                overall |-> d.overall]
  <2>1. upd = [d EXCEPT !.solution = sol, !.tries = tri, !.best = bes, !.total = tot]
    BY DEF UpdateUserProgress
  <2> HIDE DEF sol, tri, bes, tot, upd, after
  <2>2. d = [solution |-> d.solution, tries |-> d.tries, best |-> d.best,
             total |-> d.total, overall |-> d.overall]
    BY DEF Documents
  <2> QED BY <2>1, <2>2
<1>5. /\ sol[l] = after /\ tri[l] = d.tries[l] + 1
      /\ bes[l] = IF v = "passed" THEN s ELSE d.best[l]
      /\ \A k \in Languages \ {l} : /\ sol[k] = d.solution[k] /\ tri[k] = d.tries[k]
                                    /\ bes[k] = d.best[k]
  BY <1>1
<1> DEFINE all == Overall(upd)
<1>6. /\ all \in Statuses
      /\ all = "solved" => (\E k \in Languages : sol[k] = "solved") \/ d.overall = "solved"
      /\ (\E k \in Languages : sol[k] = "solved") => all = "solved"
  <2> HIDE DEF sol, upd
  <2>1. all = IF \E k \in Languages : sol[k] = "solved" THEN "solved"
              ELSE IF \E k \in Languages : sol[k] = "attempted" THEN "attempted"
              ELSE d.overall
    BY <1>4 DEF Overall
  <2> QED BY <1>1, <2>1 DEF Statuses
<1> HIDE DEF sol, tri, bes, tot, upd, all, after
<1>7. e = [upd EXCEPT !.overall = all]
  BY DEF After, upd, all
<1> HIDE DEF e
<1>8. e = [solution |-> sol, tries |-> tri, best |-> bes, total |-> tot, overall |-> all]
  BY <1>4, <1>7
<1>9. e \in Documents
  BY <1>3, <1>6, <1>8, MakeDocument
<1>10. /\ e.solution = sol /\ e.tries = tri /\ e.best = bes /\ e.total = tot
       /\ e.overall = all
  BY <1>8
<1> QED BY <1>5, <1>6, <1>9, <1>10 DEF e, after, tot

(* A document that is updated keeps or changes each path; one that is saved  *)
(* as it was read becomes the new one.                                      *)
LEMMA MergeEffect ==
  ASSUME NEW p \in Documents, NEW b \in Documents, NEW a \in Documents
  PROVE  /\ Merge(p, b, a) \in Documents
         /\ \A l \in Languages :
               /\ Merge(p, b, a).solution[l] = Changed(p.solution[l], b.solution[l], a.solution[l])
               /\ Merge(p, b, a).tries[l] = Changed(p.tries[l], b.tries[l], a.tries[l])
               /\ Merge(p, b, a).best[l] = Changed(p.best[l], b.best[l], a.best[l])
         /\ Merge(p, b, a).total = Changed(p.total, b.total, a.total)
         /\ Merge(p, b, a).overall = Changed(p.overall, b.overall, a.overall)
<1> DEFINE sol == [l \in Languages |-> Changed(p.solution[l], b.solution[l], a.solution[l])]
           tri == [l \in Languages |-> Changed(p.tries[l], b.tries[l], a.tries[l])]
           bes == [l \in Languages |-> Changed(p.best[l], b.best[l], a.best[l])]
           tot == Changed(p.total, b.total, a.total)
           all == Changed(p.overall, b.overall, a.overall)
<1>1. /\ sol \in [Languages -> Statuses] /\ tri \in [Languages -> Nat]
      /\ bes \in [Languages -> Submissions \cup {None}] /\ tot \in Nat /\ all \in Statuses
  BY DocumentFields DEF Changed
<1>2. Merge(p, b, a) = [solution |-> sol, tries |-> tri, best |-> bes, total |-> tot,
                        overall |-> all]
  BY DEF Merge
<1>3. /\ \A l \in Languages : /\ sol[l] = Changed(p.solution[l], b.solution[l], a.solution[l])
                              /\ tri[l] = Changed(p.tries[l], b.tries[l], a.tries[l])
                              /\ bes[l] = Changed(p.best[l], b.best[l], a.best[l])
      /\ tot = Changed(p.total, b.total, a.total)
      /\ all = Changed(p.overall, b.overall, a.overall)
  OBVIOUS
<1> HIDE DEF sol, tri, bes, tot, all
<1>4. Merge(p, b, a) \in Documents
  BY <1>1, <1>2, MakeDocument
<1> QED BY <1>2, <1>3, <1>4

LEMMA MergeSame ==
  ASSUME NEW b \in Documents, NEW a \in Documents
  PROVE  Merge(b, b, a) = a
<1>1. Merge(b, b, a) \in Documents
  BY MergeEffect
<1>2. \A l \in Languages : /\ Merge(b, b, a).solution[l] = a.solution[l]
                           /\ Merge(b, b, a).tries[l] = a.tries[l]
                           /\ Merge(b, b, a).best[l] = a.best[l]
  BY MergeEffect DEF Changed
<1>3. Merge(b, b, a).total = a.total /\ Merge(b, b, a).overall = a.overall
  BY MergeEffect DEF Changed
<1>4. /\ Merge(b, b, a).solution = a.solution /\ Merge(b, b, a).tries = a.tries
      /\ Merge(b, b, a).best = a.best
  BY <1>1, <1>2, DocumentFields
<1> QED BY <1>1, <1>3, <1>4 DEF Documents

-----------------------------------------------------------------------------
(* Types, and what is stored at each stage, through every step. *)

LEMMA GoToEffect ==
  ASSUME TypeOK, NEW s \in Submissions, NEW stage \in Stages, GoTo(s, stage)
  PROVE  /\ pc' \in [Submissions -> Stages] /\ pc'[s] = stage
         /\ \A d \in Submissions \ {s} : pc'[d] = pc[d]
BY DEF TypeOK, GoTo

LEMMA StageNames ==
  {"idle", "counted", "stored", "running", "judged", "recorded",
   "measured", "rated", "catching", "answered", "gone"} = Stages
BY DEF Stages

LEMMA UserTypes ==
  ASSUME NEW s \in Submissions
  PROVE  StudentOf[s] \in Students /\ LanguageOf[s] \in Languages /\ s # None
BY SubmissionAssumption

(* What a call saves.                                                       *)
Before(s) == IF read[s] = None THEN NewDocument ELSE read[s]

LEMMA UpdatedIs ==
  ASSUME NEW s \in Submissions
  PROVE  Updated(s) = After(Before(s), LanguageOf[s], verdict[s], s)
BY DEF Updated, After, Before

LEMMA BeforeType ==
  ASSUME TypeOK, NEW s \in Submissions
  PROVE  Before(s) \in Documents /\ Updated(s) \in Documents
<1>1. Before(s) \in Documents
  BY NewDocumentType DEF Before, TypeOK
<1> QED BY <1>1, UpdatedIs, UpdateEffect, UserTypes

LEMMA SaveEffect ==
  ASSUME TypeOK, CallInv, NEW s \in Submissions, SaveProgress(s), NEW u \in Students, u = StudentOf[s]
  PROVE  /\ progress' \in [Students -> Documents \cup {None}]
         /\ progress'[u] \in Documents
         /\ progress'[u] = IF read[s] = None THEN Updated(s)
                           ELSE Merge(progress[u], read[s], Updated(s))
         /\ \A w \in Students \ {u} : progress'[w] = progress[w]
         /\ read[s] = None => progress[u] = None
<1> DEFINE doc == IF read[s] = None THEN Updated(s)
                  ELSE Merge(progress[u], read[s], Updated(s))
<1>1. progress' = [progress EXCEPT ![u] = doc] /\ (read[s] = None => progress[u] = None)
  BY DEF SaveProgress
<1>2. doc \in Documents
  <2>1. CASE read[s] = None
    BY <2>1, BeforeType
  <2>2. CASE read[s] # None
    <3>1. Updated(s) \in Documents /\ read[s] \in Documents
      BY <2>2, BeforeType DEF TypeOK
    <3>2. progress[u] \in Documents
      BY <2>2 DEF TypeOK, CallInv
    <3> QED BY <2>2, <3>1, <3>2, MergeEffect
  <2> QED BY <2>1, <2>2
<1> HIDE DEF doc
<1> QED BY <1>1, <1>2 DEF TypeOK, doc

Regular == TypeOK' /\ CallInv'

(* A call that moves on, or is given up, with nothing stored.               *)
LEMMA MoveRegular ==
  ASSUME TypeOK, CallInv, NEW s \in Submissions, NEW stage \in Stages, GoTo(s, stage),
         UNCHANGED <<status, verdict, read, progress>>,
         rate' \in Counts \cup {None}, counted' \in [Submissions -> Counts \cup {None}],
         number' \in [Submissions -> Nat], attempts' \in Nat, successes' \in Nat,
         failures' \in Nat,
         \/ pc[s] = "idle" /\ stage = "counted"
         \/ pc[s] \in {"judged", "recorded", "measured", "rated"} /\ stage \in {"measured", "rated"}
         \/ pc[s] \in {"running", "judged", "recorded", "measured", "rated"} /\ stage = "catching"
         \/ stage \in {"answered", "gone"}
  PROVE  Regular
<1>1. /\ pc' \in [Submissions -> Stages] /\ pc'[s] = stage
      /\ \A d \in Submissions \ {s} : pc'[d] = pc[d]
  BY GoToEffect
<1>2. TypeOK'
  BY <1>1 DEF TypeOK
<1>3. CallInv'
  <2> SUFFICES ASSUME NEW d \in Submissions
               PROVE  /\ pc'[d] \in {"idle", "counted"} => status[d] = None
                      /\ pc'[d] \in {"stored", "running", "judged", "recorded", "measured",
                                     "rated", "catching"} => status[d] # None
                      /\ pc'[d] \in {"idle", "counted", "stored", "running"} =>
                            verdict[d] = None
                      /\ pc'[d] \in {"judged", "recorded", "measured", "rated"} =>
                            verdict[d] # None /\ status[d] = verdict[d]
                      /\ read[d] # None => progress[StudentOf[d]] # None
    BY DEF CallInv
  <2> QED BY <1>1 DEF CallInv
<1> QED BY <1>2, <1>3 DEF Regular

LEMMA StoreRegular ==
  ASSUME TypeOK, CallInv, NEW s \in Submissions, StoreSubmission(s) \/ Catch(s)
  PROVE  Regular
<1>1. PICK stage \in {"stored", "answered"}, v \in {"running", "error"} :
         /\ GoTo(s, stage) /\ status' = [status EXCEPT ![s] = v]
         /\ UNCHANGED <<progressVars, number, verdict, statistics, failures>>
         /\ stage = "stored" => pc[s] = "counted"
  BY DEF StoreSubmission, Catch
<1>2. /\ pc' \in [Submissions -> Stages] /\ pc'[s] = stage
      /\ \A d \in Submissions \ {s} : pc'[d] = pc[d]
  BY <1>1, GoToEffect, StageNames
<1>3. /\ status'[s] = v /\ v # None /\ \A d \in Submissions \ {s} : status'[d] = status[d]
      /\ status' \in [Submissions -> {None, "running", "passed", "failed", "error"}]
  BY <1>1, SubmissionAssumption DEF TypeOK
<1>4. TypeOK'
  BY <1>1, <1>2, <1>3 DEF TypeOK, progressVars, statistics
<1>5. CallInv'
  BY <1>1, <1>2, <1>3 DEF CallInv, progressVars
<1> QED BY <1>4, <1>5 DEF Regular

LEMMA ReadRegular ==
  ASSUME TypeOK, CallInv, NEW s \in Submissions, ReadProgress(s)
  PROVE  Regular
<1>1. /\ pc[s] = "stored" /\ GoTo(s, "running")
      /\ read' = [read EXCEPT ![s] = progress[StudentOf[s]]]
      /\ UNCHANGED <<submissionVars, progress, statistics, failures>>
  BY DEF ReadProgress
<1>2. /\ pc' \in [Submissions -> Stages] /\ pc'[s] = "running"
      /\ \A d \in Submissions \ {s} : pc'[d] = pc[d]
  BY <1>1, GoToEffect, StageNames
<1>3. /\ read'[s] = progress[StudentOf[s]] /\ \A d \in Submissions \ {s} : read'[d] = read[d]
      /\ read' \in [Submissions -> Documents \cup {None}]
  BY <1>1, UserTypes DEF TypeOK
<1>4. TypeOK'
  BY <1>1, <1>2, <1>3 DEF TypeOK, submissionVars, statistics
<1>5. CallInv'
  BY <1>1, <1>2, <1>3 DEF CallInv, submissionVars
<1> QED BY <1>4, <1>5 DEF Regular

LEMMA JudgeEffect ==
  ASSUME TypeOK, CallInv, NEW s \in Submissions, Judge(s)
  PROVE  /\ pc[s] = "running" /\ pc'[s] = "judged" /\ verdict[s] = None
         /\ verdict'[s] \in {"passed", "failed"} /\ status'[s] = verdict'[s]
         /\ \A d \in Submissions \ {s} : /\ pc'[d] = pc[d] /\ status'[d] = status[d]
                                         /\ verdict'[d] = verdict[d]
         /\ UNCHANGED <<progressVars, number, statistics, failures>>
         /\ Regular
<1>1. PICK v \in {"passed", "failed"} :
         /\ verdict' = [verdict EXCEPT ![s] = v] /\ status' = [status EXCEPT ![s] = v]
         /\ pc[s] = "running" /\ GoTo(s, "judged")
         /\ UNCHANGED <<progressVars, number, statistics, failures>>
  BY DEF Judge
<1>2. /\ pc' \in [Submissions -> Stages] /\ pc'[s] = "judged"
      /\ \A d \in Submissions \ {s} : pc'[d] = pc[d]
  BY <1>1, GoToEffect, StageNames
<1>3. /\ verdict'[s] = v /\ status'[s] = v /\ v # None
      /\ \A d \in Submissions \ {s} : verdict'[d] = verdict[d] /\ status'[d] = status[d]
      /\ status' \in [Submissions -> {None, "running", "passed", "failed", "error"}]
      /\ verdict' \in [Submissions -> {None, "passed", "failed"}]
  BY <1>1, SubmissionAssumption DEF TypeOK
<1>4. TypeOK'
  BY <1>1, <1>2, <1>3 DEF TypeOK, progressVars, statistics
<1>5. CallInv'
  BY <1>1, <1>2, <1>3 DEF CallInv, progressVars
<1>6. verdict[s] = None
  BY <1>1 DEF CallInv
<1> QED BY <1>1, <1>2, <1>3, <1>4, <1>5, <1>6 DEF Regular

LEMMA SaveRegular ==
  ASSUME TypeOK, CallInv, NEW s \in Submissions, SaveProgress(s)
  PROVE  /\ pc[s] = "judged" /\ pc'[s] = "recorded"
         /\ \A d \in Submissions \ {s} : pc'[d] = pc[d]
         /\ UNCHANGED <<submissionVars, read, statistics, failures>>
         /\ Regular
<1>1. /\ pc[s] = "judged" /\ GoTo(s, "recorded")
      /\ UNCHANGED <<submissionVars, read, statistics, failures>>
  BY DEF SaveProgress
<1>2. /\ pc' \in [Submissions -> Stages] /\ pc'[s] = "recorded"
      /\ \A d \in Submissions \ {s} : pc'[d] = pc[d]
  BY <1>1, GoToEffect, StageNames
<1>3. PICK u \in Students : u = StudentOf[s]
  BY UserTypes
<1>4. /\ progress' \in [Students -> Documents \cup {None}] /\ progress'[u] \in Documents
      /\ \A w \in Students \ {u} : progress'[w] = progress[w]
  BY <1>3, SaveEffect
<1>5. TypeOK'
  BY <1>1, <1>2, <1>4 DEF TypeOK, submissionVars, statistics
<1>6. \A d \in Submissions : read[d] # None => progress'[StudentOf[d]] # None
  BY <1>4, DocumentFields, UserTypes DEF CallInv
<1>7. CallInv'
  <2> SUFFICES ASSUME NEW d \in Submissions
               PROVE  /\ pc'[d] \in {"idle", "counted"} => status[d] = None
                      /\ pc'[d] \in {"stored", "running", "judged", "recorded", "measured",
                                     "rated", "catching"} => status[d] # None
                      /\ pc'[d] \in {"idle", "counted", "stored", "running"} =>
                            verdict[d] = None
                      /\ pc'[d] \in {"judged", "recorded", "measured", "rated"} =>
                            verdict[d] # None /\ status[d] = verdict[d]
    BY <1>1, <1>6 DEF CallInv, submissionVars
  <2> QED BY <1>1, <1>2 DEF CallInv
<1> QED BY <1>1, <1>2, <1>5, <1>7 DEF Regular

(* The steps that leave progress, copies and verdicts alone, and move no     *)
(* call to where the code has run.                                          *)
Quiet == /\ UNCHANGED <<verdict, progress, read>>
         /\ \A s \in Submissions : pc'[s] \in {"running", "judged"} => pc'[s] = pc[s]

LEMMA QuietMoves ==
  ASSUME TypeOK, NEW s \in Submissions, NEW stage \in Stages \ {"running", "judged"},
         GoTo(s, stage), UNCHANGED <<verdict, progress, read>>
  PROVE  Quiet
BY GoToEffect DEF Quiet

LEMMA MovesRegular ==
  ASSUME TypeOK, CallInv, NEW s \in Submissions,
         \/ CountSubmissions(s) \/ RunFails(s) \/ InsertRefused(s) \/ CountAttempt(s)
         \/ SetRate(s) \/ Answer(s) \/ OperationFails(s)
  PROVE  Regular /\ Quiet
<1>1. CASE CountSubmissions(s)
  <2>1. /\ pc[s] = "idle" /\ GoTo(s, "counted")
        /\ UNCHANGED <<progressVars, status, verdict, statistics, failures>>
    BY <1>1 DEF CountSubmissions
  <2>2. number' \in [Submissions -> Nat]
    <3> DEFINE D == {d \in Submissions : Alike(s, d) /\ status[d] # None}
    <3>1. Cardinality(D) \in Nat
      BY SubmissionAssumption, FS_Subset, FS_CardinalityType
    <3> HIDE DEF D
    <3>2. number' = [number EXCEPT ![s] = 1 + Cardinality(D)]
      BY <1>1 DEF CountSubmissions, D
    <3> QED BY <3>1, <3>2 DEF TypeOK
  <2> QED BY <2>1, <2>2, MoveRegular, QuietMoves, StageNames
          DEF TypeOK, progressVars, statistics
<1>2. CASE RunFails(s) \/ InsertRefused(s) \/ SetRate(s) \/ Answer(s)
  BY <1>2, MoveRegular, QuietMoves, StageNames
     DEF TypeOK, RunFails, InsertRefused, SetRate, Answer, progressVars, statistics,
         submissionVars
<1>3. CASE CountAttempt(s)
  <2>1. /\ pc[s] = "recorded" /\ GoTo(s, "measured")
        /\ attempts' = attempts + 1 /\ successes' \in {successes, successes + 1}
        /\ counted' = [counted EXCEPT ![s] = <<successes', attempts'>>]
        /\ UNCHANGED <<submissionVars, progressVars, rate, failures>>
    BY <1>3 DEF CountAttempt
  <2>2. attempts' \in Nat /\ successes' \in Nat
    BY <2>1 DEF TypeOK
  <2>3. counted' \in [Submissions -> Counts \cup {None}]
    BY <2>1, <2>2 DEF TypeOK, Counts
  <2> QED BY <2>1, <2>2, <2>3, MoveRegular, QuietMoves, StageNames
          DEF TypeOK, progressVars, submissionVars
<1>4. CASE OperationFails(s)
  <2>1. /\ pc[s] \in Stages \ Ended /\ failures' = failures + 1
        /\ GoTo(s, IF pc[s] \in {"counted", "stored", "catching"} THEN "gone" ELSE "catching")
        /\ UNCHANGED <<submissionVars, progressVars, statistics>>
    BY <1>4 DEF OperationFails, TypeOK
  <2>2. failures' \in Nat
    BY <2>1 DEF TypeOK
  <2>3. CASE pc[s] \in {"counted", "stored", "catching"}
    BY <2>1, <2>2, <2>3, MoveRegular, QuietMoves, StageNames
       DEF TypeOK, progressVars, statistics, submissionVars
  <2>4. CASE pc[s] \notin {"counted", "stored", "catching"}
    <3>1. pc[s] \in {"running", "judged", "recorded", "measured", "rated"}
      BY <2>1, <2>4 DEF Stages, Ended
    <3> QED BY <2>1, <2>2, <2>4, <3>1, MoveRegular, QuietMoves, StageNames
            DEF TypeOK, progressVars, statistics, submissionVars
  <2> QED BY <2>3, <2>4
<1> QED BY <1>1, <1>2, <1>3, <1>4

LEMMA RestartRegular ==
  ASSUME TypeOK, CallInv, Restart
  PROVE  Regular /\ Quiet
<1>1. /\ failures' = failures + 1
      /\ pc' = [s \in Submissions |-> IF pc[s] \in Ended THEN pc[s] ELSE "gone"]
      /\ UNCHANGED <<submissionVars, progressVars, statistics>>
  BY DEF Restart
<1>2. \A s \in Submissions : (pc'[s] = pc[s] /\ pc[s] \in Ended) \/ pc'[s] = "gone"
  BY <1>1
<1>3. pc' \in [Submissions -> Stages]
  BY <1>1 DEF Stages, TypeOK
<1>4. TypeOK'
  BY <1>1, <1>3 DEF TypeOK, submissionVars, progressVars, statistics
<1>5. CallInv'
  BY <1>1, <1>2 DEF CallInv, submissionVars, progressVars
<1>6. Quiet
  BY <1>1, <1>2 DEF Quiet, submissionVars, progressVars
<1> QED BY <1>4, <1>5, <1>6 DEF Regular

LEMMA StoreQuiet ==
  ASSUME TypeOK, NEW s \in Submissions, StoreSubmission(s) \/ Catch(s)
  PROVE  Quiet
BY QuietMoves, StageNames DEF StoreSubmission, Catch, progressVars

LEMMA StepRegular ==
  ASSUME TypeOK, CallInv, [Next]_vars
  PROVE  /\ Regular
         /\ \/ Quiet
            \/ \E s \in Submissions : ReadProgress(s) \/ Judge(s) \/ SaveProgress(s)
<1>1. CASE UNCHANGED vars
  <2>1. Quiet
    BY <1>1 DEF vars, Quiet, submissionVars, progressVars
  <2>2. TypeOK' /\ CallInv'
    BY <1>1 DEF vars, submissionVars, progressVars, statistics, TypeOK, CallInv
  <2> QED BY <2>1, <2>2 DEF Regular
<1> QED BY <1>1, StoreRegular, StoreQuiet, ReadRegular, JudgeEffect, SaveRegular, MovesRegular,
        RestartRegular DEF Next, Step

LEMMA InitRegular == Init => TypeOK /\ CallInv
BY DEF Init, TypeOK, CallInv, Stages

LEMMA Registered == Spec => [](TypeOK /\ CallInv)
<1>1. TypeOK /\ CallInv /\ [Next]_vars => (TypeOK /\ CallInv)'
  BY StepRegular DEF Regular
<1> QED BY <1>1, InitRegular, PTL DEF Spec

(* Submissions, progress and statistics stay within their types, whatever    *)
(* fails.                                                                   *)
THEOREM ProgressTypes == Spec => []TypeOK
BY Registered, PTL

-----------------------------------------------------------------------------
(* Progress is earned.  What EarnedProgress says of a stored document holds  *)
(* of the copies that calls have read, and the runs that have been judged    *)
(* leave room for the attempt that is still to be recorded.                 *)

EarnedDoc(doc, u) ==
    /\ \A l \in Languages :
          /\ doc.solution[l] = "solved" => doc.best[l] # None
          /\ doc.best[l] # None => /\ doc.best[l] \in Judged(u, l)
                                   /\ verdict[doc.best[l]] = "passed"
          /\ doc.tries[l] <= Cardinality(Judged(u, l))
    /\ doc.overall = "solved" =>
          \E s \in Submissions : StudentOf[s] = u /\ verdict[s] = "passed"

EarnedRead(doc, u, l, s) ==
    /\ EarnedDoc(doc, u)
    /\ \A k \in Languages : doc.best[k] # s
    /\ pc[s] = "judged" => doc.tries[l] + 1 <= Cardinality(Judged(u, l))

ReadInv ==
    \A s \in Submissions : pc[s] \in {"running", "judged"} =>
        \A doc \in Documents, u \in Students, l \in Languages :
            doc = Before(s) /\ u = StudentOf[s] /\ l = LanguageOf[s] => EarnedRead(doc, u, l, s)

EarnedInv == TypeOK /\ CallInv /\ EarnedProgress /\ ReadInv

LEMMA EarnedIs ==
  EarnedProgress <=> \A u \in Students : progress[u] # None => EarnedDoc(progress[u], u)
BY DEF EarnedProgress, EarnedDoc

LEMMA JudgedType ==
  ASSUME NEW u, NEW l
  PROVE  /\ IsFiniteSet(Judged(u, l)) /\ Cardinality(Judged(u, l)) \in Nat
         /\ IsFiniteSet(Judged(u, l)') /\ Cardinality(Judged(u, l)') \in Nat
BY SubmissionAssumption, FS_Subset, FS_CardinalityType DEF Judged

VerdictsStay == \A s \in Submissions : verdict[s] # None => verdict'[s] = verdict[s]

LEMMA JudgedGrows ==
  ASSUME VerdictsStay, NEW u, NEW l
  PROVE  /\ Judged(u, l) \subseteq Judged(u, l)'
         /\ Cardinality(Judged(u, l)) <= Cardinality(Judged(u, l)')
<1>1. Judged(u, l) \subseteq Judged(u, l)'
  BY DEF Judged, VerdictsStay
<1> QED BY <1>1, JudgedType, FS_Subset

LEMMA EarnedGrows ==
  ASSUME VerdictsStay, NEW doc \in Documents, NEW u, EarnedDoc(doc, u),
         TypeOK
  PROVE  EarnedDoc(doc, u)'
<1>1. ASSUME NEW l \in Languages
      PROVE  /\ doc.solution[l] = "solved" => doc.best[l] # None
             /\ doc.best[l] # None => /\ doc.best[l] \in Judged(u, l)'
                                      /\ verdict'[doc.best[l]] = "passed"
             /\ doc.tries[l] <= Cardinality(Judged(u, l)')
  <2>1. /\ doc.solution[l] = "solved" => doc.best[l] # None
        /\ doc.best[l] # None => /\ doc.best[l] \in Judged(u, l)
                                 /\ verdict[doc.best[l]] = "passed"
        /\ doc.tries[l] <= Cardinality(Judged(u, l))
    BY DEF EarnedDoc
  <2>2. /\ Judged(u, l) \subseteq Judged(u, l)'
        /\ Cardinality(Judged(u, l)) <= Cardinality(Judged(u, l)')
        /\ Cardinality(Judged(u, l)) \in Nat /\ Cardinality(Judged(u, l)') \in Nat
        /\ doc.tries[l] \in Nat
    BY JudgedGrows, JudgedType, DocumentFields
  <2>3. doc.best[l] # None => verdict'[doc.best[l]] = verdict[doc.best[l]]
    BY <2>1, DocumentFields DEF Judged, VerdictsStay
  <2> QED BY <2>1, <2>2, <2>3
<1>2. doc.overall = "solved" => \E s \in Submissions : StudentOf[s] = u /\ verdict'[s] = "passed"
  BY SubmissionAssumption DEF EarnedDoc, VerdictsStay
<1> QED BY <1>1, <1>2 DEF EarnedDoc

LEMMA NewEarned ==
  ASSUME NEW u
  PROVE  EarnedDoc(NewDocument, u)
<1>1. \A l \in Languages : Cardinality(Judged(u, l)) >= 0
  BY JudgedType
<1> QED BY <1>1 DEF EarnedDoc, NewDocument

LEMMA EarnedNext ==
  ASSUME TypeOK',
         \A u \in Students, doc \in Documents : doc = progress'[u] => EarnedDoc(doc, u)'
  PROVE  EarnedProgress'
<1> SUFFICES ASSUME NEW u \in Students, progress'[u] # None
             PROVE  /\ \A l \in Languages :
                          /\ progress'[u].solution[l] = "solved" => progress'[u].best[l] # None
                          /\ progress'[u].best[l] # None =>
                                /\ progress'[u].best[l] \in Judged(u, l)'
                                /\ verdict'[progress'[u].best[l]] = "passed"
                          /\ progress'[u].tries[l] <= Cardinality(Judged(u, l)')
                    /\ progress'[u].overall = "solved" =>
                          \E s \in Submissions : StudentOf[s] = u /\ verdict'[s] = "passed"
  BY DEF EarnedProgress
<1>1. PICK doc \in Documents : doc = progress'[u]
  BY DEF TypeOK
<1>2. EarnedDoc(doc, u)'
  BY <1>1
<1> QED BY <1>1, <1>2 DEF EarnedDoc

LEMMA SameEarned ==
  ASSUME EarnedInv, VerdictsStay, progress' = progress, TypeOK'
  PROVE  EarnedProgress'
<1>1. ASSUME NEW u \in Students, NEW doc \in Documents, doc = progress'[u]
      PROVE  EarnedDoc(doc, u)'
  BY <1>1, EarnedGrows, EarnedIs, DocumentFields DEF EarnedInv
<1> QED BY <1>1, EarnedNext

LEMMA QuietEarned ==
  ASSUME EarnedInv, Quiet, TypeOK'
  PROVE  EarnedProgress' /\ ReadInv'
<1>1. VerdictsStay /\ \A u, l : Judged(u, l)' = Judged(u, l)
  BY DEF Quiet, VerdictsStay, Judged
<1>2. EarnedProgress'
  BY <1>1, SameEarned DEF Quiet
<1>3. ReadInv'
  <2> SUFFICES ASSUME NEW s \in Submissions, pc'[s] \in {"running", "judged"},
                      NEW doc \in Documents, NEW u \in Students, NEW l \in Languages,
                      doc = Before(s)', u = StudentOf[s], l = LanguageOf[s]
               PROVE  EarnedRead(doc, u, l, s)'
    BY DEF ReadInv
  <2>1. pc[s] = pc'[s] /\ doc = Before(s)
    BY DEF Quiet, Before
  <2>2. EarnedRead(doc, u, l, s)
    BY <2>1 DEF EarnedInv, ReadInv
  <2>3. EarnedDoc(doc, u)'
    BY <1>1, <2>2, EarnedGrows DEF EarnedRead, EarnedInv
  <2>4. pc'[s] = "judged" => doc.tries[l] + 1 <= Cardinality(Judged(u, l)')
    BY <1>1, <2>1, <2>2 DEF EarnedRead
  <2> QED BY <2>2, <2>3, <2>4 DEF EarnedRead
<1> QED BY <1>2, <1>3

LEMMA ReadEarned ==
  ASSUME EarnedInv, NEW s \in Submissions, ReadProgress(s)
  PROVE  EarnedProgress' /\ ReadInv'
<1>0. TypeOK /\ CallInv /\ EarnedProgress /\ ReadInv
  BY DEF EarnedInv
<1>1. /\ pc[s] = "stored" /\ pc'[s] = "running" /\ read'[s] = progress[StudentOf[s]]
      /\ \A d \in Submissions \ {s} : pc'[d] = pc[d] /\ read'[d] = read[d]
      /\ UNCHANGED <<verdict, progress>> /\ verdict[s] = None
  BY <1>0, GoToEffect, StageNames DEF ReadProgress, TypeOK, submissionVars, CallInv
<1>2. VerdictsStay /\ \A u, l : Judged(u, l)' = Judged(u, l)
  BY <1>1 DEF VerdictsStay, Judged
<1>3. EarnedProgress'
  BY <1>0, <1>1, <1>2, SameEarned, ReadRegular DEF Regular
<1>4. ReadInv'
  <2> SUFFICES ASSUME NEW d \in Submissions, pc'[d] \in {"running", "judged"},
                      NEW doc \in Documents, NEW u \in Students, NEW l \in Languages,
                      doc = Before(d)', u = StudentOf[d], l = LanguageOf[d]
               PROVE  EarnedRead(doc, u, l, d)'
    BY DEF ReadInv
  <2>1. CASE d # s
    <3>1. pc[d] = pc'[d] /\ doc = Before(d)
      BY <1>1, <2>1 DEF Before
    <3>2. EarnedRead(doc, u, l, d)
      BY <1>0, <3>1 DEF ReadInv
    <3>3. EarnedDoc(doc, u)'
      BY <1>0, <1>2, <3>2, EarnedGrows DEF EarnedRead
    <3>4. pc'[d] = "judged" => doc.tries[l] + 1 <= Cardinality(Judged(u, l)')
      BY <1>2, <3>1, <3>2 DEF EarnedRead
    <3> QED BY <3>2, <3>3, <3>4 DEF EarnedRead
  <2>2. CASE d = s
    <3>1. doc = IF progress[u] = None THEN NewDocument ELSE progress[u]
      BY <1>1, <2>2 DEF Before
    <3>2. EarnedDoc(doc, u)
      BY <1>0, <3>1, NewEarned, EarnedIs
    <3>3. \A k \in Languages : doc.best[k] # d
      <4> SUFFICES ASSUME NEW k \in Languages, doc.best[k] = d PROVE FALSE
        OBVIOUS
      <4>1. d # None
        BY UserTypes
      <4>2. d \in Judged(u, k)
        BY <3>2, <4>1 DEF EarnedDoc
      <4> QED BY <1>1, <2>2, <4>2 DEF Judged
    <3>4. EarnedDoc(doc, u)'
      BY <1>0, <1>2, <3>2, EarnedGrows
    <3> QED BY <1>1, <2>2, <3>3, <3>4 DEF EarnedRead
  <2> QED BY <2>1, <2>2
<1> QED BY <1>3, <1>4

LEMMA JudgeEarned ==
  ASSUME EarnedInv, NEW s \in Submissions, Judge(s)
  PROVE  EarnedProgress' /\ ReadInv'
<1>0. TypeOK /\ CallInv /\ EarnedProgress /\ ReadInv
  BY DEF EarnedInv
<1>1. /\ pc[s] = "running" /\ pc'[s] = "judged" /\ verdict[s] = None
      /\ verdict'[s] \in {"passed", "failed"}
      /\ \A d \in Submissions \ {s} : pc'[d] = pc[d] /\ verdict'[d] = verdict[d]
      /\ UNCHANGED progressVars
  BY <1>0, JudgeEffect
<1>2. VerdictsStay /\ progress' = progress /\ read' = read
  BY <1>1 DEF VerdictsStay, progressVars
<1>3. EarnedProgress'
  BY <1>0, <1>2, SameEarned, JudgeEffect DEF Regular
<1>4. ReadInv'
  <2> SUFFICES ASSUME NEW d \in Submissions, pc'[d] \in {"running", "judged"},
                      NEW doc \in Documents, NEW u \in Students, NEW l \in Languages,
                      doc = Before(d)', u = StudentOf[d], l = LanguageOf[d]
               PROVE  EarnedRead(doc, u, l, d)'
    BY DEF ReadInv
  <2>1. doc = Before(d) /\ pc[d] \in {"running", "judged"}
    BY <1>1, <1>2 DEF Before
  <2>2. EarnedRead(doc, u, l, d)
    BY <1>0, <2>1 DEF ReadInv
  <2>3. EarnedDoc(doc, u)'
    BY <1>0, <1>2, <2>2, EarnedGrows DEF EarnedRead
  <2>4. /\ Cardinality(Judged(u, l)) <= Cardinality(Judged(u, l)')
        /\ Cardinality(Judged(u, l)) \in Nat /\ Cardinality(Judged(u, l)') \in Nat
        /\ doc.tries[l] \in Nat
    BY <1>2, JudgedGrows, JudgedType, DocumentFields
  <2>5. ASSUME pc'[d] = "judged" PROVE doc.tries[l] + 1 <= Cardinality(Judged(u, l)')
    <3>1. CASE d # s
      BY <1>1, <2>2, <2>4, <2>5, <3>1 DEF EarnedRead
    <3>2. CASE d = s
      <4>1. Judged(u, l)' = Judged(u, l) \cup {s} /\ s \notin Judged(u, l)
        BY <1>1, <3>2, SubmissionAssumption DEF Judged
      <4>2. Cardinality(Judged(u, l)') = Cardinality(Judged(u, l)) + 1
        <5>1. IsFiniteSet(Judged(u, l))
          BY JudgedType
        <5>2. Cardinality(Judged(u, l) \cup {s}) = Cardinality(Judged(u, l)) + 1
          BY <4>1, <5>1, FS_AddElement
        <5> QED BY <4>1, <5>2
      <4>3. doc.tries[l] <= Cardinality(Judged(u, l))
        BY <2>2 DEF EarnedRead, EarnedDoc
      <4> QED BY <2>4, <4>2, <4>3
    <3> QED BY <3>1, <3>2
  <2> QED BY <2>2, <2>3, <2>5 DEF EarnedRead
<1> QED BY <1>3, <1>4

(* The document that a call has updated in memory.                          *)
LEMMA AfterEarned ==
  ASSUME EarnedInv, NEW s \in Submissions, pc[s] = "judged",
         NEW u \in Students, u = StudentOf[s]
  PROVE  EarnedDoc(Updated(s), u)
<1> DEFINE l == LanguageOf[s]
           v == verdict[s]
           b == Before(s)
           a == Updated(s)
<1>1. /\ l \in Languages /\ s # None /\ b \in Documents /\ a \in Documents
      /\ a = After(b, l, v, s)
  BY BeforeType, UserTypes, UpdatedIs DEF EarnedInv
<1>2. EarnedRead(b, u, l, s)
  BY <1>1 DEF EarnedInv, ReadInv
<1>3. /\ EarnedDoc(b, u) /\ b.tries[l] + 1 <= Cardinality(Judged(u, l))
  BY <1>2 DEF EarnedRead
<1>4. s \in Judged(u, l)
  BY DEF EarnedInv, CallInv, Judged
<1> HIDE DEF a, b, l, v
<1>5. /\ \A k \in Languages \ {l} : /\ a.solution[k] = b.solution[k]
                                    /\ a.tries[k] = b.tries[k] /\ a.best[k] = b.best[k]
      /\ a.solution[l] = IF v = "passed" THEN "solved"
                         ELSE IF b.solution[l] = "not_attempted" THEN "attempted"
                         ELSE b.solution[l]
      /\ a.tries[l] = b.tries[l] + 1
      /\ a.best[l] = IF v = "passed" THEN s ELSE b.best[l]
      /\ a.overall = "solved" => \/ \E k \in Languages : a.solution[k] = "solved"
                                 \/ b.overall = "solved"
  BY <1>1, UpdateEffect
<1>6. /\ \A k \in Languages : /\ b.solution[k] = "solved" => b.best[k] # None
                              /\ b.best[k] # None => /\ b.best[k] \in Judged(u, k)
                                                     /\ verdict[b.best[k]] = "passed"
                              /\ b.tries[k] <= Cardinality(Judged(u, k))
      /\ b.overall = "solved" =>
            \E d \in Submissions : StudentOf[d] = u /\ verdict[d] = "passed"
  BY <1>3 DEF EarnedDoc
<1>7. ASSUME NEW k \in Languages
      PROVE  /\ a.solution[k] = "solved" => a.best[k] # None
             /\ a.best[k] # None => /\ a.best[k] \in Judged(u, k)
                                    /\ verdict[a.best[k]] = "passed"
             /\ a.tries[k] <= Cardinality(Judged(u, k))
  <2>1. CASE k # l
    BY <1>5, <1>6, <2>1
  <2>2. CASE k = l
    BY <1>1, <1>3, <1>4, <1>5, <1>6, <2>2 DEF v
  <2> QED BY <2>1, <2>2
<1>8. a.overall = "solved" => \E d \in Submissions : StudentOf[d] = u /\ verdict[d] = "passed"
  BY <1>5, <1>6, <1>7 DEF Judged
<1> QED BY <1>7, <1>8 DEF EarnedDoc, a

LEMMA MergedEarned ==
  ASSUME EarnedInv, NEW s \in Submissions, pc[s] = "judged", read[s] # None,
         NEW u \in Students, u = StudentOf[s]
  PROVE  EarnedDoc(Merge(progress[u], read[s], Updated(s)), u)
<1> DEFINE l == LanguageOf[s]
           v == verdict[s]
           p == progress[u]
           b == read[s]
           a == Updated(s)
           m == Merge(p, b, a)
<1>1. /\ l \in Languages /\ s # None /\ b \in Documents /\ a \in Documents /\ p \in Documents
      /\ b = Before(s) /\ a = After(b, l, v, s)
  BY BeforeType, UserTypes, UpdatedIs DEF EarnedInv, TypeOK, CallInv, Before
<1>2. EarnedDoc(a, u) /\ EarnedDoc(p, u)
  BY <1>1, AfterEarned, EarnedIs, DocumentFields DEF EarnedInv
<1>3. \A k \in Languages : b.best[k] # s
  BY <1>1 DEF EarnedInv, ReadInv, EarnedRead
<1> HIDE DEF a, b, p, l, v
<1>4. /\ \A k \in Languages \ {l} : a.solution[k] = b.solution[k] /\ a.best[k] = b.best[k]
      /\ a.solution[l] = IF v = "passed" THEN "solved"
                         ELSE IF b.solution[l] = "not_attempted" THEN "attempted"
                         ELSE b.solution[l]
      /\ a.best[l] = IF v = "passed" THEN s ELSE b.best[l]
  BY <1>1, UpdateEffect
<1>5. /\ \A k \in Languages :
            /\ m.solution[k] = Changed(p.solution[k], b.solution[k], a.solution[k])
            /\ m.tries[k] = Changed(p.tries[k], b.tries[k], a.tries[k])
            /\ m.best[k] = Changed(p.best[k], b.best[k], a.best[k])
      /\ m.overall = Changed(p.overall, b.overall, a.overall)
  BY <1>1, MergeEffect
<1> HIDE DEF m
<1>6. ASSUME NEW k \in Languages
      PROVE  /\ m.solution[k] = "solved" => m.best[k] # None
             /\ m.best[k] # None => /\ m.best[k] \in Judged(u, k)
                                    /\ verdict[m.best[k]] = "passed"
             /\ m.tries[k] <= Cardinality(Judged(u, k))
  <2>1. /\ m.best[k] \in {p.best[k], a.best[k]} /\ m.tries[k] \in {p.tries[k], a.tries[k]}
    BY <1>5 DEF Changed
  <2>2. /\ p.solution[k] = "solved" => p.best[k] # None
        /\ p.best[k] # None => p.best[k] \in Judged(u, k) /\ verdict[p.best[k]] = "passed"
        /\ a.best[k] # None => a.best[k] \in Judged(u, k) /\ verdict[a.best[k]] = "passed"
        /\ p.tries[k] <= Cardinality(Judged(u, k)) /\ a.tries[k] <= Cardinality(Judged(u, k))
    BY <1>2 DEF EarnedDoc
  <2>3. CASE k = l /\ v = "passed"
    <3>1. m.best[k] = s
      BY <1>3, <1>4, <1>5, <2>3 DEF Changed
    <3> QED BY <1>1, <2>1, <2>2, <3>1
  <2>4. CASE ~(k = l /\ v = "passed")
    <3>1. m.best[k] = p.best[k] /\ (m.solution[k] = "solved" => p.solution[k] = "solved")
      BY <1>4, <1>5, <2>4 DEF Changed
    <3> QED BY <2>1, <2>2, <3>1
  <2> QED BY <2>3, <2>4
<1>7. m.overall = "solved" => \E d \in Submissions : StudentOf[d] = u /\ verdict[d] = "passed"
  BY <1>2, <1>5 DEF EarnedDoc, Changed
<1> QED BY <1>6, <1>7 DEF EarnedDoc, m, p, b, a

LEMMA SaveEarned ==
  ASSUME EarnedInv, NEW s \in Submissions, SaveProgress(s)
  PROVE  EarnedProgress' /\ ReadInv'
<1>0. TypeOK /\ CallInv /\ EarnedProgress /\ ReadInv
  BY DEF EarnedInv
<1>1. /\ pc[s] = "judged" /\ pc'[s] = "recorded" /\ \A d \in Submissions \ {s} : pc'[d] = pc[d]
      /\ UNCHANGED <<verdict, read>> /\ TypeOK'
  BY <1>0, SaveRegular DEF Regular, submissionVars
<1>2. VerdictsStay /\ \A u, l : Judged(u, l)' = Judged(u, l)
  BY <1>1 DEF VerdictsStay, Judged
<1>3. PICK w \in Students : w = StudentOf[s]
  BY UserTypes
<1>4. /\ progress'[w] = IF read[s] = None THEN Updated(s)
                        ELSE Merge(progress[w], read[s], Updated(s))
      /\ \A u \in Students \ {w} : progress'[u] = progress[u]
  BY <1>0, <1>3, SaveEffect
<1>5. ASSUME NEW u \in Students, NEW doc \in Documents, doc = progress'[u]
      PROVE  EarnedDoc(doc, u)'
  <2>1. EarnedDoc(doc, u)
    <3>1. CASE u # w
      BY <1>0, <1>4, <1>5, <3>1, EarnedIs, DocumentFields
    <3>2. CASE u = w
      BY <1>1, <1>3, <1>4, <1>5, <3>2, AfterEarned, MergedEarned
    <3> QED BY <3>1, <3>2
  <2> QED BY <1>0, <1>2, <2>1, EarnedGrows
<1>6. EarnedProgress'
  BY <1>1, <1>5, EarnedNext
<1>7. ReadInv'
  <2> SUFFICES ASSUME NEW d \in Submissions, pc'[d] \in {"running", "judged"},
                      NEW doc \in Documents, NEW u \in Students, NEW l \in Languages,
                      doc = Before(d)', u = StudentOf[d], l = LanguageOf[d]
               PROVE  EarnedRead(doc, u, l, d)'
    BY DEF ReadInv
  <2>1. pc[d] = pc'[d] /\ doc = Before(d)
    BY <1>1 DEF Before
  <2>2. EarnedRead(doc, u, l, d)
    BY <1>0, <2>1 DEF ReadInv
  <2>3. EarnedDoc(doc, u)'
    BY <1>0, <1>2, <2>2, EarnedGrows DEF EarnedRead
  <2>4. pc'[d] = "judged" => doc.tries[l] + 1 <= Cardinality(Judged(u, l)')
    BY <1>2, <2>1, <2>2 DEF EarnedRead
  <2> QED BY <2>2, <2>3, <2>4 DEF EarnedRead
<1> QED BY <1>6, <1>7

LEMMA InitEarned == Init => EarnedInv
<1> SUFFICES ASSUME Init PROVE EarnedProgress /\ ReadInv
  BY InitRegular DEF EarnedInv
<1> QED BY DEF Init, EarnedProgress, ReadInv

LEMMA EarnedKept == Spec => []EarnedInv
<1>1. EarnedInv /\ [Next]_vars => EarnedInv'
  <2> SUFFICES ASSUME EarnedInv, [Next]_vars PROVE EarnedInv'
    OBVIOUS
  <2>1. /\ Regular
        /\ Quiet \/ \E s \in Submissions : ReadProgress(s) \/ Judge(s) \/ SaveProgress(s)
    BY StepRegular DEF EarnedInv
  <2>2. EarnedProgress' /\ ReadInv'
    BY <2>1, QuietEarned, ReadEarned, JudgeEarned, SaveEarned DEF Regular
  <2> QED BY <2>1, <2>2 DEF Regular, EarnedInv
<1> QED BY <1>1, InitEarned, PTL DEF Spec

(* However submissions of any users overlap and whatever fails, a language   *)
(* shown as solved, a best submission and an overall status solved are owed  *)
(* to runs that passed, and no attempt is counted without a run.             *)
THEOREM ProgressEarned == Spec => []EarnedProgress
<1>1. EarnedInv => EarnedProgress
  BY DEF EarnedInv
<1> QED BY <1>1, EarnedKept, PTL

-----------------------------------------------------------------------------
(* Students who wait for the answer have one call at a time.                 *)

Stored(u, l) == {s \in Submissions : /\ StudentOf[s] = u /\ LanguageOf[s] = l
                                     /\ status[s] # None}

OneCall ==
    \A s, d \in Submissions :
        /\ StudentOf[s] \in Careful /\ StudentOf[d] = StudentOf[s]
        /\ pc[s] \notin Ended /\ pc[d] \notin Ended
        => s = d

ReadFresh ==
    \A s \in Submissions : StudentOf[s] \in Careful /\ pc[s] \in {"running", "judged"} =>
        read[s] = progress[StudentOf[s]]

SolvedDoc(doc, l) == doc # None /\ doc.solution[l] = "solved" /\ doc.overall = "solved"

SolvedInv ==
    \A s \in Submissions, u \in Careful, l \in Languages :
        /\ StudentOf[s] = u /\ LanguageOf[s] = l
        /\ \/ pc[s] \in {"recorded", "measured", "rated"} /\ verdict[s] = "passed"
           \/ pc[s] = "answered" /\ status[s] = "passed"
        => SolvedDoc(progress[u], l)

Numbered ==
    \A s \in Submissions, u \in Careful, l \in Languages :
        StudentOf[s] = u /\ LanguageOf[s] = l =>
            /\ pc[s] = "counted" => number[s] = 1 + Cardinality(Stored(u, l))
            /\ status[s] # None =>
                  /\ number[s] <= Cardinality(Stored(u, l))
                  /\ \A d \in Stored(u, l) : d # s => number[d] # number[s]

CarefulInv == TypeOK /\ CallInv /\ OneCall /\ ReadFresh /\ SolvedInv /\ Numbered

LEMMA StoredType ==
  ASSUME NEW u, NEW l
  PROVE  IsFiniteSet(Stored(u, l)) /\ Cardinality(Stored(u, l)) \in Nat
BY SubmissionAssumption, FS_Subset, FS_CardinalityType DEF Stored

(* The steps that begin nothing, record nothing and number nothing.          *)
Settling ==
    /\ UNCHANGED <<verdict, progress, read, number>>
    /\ \A d \in Submissions :
          /\ status'[d] = None <=> status[d] = None
          /\ pc'[d] \notin Ended => pc[d] \notin Ended
          /\ pc'[d] \in {"counted", "running", "judged"} => pc'[d] = pc[d]
          /\ pc'[d] \in {"recorded", "measured", "rated"} =>
                pc[d] \in {"recorded", "measured", "rated"}
          /\ pc'[d] = "answered" /\ status'[d] = "passed" =>
                pc[d] \in {"rated", "answered"} /\ status[d] = "passed"

LEMMA SettlingCareful ==
  ASSUME CarefulInv, Settling, Regular
  PROVE  CarefulInv'
<1>1. OneCall'
  BY DEF CarefulInv, OneCall, Settling
<1>2. ReadFresh'
  BY DEF CarefulInv, ReadFresh, Settling
<1>3. SolvedInv'
  <2> SUFFICES ASSUME NEW s \in Submissions, NEW u \in Careful, NEW l \in Languages,
                      StudentOf[s] = u, LanguageOf[s] = l,
                      \/ pc'[s] \in {"recorded", "measured", "rated"} /\ verdict'[s] = "passed"
                      \/ pc'[s] = "answered" /\ status'[s] = "passed"
               PROVE  SolvedDoc(progress[u], l)
    BY DEF SolvedInv, Settling, SolvedDoc
  <2>1. \/ pc[s] \in {"recorded", "measured", "rated"} /\ verdict[s] = "passed"
        \/ pc[s] = "answered" /\ status[s] = "passed"
    BY DEF Settling, CarefulInv, CallInv
  <2> QED BY <2>1 DEF CarefulInv, SolvedInv
<1>4. Numbered'
  <2>1. \A u, l : Stored(u, l)' = Stored(u, l)
    BY DEF Settling, Stored
  <2> QED BY <2>1 DEF CarefulInv, Numbered, Settling
<1> QED BY <1>1, <1>2, <1>3, <1>4 DEF CarefulInv, Regular

LEMMA SettlingSteps ==
  ASSUME CarefulInv, NEW s \in Submissions,
         \/ RunFails(s) \/ InsertRefused(s) \/ CountAttempt(s) \/ SetRate(s) \/ Answer(s)
         \/ OperationFails(s) \/ Catch(s)
  PROVE  Settling
<1>0. TypeOK /\ CallInv
  BY DEF CarefulInv
<1>1. CASE Catch(s)
  <2>1. /\ pc[s] = "catching" /\ pc'[s] = "answered"
        /\ \A d \in Submissions \ {s} : pc'[d] = pc[d]
    BY <1>0, <1>1, GoToEffect, StageNames DEF Catch
  <2>2. /\ status'[s] = "error" /\ status[s] # None
        /\ \A d \in Submissions \ {s} : status'[d] = status[d]
        /\ UNCHANGED <<verdict, progress, read, number>>
    BY <1>0, <1>1 DEF Catch, TypeOK, CallInv, progressVars
  <2> QED BY <2>1, <2>2, SubmissionAssumption DEF Settling, Ended
<1>2. ASSUME NEW stage \in {"catching", "measured", "rated", "answered", "gone"},
             pc[s] \notin Ended, GoTo(s, stage),
             UNCHANGED <<submissionVars, progressVars>>,
             stage \in {"measured", "rated"} => pc[s] \in {"recorded", "measured", "rated"},
             stage = "answered" => pc[s] = "rated"
      PROVE  Settling
  <2>1. /\ pc'[s] = stage /\ \A d \in Submissions \ {s} : pc'[d] = pc[d]
    BY <1>0, <1>2, GoToEffect, StageNames
  <2> QED BY <1>2, <2>1 DEF Settling, Ended, submissionVars, progressVars
<1>3. CASE RunFails(s)
  BY <1>2, <1>3 DEF RunFails, Ended
<1>4. CASE InsertRefused(s)
  BY <1>2, <1>4 DEF InsertRefused, Ended
<1>5. CASE CountAttempt(s)
  BY <1>2, <1>5 DEF CountAttempt, Ended
<1>6. CASE SetRate(s)
  BY <1>2, <1>6 DEF SetRate, Ended
<1>7. CASE Answer(s)
  BY <1>2, <1>7 DEF Answer, Ended
<1>8. CASE OperationFails(s)
  BY <1>2, <1>8 DEF OperationFails
<1> QED BY <1>1, <1>3, <1>4, <1>5, <1>6, <1>7, <1>8

LEMMA RestartSettles ==
  ASSUME CarefulInv, Restart
  PROVE  Settling
<1>1. \A s \in Submissions : (pc'[s] = pc[s] /\ pc[s] \in Ended) \/ pc'[s] = "gone"
  BY DEF Restart
<1>2. UNCHANGED <<status, verdict, progress, read, number>>
  BY DEF Restart, submissionVars, progressVars
<1> QED BY <1>1, <1>2 DEF Settling, Ended

(* The others of a student whose call takes a step are over.                 *)
LEMMA OthersOver ==
  ASSUME CarefulInv, NEW s \in Submissions, pc[s] \notin Ended, StudentOf[s] \in Careful,
         NEW d \in Submissions, d # s, StudentOf[d] = StudentOf[s]
  PROVE  pc[d] \in Ended
BY DEF CarefulInv, OneCall

LEMMA CountCareful ==
  ASSUME CarefulInv, NEW s \in Submissions, CountSubmissions(s)
  PROVE  CarefulInv'
<1>0. TypeOK /\ CallInv /\ Regular
  BY MovesRegular DEF CarefulInv
<1>1. /\ pc[s] = "idle" /\ pc'[s] = "counted" /\ \A d \in Submissions \ {s} : pc'[d] = pc[d]
      /\ status[s] = None /\ UNCHANGED <<progressVars, status, verdict>>
  BY <1>0, GoToEffect, StageNames DEF CountSubmissions, CallInv
<1>2. StudentOf[s] \in Careful => \A d \in Submissions : StudentOf[d] = StudentOf[s] => pc[d] \in Ended
  BY DEF CountSubmissions, MayStart, Careful
<1>3. OneCall'
  BY <1>1, <1>2 DEF CarefulInv, OneCall
<1>4. ReadFresh' /\ SolvedInv'
  BY <1>1 DEF CarefulInv, ReadFresh, SolvedInv, progressVars
<1>5. number'[s] = 1 + Cardinality(Stored(StudentOf[s], LanguageOf[s]))
      /\ \A d \in Submissions \ {s} : number'[d] = number[d]
  <2> DEFINE D == {d \in Submissions : Alike(s, d) /\ status[d] # None}
  <2>1. number' = [number EXCEPT ![s] = 1 + Cardinality(D)]
    BY DEF CountSubmissions
  <2>2. D = Stored(StudentOf[s], LanguageOf[s])
    BY DEF Stored, Alike
  <2> HIDE DEF D
  <2> QED BY <1>0, <2>1, <2>2 DEF TypeOK
<1>6. Numbered'
  <2>1. \A u, l : Stored(u, l)' = Stored(u, l) /\ s \notin Stored(u, l)
    BY <1>1 DEF Stored
  <2> QED BY <1>1, <1>5, <2>1 DEF CarefulInv, Numbered, Stored
<1> QED BY <1>0, <1>3, <1>4, <1>6 DEF CarefulInv, Regular

LEMMA StoreCareful ==
  ASSUME CarefulInv, NEW s \in Submissions, StoreSubmission(s)
  PROVE  CarefulInv'
<1>0. TypeOK /\ CallInv /\ Regular
  BY StoreRegular DEF CarefulInv
<1>1. /\ pc[s] = "counted" /\ pc'[s] = "stored" /\ \A d \in Submissions \ {s} : pc'[d] = pc[d]
      /\ status[s] = None /\ status'[s] # None
      /\ \A d \in Submissions \ {s} : status'[d] = status[d]
      /\ UNCHANGED <<progressVars, number, verdict>>
  BY <1>0, GoToEffect, StageNames, SubmissionAssumption DEF StoreSubmission, CallInv, TypeOK
<1>2. OneCall'
  BY <1>1 DEF CarefulInv, OneCall, Ended
<1>3. ReadFresh' /\ SolvedInv'
  BY <1>1 DEF CarefulInv, ReadFresh, SolvedInv, progressVars
<1>4. Numbered'
  <2> SUFFICES ASSUME NEW d \in Submissions, NEW u \in Careful, NEW l \in Languages,
                      StudentOf[d] = u, LanguageOf[d] = l
               PROVE  /\ pc'[d] = "counted" => number[d] = 1 + Cardinality(Stored(u, l)')
                      /\ status'[d] # None =>
                            /\ number[d] <= Cardinality(Stored(u, l)')
                            /\ \A e \in Stored(u, l)' : e # d => number[e] # number[d]
    BY <1>1 DEF Numbered
  <2>1. /\ pc[d] = "counted" => number[d] = 1 + Cardinality(Stored(u, l))
        /\ status[d] # None =>
              /\ number[d] <= Cardinality(Stored(u, l))
              /\ \A e \in Stored(u, l) : e # d => number[e] # number[d]
    BY DEF CarefulInv, Numbered
  <2>2. CASE StudentOf[s] = u /\ LanguageOf[s] = l
    <3>1. Stored(u, l)' = Stored(u, l) \cup {s} /\ s \notin Stored(u, l)
      BY <1>1, <2>2 DEF Stored
    <3>2. /\ Cardinality(Stored(u, l)') = Cardinality(Stored(u, l)) + 1
          /\ Cardinality(Stored(u, l)) \in Nat
      <4>1. Cardinality(Stored(u, l) \cup {s}) = Cardinality(Stored(u, l)) + 1
        BY <3>1, StoredType, FS_AddElement
      <4> QED BY <3>1, <4>1, StoredType
    <3>3. number[s] = 1 + Cardinality(Stored(u, l))
      BY <1>1, <2>2 DEF CarefulInv, Numbered
    <3>4. \A e \in Stored(u, l) : number[e] \in Nat /\ number[e] <= Cardinality(Stored(u, l))
      BY <1>0 DEF CarefulInv, Numbered, Stored, TypeOK
    <3>5. d # s => pc[d] \in Ended
      BY <1>1, <2>2, OthersOver DEF Ended
    <3>6. d # s => pc'[d] # "counted"
      BY <1>1, <3>5 DEF Ended
    <3>7. d # s /\ status'[d] # None => d \in Stored(u, l)
      BY <1>1 DEF Stored
    <3> QED BY <1>0, <1>1, <2>1, <3>1, <3>2, <3>3, <3>4, <3>6, <3>7 DEF TypeOK
  <2>3. CASE ~(StudentOf[s] = u /\ LanguageOf[s] = l)
    <3>1. Stored(u, l)' = Stored(u, l) /\ d # s
      BY <1>1, <2>3 DEF Stored
    <3> QED BY <1>1, <2>1, <3>1
  <2> QED BY <2>2, <2>3
<1> QED BY <1>0, <1>2, <1>3, <1>4 DEF CarefulInv, Regular

LEMMA ReadCareful ==
  ASSUME CarefulInv, NEW s \in Submissions, ReadProgress(s)
  PROVE  CarefulInv'
<1>0. TypeOK /\ CallInv /\ Regular
  BY ReadRegular DEF CarefulInv
<1>1. /\ pc[s] = "stored" /\ pc'[s] = "running" /\ \A d \in Submissions \ {s} : pc'[d] = pc[d]
      /\ read'[s] = progress[StudentOf[s]] /\ \A d \in Submissions \ {s} : read'[d] = read[d]
      /\ UNCHANGED <<status, number, verdict, progress>>
  BY <1>0, GoToEffect, StageNames DEF ReadProgress, TypeOK, submissionVars
<1>2. OneCall' /\ ReadFresh' /\ SolvedInv'
  BY <1>1 DEF CarefulInv, OneCall, ReadFresh, SolvedInv, Ended
<1>3. Numbered'
  BY <1>1 DEF CarefulInv, Numbered, Stored
<1> QED BY <1>0, <1>2, <1>3 DEF CarefulInv, Regular

LEMMA JudgeCareful ==
  ASSUME CarefulInv, NEW s \in Submissions, Judge(s)
  PROVE  CarefulInv'
<1>0. TypeOK /\ CallInv
  BY DEF CarefulInv
<1>1. /\ pc[s] = "running" /\ pc'[s] = "judged" /\ status'[s] \in {"passed", "failed"}
      /\ \A d \in Submissions \ {s} : /\ pc'[d] = pc[d] /\ status'[d] = status[d]
                                      /\ verdict'[d] = verdict[d]
      /\ UNCHANGED <<number, progress, read>> /\ Regular
  BY <1>0, JudgeEffect DEF progressVars
<1>2. status[s] # None /\ status'[s] # None
  BY <1>0, <1>1, SubmissionAssumption DEF CallInv
<1>3. OneCall' /\ ReadFresh' /\ SolvedInv'
  BY <1>1 DEF CarefulInv, OneCall, ReadFresh, SolvedInv, Ended
<1>4. \A u, l : Stored(u, l)' = Stored(u, l)
  BY <1>1, <1>2 DEF Stored
<1>5. Numbered'
  BY <1>1, <1>2, <1>4 DEF CarefulInv, Numbered
<1> QED BY <1>1, <1>3, <1>5 DEF CarefulInv, Regular

(* The document that such a student's call saves is the one it has updated.  *)
LEMMA CarefulSave ==
  ASSUME CarefulInv, NEW s \in Submissions, SaveProgress(s), NEW u \in Careful,
         u = StudentOf[s]
  PROVE  /\ progress'[u] = After(Before(s), LanguageOf[s], verdict[s], s)
         /\ Before(s) = Recorded(u) /\ Before(s) \in Documents
         /\ progress[u] # None => Before(s) = progress[u]
<1>0. TypeOK /\ CallInv /\ pc[s] = "judged" /\ u \in Students
  BY DEF CarefulInv, SaveProgress, Careful
<1>1. read[s] = progress[u]
  BY <1>0 DEF CarefulInv, ReadFresh
<1>2. Updated(s) \in Documents /\ Before(s) \in Documents
  BY <1>0, BeforeType
<1>3. progress'[u] = IF read[s] = None THEN Updated(s)
                     ELSE Merge(progress[u], read[s], Updated(s))
  BY <1>0, SaveEffect
<1>4. progress'[u] = Updated(s)
  <2>1. CASE read[s] = None
    BY <1>3, <2>1
  <2>2. CASE read[s] # None
    <3>1. read[s] \in Documents
      BY <1>0, <2>2 DEF TypeOK
    <3>2. Merge(read[s], read[s], Updated(s)) = Updated(s)
      BY <1>2, <3>1, MergeSame
    <3> QED BY <1>1, <1>3, <2>2, <3>2
  <2> QED BY <2>1, <2>2
<1> QED BY <1>1, <1>2, <1>4, UpdatedIs DEF Before, Recorded

LEMMA SaveCareful ==
  ASSUME CarefulInv, NEW s \in Submissions, SaveProgress(s)
  PROVE  CarefulInv'
<1>0. TypeOK /\ CallInv
  BY DEF CarefulInv
<1>1. /\ pc[s] = "judged" /\ pc'[s] = "recorded" /\ \A d \in Submissions \ {s} : pc'[d] = pc[d]
      /\ UNCHANGED <<number, status, verdict, read>> /\ Regular
  BY <1>0, SaveRegular DEF submissionVars
<1>2. PICK w \in Students : w = StudentOf[s]
  BY UserTypes
<1>3. \A u \in Students \ {w} : progress'[u] = progress[u]
  BY <1>0, <1>2, SaveEffect
<1>4. OneCall'
  BY <1>1 DEF CarefulInv, OneCall, Ended
<1>5. ReadFresh'
  <2> SUFFICES ASSUME NEW d \in Submissions, StudentOf[d] \in Careful,
                      pc'[d] \in {"running", "judged"}
               PROVE  read[d] = progress'[StudentOf[d]]
    BY <1>1 DEF ReadFresh
  <2>1. d # s /\ pc[d] \in {"running", "judged"}
    BY <1>1
  <2>2. StudentOf[d] # w
    BY <1>1, <1>2, <2>1, OthersOver DEF Ended
  <2> QED BY <1>3, <2>1, <2>2, UserTypes DEF CarefulInv, ReadFresh
<1>6. SolvedInv'
  <2> SUFFICES ASSUME NEW d \in Submissions, NEW u \in Careful, NEW l \in Languages,
                      StudentOf[d] = u, LanguageOf[d] = l,
                      \/ pc'[d] \in {"recorded", "measured", "rated"} /\ verdict[d] = "passed"
                      \/ pc'[d] = "answered" /\ status[d] = "passed"
               PROVE  SolvedDoc(progress'[u], l)
    BY <1>1 DEF SolvedInv, SolvedDoc
  <2>0. u \in Students
    BY DEF Careful
  <2>1. d # s => SolvedDoc(progress[u], l)
    BY <1>1 DEF CarefulInv, SolvedInv
  <2>2. CASE u # w
    BY <1>2, <1>3, <2>0, <2>1, <2>2
  <2>3. CASE u = w
    <3> DEFINE b == Before(s)
               k == LanguageOf[s]
               a == After(b, k, verdict[s], s)
    <3>1. /\ progress'[u] = a /\ b \in Documents /\ k \in Languages
          /\ progress[u] # None => b = progress[u]
      BY <1>2, <2>3, CarefulSave, UserTypes
    <3> HIDE DEF b, k
    <3>2. /\ a \in Documents
          /\ \A j \in Languages \ {k} : a.solution[j] = b.solution[j]
          /\ a.solution[k] = IF verdict[s] = "passed" THEN "solved"
                             ELSE IF b.solution[k] = "not_attempted" THEN "attempted"
                             ELSE b.solution[k]
          /\ (\E j \in Languages : a.solution[j] = "solved") => a.overall = "solved"
      BY <3>1, UpdateEffect
    <3> HIDE DEF a
    <3>3. a.solution[l] = "solved"
      <4>1. CASE d = s
        BY <1>1, <3>1, <3>2, <4>1 DEF k
      <4>2. CASE d # s
        <5>1. b.solution[l] = "solved"
          BY <2>1, <3>1, <4>2 DEF SolvedDoc
        <5> QED BY <3>2, <5>1
      <4> QED BY <4>1, <4>2
    <3> QED BY <3>1, <3>2, <3>3, DocumentFields DEF SolvedDoc
  <2> QED BY <2>2, <2>3
<1>7. Numbered'
  BY <1>1 DEF CarefulInv, Numbered, Stored
<1> QED BY <1>1, <1>4, <1>5, <1>6, <1>7 DEF CarefulInv, Regular

LEMMA InitCareful == Init => CarefulInv
<1> SUFFICES ASSUME Init PROVE OneCall /\ ReadFresh /\ SolvedInv /\ Numbered
  BY InitRegular DEF CarefulInv
<1> QED BY DEF Init, OneCall, ReadFresh, SolvedInv, Numbered, Ended

LEMMA StepCareful ==
  ASSUME CarefulInv, [Next]_vars
  PROVE  CarefulInv'
<1>1. Regular
  BY StepRegular DEF CarefulInv
<1>2. CASE UNCHANGED vars
  <2>1. Settling
    BY <1>2 DEF vars, Settling, submissionVars, progressVars, CarefulInv, CallInv, Ended
  <2> QED BY <1>1, <2>1, SettlingCareful
<1> QED BY <1>1, <1>2, SettlingSteps, RestartSettles, SettlingCareful, CountCareful, StoreCareful,
        ReadCareful, JudgeCareful, SaveCareful DEF Next, Step

LEMMA CarefulKept == Spec => []CarefulInv
<1>1. CarefulInv /\ [Next]_vars => CarefulInv'
  BY StepCareful
<1> QED BY <1>1, InitCareful, PTL DEF Spec

(* A student who waits for each answer finds what was answered in the        *)
(* progress for good, and the submissions in a language numbered apart,      *)
(* whatever the other students do and whatever fails.                       *)
THEOREM AnswersKept == Spec => []AnswersAgree
<1>1. CarefulInv => AnswersAgree
  <2> SUFFICES ASSUME CarefulInv, NEW s \in Submissions, StudentOf[s] \in Careful
               PROVE  /\ pc[s] = "answered" /\ status[s] = "passed" =>
                            /\ progress[StudentOf[s]] # None
                            /\ progress[StudentOf[s]].solution[LanguageOf[s]] = "solved"
                            /\ progress[StudentOf[s]].overall = "solved"
                      /\ \A d \in Submissions :
                            d # s /\ Alike(s, d) /\ status[s] # None /\ status[d] # None =>
                               number[s] # number[d]
    BY DEF AnswersAgree
  <2>1. PICK u \in Careful, l \in Languages : u = StudentOf[s] /\ l = LanguageOf[s]
    BY UserTypes
  <2>2. pc[s] = "answered" /\ status[s] = "passed" => SolvedDoc(progress[u], l)
    BY <2>1 DEF CarefulInv, SolvedInv
  <2>3. status[s] # None => \A d \in Stored(u, l) : d # s => number[d] # number[s]
    BY <2>1 DEF CarefulInv, Numbered
  <2>4. \A d \in Submissions : Alike(s, d) /\ status[d] # None => d \in Stored(u, l)
    BY <2>1 DEF Stored, Alike
  <2> QED BY <2>1, <2>2, <2>3, <2>4 DEF SolvedDoc
<1> QED BY <1>1, CarefulKept, PTL

(* A saved submission is one more attempt in the abstract record.            *)
LEMMA SaveRecords ==
  ASSUME CarefulInv, NEW s \in Submissions, SaveProgress(s), StudentOf[s] \in Careful
  PROVE  Record!Record(StudentOf[s], LanguageOf[s])
<1> DEFINE b == Before(s)
           l == LanguageOf[s]
           v == verdict[s]
           a == After(b, l, v, s)
<1>1. PICK u \in Careful : u = StudentOf[s]
  OBVIOUS
<1>2. /\ progress'[u] = a /\ b = Recorded(u) /\ b \in Documents /\ l \in Languages
      /\ u \in Students
  BY <1>1, CarefulSave, UserTypes DEF Careful
<1>3. \A w \in Careful \ {u} : progress'[w] = progress[w]
  BY <1>1, SaveEffect DEF CarefulInv, Careful
<1> HIDE DEF b, l, v
<1>4. /\ a \in Documents
      /\ \A k \in Languages \ {l} : a.solution[k] = b.solution[k] /\ a.tries[k] = b.tries[k]
      /\ a.solution[l] = IF v = "passed" THEN "solved"
                         ELSE IF b.solution[l] = "not_attempted" THEN "attempted"
                         ELSE b.solution[l]
      /\ a.tries[l] = b.tries[l] + 1 /\ a.total = b.total + 1
  BY <1>2, UpdateEffect
<1> HIDE DEF a
<1>5. Recorded(u)' = a /\ \A w \in Careful \ {u} : Recorded(w)' = Recorded(w)
  BY <1>2, <1>3, <1>4, DocumentFields DEF Recorded
<1>6. a.tries = [b.tries EXCEPT ![l] = @ + 1]
  BY <1>2, <1>4, DocumentFields
<1> DEFINE solvedIn(doc) == {k \in Languages : doc.solution[k] = "solved"}
           passed == IF v = "passed" THEN {l} ELSE {}
<1>7. solvedIn(a) = solvedIn(b) \cup passed
  <2>1. l \in Languages /\ "not_attempted" # "solved"
    BY <1>2
  <2> QED BY <1>4, <2>1
<1> HIDE DEF passed
<1>8. [w \in Careful |-> Recorded(w).tries]'
         = [[w \in Careful |-> Recorded(w).tries]
               EXCEPT ![u] = [[w \in Careful |-> Recorded(w).tries][u] EXCEPT ![l] = @ + 1]]
  BY <1>2, <1>5, <1>6
<1>9. [w \in Careful |-> Recorded(w).total]'
         = [[w \in Careful |-> Recorded(w).total] EXCEPT ![u] = @ + 1]
  BY <1>2, <1>4, <1>5
<1>10. [w \in Careful |-> {k \in Languages : Recorded(w).solution[k] = "solved"}]'
          = [[w \in Careful |-> {k \in Languages : Recorded(w).solution[k] = "solved"}]
               EXCEPT ![u] = @ \cup passed]
  BY <1>2, <1>5, <1>7
<1>11. passed \in {{}, {l}}
  BY DEF passed
<1> QED BY <1>1, <1>8, <1>9, <1>10, <1>11 DEF Record!Record, l

(* The progress of students who wait for each answer implements              *)
(* ChallengeRecord: each judged submission is recorded once, and a language  *)
(* that is solved stays solved.                                             *)
THEOREM RecordImplemented == Spec => ImplementsRecord
<1>1. Init => Record!Init
  BY DEF Init, Record!Init, Recorded, NewDocument, Careful
<1>2. CarefulInv /\ [Next]_vars => [Record!Next]_(Record!recordVars)
  <2> SUFFICES ASSUME CarefulInv, [Next]_vars PROVE [Record!Next]_(Record!recordVars)
    OBVIOUS
  <2>1. ASSUME NEW s \in Submissions, SaveProgress(s), StudentOf[s] \in Careful
        PROVE  Record!Next
    BY <2>1, SaveRecords, UserTypes DEF Record!Next
  <2>2. ASSUME NEW s \in Submissions, SaveProgress(s), StudentOf[s] \notin Careful
        PROVE  UNCHANGED Record!recordVars
    <3>1. \A u \in Careful : progress'[u] = progress[u]
      BY <2>2, SaveEffect, UserTypes DEF CarefulInv, Careful
    <3> QED BY <3>1 DEF Record!recordVars, Recorded
  <2>3. CASE progress' = progress
    BY <2>3 DEF Record!recordVars, Recorded
  <2>4. progress' = progress \/ \E s \in Submissions : SaveProgress(s)
    <3>1. CASE \E s \in Submissions : ReadProgress(s) \/ Judge(s)
      BY <3>1 DEF ReadProgress, Judge, progressVars
    <3> QED BY <3>1, StepRegular DEF CarefulInv, Quiet
  <2> QED BY <2>1, <2>2, <2>3, <2>4
<1> QED BY <1>1, <1>2, CarefulKept, PTL DEF Spec, ImplementsRecord, Record!Spec
-----------------------------------------------------------------------------
(* The statistics of the challenge. *)

(* The calls whose run is in usageStats.                                    *)
Counted == {s \in Submissions : counted[s] # None}

CountedPassed == {s \in Counted : verdict[s] = "passed"}

(* usageStats counts the judged runs whose counting was reached, each once: *)
(* the attempts and those of them that passed.  Every submission that is    *)
(* answered with a verdict is among them, and the success rate is that of   *)
(* the first attempts up to some moment, between 0 and 100 percent; however *)
(* submissions overlap and whatever fails.                                  *)
StatisticsAddUp ==
    /\ attempts = Cardinality(Counted)
    /\ successes = Cardinality(CountedPassed)
    /\ \A s \in Submissions :
          pc[s] = "answered" /\ status[s] \in {"passed", "failed"} => s \in Counted
    /\ rate # None => /\ \E s \in Counted : rate = counted[s]
                      /\ rate[1] <= rate[2] /\ 0 < rate[2] /\ rate[2] <= attempts

AfterCount == {"measured", "rated", "catching", "answered", "gone"}

(* A call is counted when it is past the $inc, by its verdict, and what it  *)
(* was given is the counts of some earlier moment.                          *)
StatisticsInv ==
    /\ attempts = Cardinality(Counted)
    /\ successes = Cardinality(CountedPassed)
    /\ \A s \in Submissions :
          /\ pc[s] \in {"measured", "rated"} => s \in Counted
          /\ pc[s] = "answered" /\ status[s] \in {"passed", "failed"} => s \in Counted
    /\ \A s \in Counted : /\ pc[s] \in AfterCount
                          /\ counted[s][1] <= counted[s][2]
                          /\ 0 < counted[s][2] /\ counted[s][2] <= attempts
    /\ rate # None => \E s \in Counted : rate = counted[s]

LEMMA CountedFinite ==
  /\ IsFiniteSet(Counted) /\ IsFiniteSet(CountedPassed)
  /\ Cardinality(CountedPassed) <= Cardinality(Counted)
  /\ Cardinality(Counted) \in Nat /\ Cardinality(CountedPassed) \in Nat
<1>1. IsFiniteSet(Counted) /\ CountedPassed \subseteq Counted
  BY SubmissionAssumption, FS_Subset DEF Counted, CountedPassed
<1> QED BY <1>1, FS_Subset, FS_CardinalityType

(* A step that leaves the counts alone, and no call that is counted earlier *)
(* than it was.                                                             *)
LEMMA SameStatistics ==
  ASSUME StatisticsInv, UNCHANGED <<attempts, successes, counted>>,
         UNCHANGED rate \/ \E s \in Counted : rate' = counted[s],
         \A s \in Counted : verdict'[s] = verdict[s] /\ pc'[s] \in AfterCount,
         \A s \in Submissions \ Counted :
            /\ pc'[s] \notin {"measured", "rated"}
            /\ ~(pc'[s] = "answered" /\ status'[s] \in {"passed", "failed"})
  PROVE  StatisticsInv'
<1>1. Counted' = Counted
  BY DEF Counted
<1>2. CountedPassed' = CountedPassed
  BY <1>1 DEF CountedPassed
<1>3. \A s \in Submissions :
         /\ pc'[s] \in {"measured", "rated"} => s \in Counted
         /\ pc'[s] = "answered" /\ status'[s] \in {"passed", "failed"} => s \in Counted
  OBVIOUS
<1>4. rate' # None => \E s \in Counted : rate' = counted[s]
  BY DEF StatisticsInv
<1> QED BY <1>1, <1>2, <1>3, <1>4 DEF StatisticsInv

(* One call moves to a later place and nothing is counted.                  *)
LEMMA MoveStatistics ==
  ASSUME TypeOK, CallInv, StatisticsInv, NEW s \in Submissions, NEW stage \in Stages,
         GoTo(s, stage), UNCHANGED <<attempts, successes, counted, status, verdict, rate>>,
         \/ pc[s] \notin AfterCount /\ stage \in Stages \ {"measured", "rated", "answered"}
         \/ pc[s] \in AfterCount \ {"answered"} /\ stage \in {"catching", "gone"}
         \/ pc[s] = "measured" /\ stage = "rated"
         \/ pc[s] = "rated" /\ stage = "answered"
  PROVE  StatisticsInv'
<1>1. pc'[s] = stage /\ \A d \in Submissions \ {s} : pc'[d] = pc[d]
  BY GoToEffect
<1>2. \A d \in Counted : verdict'[d] = verdict[d] /\ pc'[d] \in AfterCount
  BY <1>1 DEF StatisticsInv, AfterCount, Counted
<1>3. \A d \in Submissions \ Counted :
         /\ pc'[d] \notin {"measured", "rated"}
         /\ ~(pc'[d] = "answered" /\ status'[d] \in {"passed", "failed"})
  BY <1>1 DEF StatisticsInv, AfterCount
<1> QED BY <1>2, <1>3, SameStatistics

LEMMA CountStatistics ==
  ASSUME TypeOK, CallInv, StatisticsInv, NEW s \in Submissions, CountAttempt(s)
  PROVE  StatisticsInv'
<1>1. /\ pc[s] = "recorded" /\ GoTo(s, "measured")
      /\ attempts' = attempts + 1
      /\ successes' = IF verdict[s] = "passed" THEN successes + 1 ELSE successes
      /\ counted' = [counted EXCEPT ![s] = <<successes', attempts'>>]
      /\ UNCHANGED <<status, verdict, rate>>
  BY DEF CountAttempt, submissionVars
<1>2. pc'[s] = "measured" /\ \A d \in Submissions \ {s} : pc'[d] = pc[d]
  BY <1>1, GoToEffect, StageNames
<1>3. s \notin Counted
  BY <1>1 DEF StatisticsInv, AfterCount
<1>4. /\ counted'[s] = <<successes', attempts'>>
      /\ \A d \in Submissions \ {s} : counted'[d] = counted[d]
  BY <1>1 DEF TypeOK
<1>5. <<successes', attempts'>> # None
  <2>1. attempts' \in Nat /\ successes' \in Nat
    BY <1>1 DEF TypeOK
  <2> QED BY <2>1, NoCounts DEF Counts
<1>6. Counted' = Counted \cup {s}
  BY <1>4, <1>5 DEF Counted
<1>7. CountedPassed' = IF verdict[s] = "passed" THEN CountedPassed \cup {s} ELSE CountedPassed
  BY <1>1, <1>3, <1>6 DEF CountedPassed
<1>8. /\ attempts' = Cardinality(Counted') /\ successes' = Cardinality(CountedPassed')
      /\ successes' <= attempts' /\ attempts' \in Nat /\ successes' \in Nat /\ 0 < attempts'
  <2>1. Cardinality(Counted') = Cardinality(Counted) + 1
    BY <1>3, <1>6, CountedFinite, FS_AddElement
  <2>2. Cardinality(CountedPassed \cup {s}) = Cardinality(CountedPassed) + 1
    BY <1>3, CountedFinite, FS_AddElement DEF CountedPassed
  <2>3. attempts = Cardinality(Counted) /\ successes = Cardinality(CountedPassed)
    BY DEF StatisticsInv
  <2> QED BY <1>1, <1>7, <2>1, <2>2, <2>3, CountedFinite
<1>9. \A d \in Submissions :
         /\ pc'[d] \in {"measured", "rated"} => d \in Counted'
         /\ pc'[d] = "answered" /\ status'[d] \in {"passed", "failed"} => d \in Counted'
  BY <1>1, <1>2, <1>6 DEF StatisticsInv
<1>10. \A d \in Counted' : /\ pc'[d] \in AfterCount
                           /\ counted'[d][1] <= counted'[d][2]
                           /\ 0 < counted'[d][2] /\ counted'[d][2] <= attempts'
  <2>1. /\ pc'[s] \in AfterCount /\ counted'[s][1] = successes' /\ counted'[s][2] = attempts'
    BY <1>2, <1>4 DEF AfterCount
  <2>2. ASSUME NEW d \in Counted
        PROVE  /\ pc'[d] \in AfterCount
               /\ counted'[d][1] <= counted'[d][2]
               /\ 0 < counted'[d][2] /\ counted'[d][2] <= attempts'
    <3>1. d \in Submissions \ {s} /\ counted[d] \in Counts
      BY <1>3 DEF Counted, TypeOK
    <3>2. pc'[d] = pc[d] /\ counted'[d] = counted[d] /\ counted[d][2] \in Nat
      BY <1>2, <1>4, <3>1 DEF Counts
    <3> QED BY <1>1, <3>2 DEF StatisticsInv, TypeOK
  <2> QED BY <1>6, <1>8, <2>1, <2>2
<1>11. rate' # None => \E d \in Counted' : rate' = counted'[d]
  <2> SUFFICES ASSUME rate # None PROVE \E d \in Counted' : rate = counted'[d]
    BY <1>1
  <2>1. PICK d \in Counted : rate = counted[d]
    BY DEF StatisticsInv
  <2> QED BY <1>3, <1>4, <1>6, <2>1 DEF Counted
<1> QED BY <1>8, <1>9, <1>10, <1>11 DEF StatisticsInv

LEMMA StepStatistics ==
  ASSUME TypeOK, CallInv, StatisticsInv, [Next]_vars
  PROVE  StatisticsInv'
<1>1. CASE UNCHANGED vars
  BY <1>1 DEF vars, submissionVars, progressVars, statistics, StatisticsInv, Counted,
     CountedPassed
<1>2. ASSUME NEW s \in Submissions,
             \/ CountSubmissions(s) \/ ReadProgress(s) \/ RunFails(s) \/ SaveProgress(s)
             \/ InsertRefused(s) \/ Answer(s) \/ OperationFails(s)
      PROVE  StatisticsInv'
  <2>1. UNCHANGED <<attempts, successes, counted, status, verdict, rate>>
    BY <1>2 DEF CountSubmissions, ReadProgress, RunFails, SaveProgress, InsertRefused,
       Answer, OperationFails, submissionVars, statistics
  <2>2. PICK stage \in Stages :
           /\ GoTo(s, stage)
           /\ \/ pc[s] \notin AfterCount /\ stage \in Stages \ {"measured", "rated", "answered"}
              \/ pc[s] \in AfterCount \ {"answered"} /\ stage \in {"catching", "gone"}
              \/ pc[s] = "rated" /\ stage = "answered"
    <3>1. CASE OperationFails(s)
      BY <3>1, StageNames DEF OperationFails, TypeOK, Stages, AfterCount, Ended
    <3>2. CASE ~OperationFails(s)
      BY <1>2, <3>2, StageNames DEF CountSubmissions, ReadProgress, RunFails, SaveProgress,
         InsertRefused, Answer, AfterCount
    <3> QED BY <3>1, <3>2
  <2> QED BY <2>1, <2>2, MoveStatistics
<1>3. ASSUME NEW s \in Submissions, Judge(s)
      PROVE  StatisticsInv'
  <2>1. s \notin Counted
    BY <1>3, JudgeEffect DEF StatisticsInv, AfterCount
  <2>2. \A d \in Counted : verdict'[d] = verdict[d] /\ pc'[d] \in AfterCount
    BY <1>3, <2>1, JudgeEffect DEF StatisticsInv, Counted
  <2>3. \A d \in Submissions \ Counted :
           /\ pc'[d] \notin {"measured", "rated"}
           /\ ~(pc'[d] = "answered" /\ status'[d] \in {"passed", "failed"})
    BY <1>3, JudgeEffect DEF StatisticsInv
  <2> QED BY <1>3, <2>2, <2>3, JudgeEffect, SameStatistics DEF statistics
<1>4. ASSUME NEW s \in Submissions, StoreSubmission(s) \/ Catch(s)
      PROVE  StatisticsInv'
  <2>1. PICK stage \in {"stored", "answered"}, v \in {"running", "error"} :
           /\ GoTo(s, stage) /\ status' = [status EXCEPT ![s] = v]
           /\ UNCHANGED <<verdict, statistics>>
           /\ \/ pc[s] = "counted" /\ stage = "stored"
              \/ pc[s] = "catching" /\ stage = "answered"
    BY <1>4 DEF StoreSubmission, Catch
  <2>2. pc'[s] = stage /\ \A d \in Submissions \ {s} : pc'[d] = pc[d]
    BY <2>1, GoToEffect, StageNames
  <2>3. status'[s] = v /\ \A d \in Submissions \ {s} : status'[d] = status[d]
    BY <2>1 DEF TypeOK
  <2>4. \A d \in Counted : pc'[d] \in AfterCount
    BY <2>1, <2>2 DEF StatisticsInv, AfterCount, Counted
  <2>5. \A d \in Submissions \ Counted :
           /\ pc'[d] \notin {"measured", "rated"}
           /\ ~(pc'[d] = "answered" /\ status'[d] \in {"passed", "failed"})
    BY <2>2, <2>3 DEF StatisticsInv
  <2> QED BY <2>1, <2>4, <2>5, SameStatistics DEF statistics
<1>5. ASSUME NEW s \in Submissions, SetRate(s)
      PROVE  StatisticsInv'
  <2>1. /\ pc[s] = "measured" /\ GoTo(s, "rated") /\ rate' = counted[s]
        /\ UNCHANGED <<attempts, successes, counted, status, verdict>>
    BY <1>5 DEF SetRate, submissionVars
  <2>2. pc'[s] = "rated" /\ \A d \in Submissions \ {s} : pc'[d] = pc[d]
    BY <2>1, GoToEffect, StageNames
  <2>3. s \in Counted
    BY <2>1 DEF StatisticsInv
  <2>4. \A d \in Counted : pc'[d] \in AfterCount
    BY <2>2 DEF StatisticsInv, AfterCount, Counted
  <2>5. \A d \in Submissions \ Counted :
           /\ pc'[d] \notin {"measured", "rated"}
           /\ ~(pc'[d] = "answered" /\ status'[d] \in {"passed", "failed"})
    BY <2>1, <2>2, <2>3 DEF StatisticsInv
  <2> QED BY <2>1, <2>3, <2>4, <2>5, SameStatistics
<1>6. CASE Restart
  <2>1. /\ \A d \in Submissions : (pc'[d] = pc[d] /\ pc[d] \in Ended) \/ pc'[d] = "gone"
        /\ UNCHANGED <<status, verdict, statistics>>
    BY <1>6 DEF Restart, submissionVars
  <2>2. \A d \in Counted : pc'[d] \in AfterCount
    BY <2>1 DEF StatisticsInv, AfterCount, Counted
  <2>3. \A d \in Submissions \ Counted :
           /\ pc'[d] \notin {"measured", "rated"}
           /\ ~(pc'[d] = "answered" /\ status'[d] \in {"passed", "failed"})
    BY <2>1 DEF StatisticsInv
  <2> QED BY <2>1, <2>2, <2>3, SameStatistics DEF statistics
<1> QED BY <1>1, <1>2, <1>3, <1>4, <1>5, <1>6, CountStatistics DEF Next, Step

(* updateChallengeStats counts every answered submission, and none twice.   *)
THEOREM ChallengeStatistics == Spec => []StatisticsAddUp
<1>1. Init => StatisticsInv
  <2> SUFFICES ASSUME Init PROVE StatisticsInv
    OBVIOUS
  <2>1. Counted = {}
    BY DEF Init, Counted
  <2>2. CountedPassed = {} /\ Cardinality({}) = 0
    BY <2>1, FS_EmptySet DEF CountedPassed
  <2> QED BY <2>1, <2>2 DEF Init, StatisticsInv
<1>2. TypeOK /\ CallInv /\ StatisticsInv /\ [Next]_vars => StatisticsInv'
  BY StepStatistics
<1>3. StatisticsInv => StatisticsAddUp
  <2> SUFFICES ASSUME StatisticsInv, rate # None
               PROVE  rate[1] <= rate[2] /\ 0 < rate[2] /\ rate[2] <= attempts
    BY DEF StatisticsInv, StatisticsAddUp
  <2> QED BY DEF StatisticsInv
<1> QED BY <1>1, <1>2, <1>3, Registered, PTL DEF Spec
==============================================================================

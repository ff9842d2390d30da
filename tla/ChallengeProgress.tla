--------------------------- MODULE ChallengeProgress ---------------------------
(***************************************************************************)
(* The submissions to one active code challenge: the handler               *)
(* submitChallenge of CodeChallengeService, from the count of earlier      *)
(* submissions to the statistics of the challenge, one action for each     *)
(* stretch between two awaits.  The student's progress is read before the  *)
(* code runs and saved after it, so that submissions may overlap.          *)
(*                                                                         *)
(* A submission is refused without any change when the challenge is not    *)
(* active or lacks the language; those are steps that change nothing.      *)
(* Times, the code and the test results are left out.                      *)
(***************************************************************************)
EXTENDS Naturals, FiniteSets

CONSTANTS Students,     \* the users who work on the challenge
          Languages,    \* the languages it supports
          Submissions,  \* the calls of submitChallenge
          StudentOf,    \* the user of a call
          LanguageOf,   \* dto.language of a call
          Overlapping,  \* the users who submit again before the answer
          None,         \* no document, no value
          MaxFailures   \* bound on restarts and failed database operations

ASSUME SubmissionAssumption ==
    /\ StudentOf \in [Submissions -> Students]
    /\ LanguageOf \in [Submissions -> Languages]
    /\ Overlapping \subseteq Students
    /\ None \notin Submissions \cup {"running", "passed", "failed", "error"}
    /\ IsFiniteSet(Submissions)

ASSUME FailureAssumption == MaxFailures \in Nat

VARIABLES pc,        \* where each call is
          number,    \* submissionNumber
          status,    \* status of the stored submission, or None
          verdict,   \* testResults.overallPassed, once the code has run
          progress,  \* the UserChallengeProgress document of each user
          read,      \* userProgress as each call has read it
          attempts,  \* usageStats.totalAttempts
          successes, \* usageStats.successfulSolutions
          rate,      \* the counts usageStats.successRate was computed from
          counted,   \* the counts each call's $inc has returned
          failures   \* restarts and failed operations so far

submissionVars == <<number, status, verdict>>
progressVars == <<progress, read>>
statistics == <<attempts, successes, rate, counted>>

vars == <<pc, submissionVars, progressVars, statistics, failures>>

Stages == {"idle", "counted", "stored", "running", "judged", "recorded",
           "measured", "rated", "catching", "answered", "gone"}

Ended == {"idle", "answered", "gone"}

Statuses == {"not_attempted", "attempted", "solved"}

(* A UserChallengeProgress document: status, attempts and bestSubmissionId  *)
(* of each language, totalAttempts and the overall status.                  *)
Documents == [solution : [Languages -> Statuses],
              tries    : [Languages -> Nat],
              best     : [Languages -> Submissions \cup {None}],
              total    : Nat,
              overall  : Statuses]

ASSUME NoDocument == None \notin Documents

NewDocument == [solution |-> [l \in Languages |-> "not_attempted"],
                tries    |-> [l \in Languages |-> 0],
                best     |-> [l \in Languages |-> None],
                total    |-> 0,
                overall  |-> "not_attempted"]

Counts == Nat \X Nat

ASSUME NoCounts == None \notin Counts

TypeOK ==
    /\ pc \in [Submissions -> Stages]
    /\ number \in [Submissions -> Nat]
    /\ status \in [Submissions -> {None, "running", "passed", "failed", "error"}]
    /\ verdict \in [Submissions -> {None, "passed", "failed"}]
    /\ progress \in [Students -> Documents \cup {None}]
    /\ read \in [Submissions -> Documents \cup {None}]
    /\ attempts \in Nat
    /\ successes \in Nat
    /\ rate \in Counts \cup {None}
    /\ counted \in [Submissions -> Counts \cup {None}]
    /\ failures \in Nat

Init ==
    /\ pc = [s \in Submissions |-> "idle"]
    /\ number = [s \in Submissions |-> 0]
    /\ status = [s \in Submissions |-> None]
    /\ verdict = [s \in Submissions |-> None]
    /\ progress = [u \in Students |-> None]
    /\ read = [s \in Submissions |-> None]
    /\ attempts = 0
    /\ successes = 0
    /\ rate = None
    /\ counted = [s \in Submissions |-> None]
    /\ failures = 0

-----------------------------------------------------------------------------
(* Definitions named Bug... are not part of the model: each is the          *)
(* definition that follows it with a plausible mistake, kept to show that a *)
(* property can fail.                                                       *)

GoTo(s, stage) == pc' = [pc EXCEPT ![s] = stage]

Alike(s, d) == StudentOf[s] = StudentOf[d] /\ LanguageOf[s] = LanguageOf[d]

(* A user outside Overlapping waits for the answer before the next call:    *)
(* the buttons are disabled meanwhile.                                      *)
MayStart(s) == \/ StudentOf[s] \in Overlapping
               \/ \A d \in Submissions : StudentOf[d] = StudentOf[s] => pc[d] \in Ended

BugCountsJudged(s) ==
    /\ pc[s] = "idle"
    /\ MayStart(s)
    /\ number' = [number EXCEPT ![s] =
                     1 + Cardinality({d \in Submissions :
                                         Alike(s, d) /\ status[d] \in {"passed", "failed"}})]
    /\ GoTo(s, "counted")
    /\ UNCHANGED <<progressVars, status, verdict, statistics, failures>>

(* countDocuments of the user's submissions in the language.                *)
CountSubmissions(s) ==
    /\ pc[s] = "idle"
    /\ MayStart(s)
    /\ number' = [number EXCEPT ![s] =
                     1 + Cardinality({d \in Submissions : Alike(s, d) /\ status[d] # None})]
    /\ GoTo(s, "counted")
    /\ UNCHANGED <<progressVars, status, verdict, statistics, failures>>

(* The new submission is saved with status running.                         *)
StoreSubmission(s) ==
    /\ pc[s] = "counted"
    /\ status' = [status EXCEPT ![s] = "running"]
    /\ GoTo(s, "stored")
    /\ UNCHANGED <<progressVars, number, verdict, statistics, failures>>

(* The progress is found; without one a new document is made in memory.     *)
ReadProgress(s) ==
    /\ pc[s] = "stored"
    /\ read' = [read EXCEPT ![s] = progress[StudentOf[s]]]
    /\ GoTo(s, "running")
    /\ UNCHANGED <<submissionVars, progress, statistics, failures>>

BugStoresTimeout(s) ==
    /\ pc[s] = "running"
    /\ \E v \in {"passed", "failed", "timeout"} :
          /\ verdict' = [verdict EXCEPT ![s] = v]
          /\ status' = [status EXCEPT ![s] = v]
    /\ GoTo(s, "judged")
    /\ UNCHANGED <<progressVars, number, statistics, failures>>

(* executeCode returns and its verdict is saved with the submission.        *)
Judge(s) ==
    /\ pc[s] = "running"
    /\ \E v \in {"passed", "failed"} : /\ verdict' = [verdict EXCEPT ![s] = v]
                                       /\ status' = [status EXCEPT ![s] = v]
    /\ GoTo(s, "judged")
    /\ UNCHANGED <<progressVars, number, statistics, failures>>

(* executeCode throws.                                                      *)
RunFails(s) ==
    /\ pc[s] = "running"
    /\ GoTo(s, "catching")
    /\ UNCHANGED <<submissionVars, progressVars, statistics, failures>>

(* The save hook's overall status.                                          *)
Overall(doc) == IF \E l \in Languages : doc.solution[l] = "solved" THEN "solved"
                ELSE IF \E l \in Languages : doc.solution[l] = "attempted" THEN "attempted"
                ELSE doc.overall

BugForgetsSolved(doc, l, v, s) ==
    LET after == IF v = "passed" THEN "solved" ELSE "attempted"
    IN  [doc EXCEPT !.solution[l] = after,
                    !.tries[l] = @ + 1,
                    !.best[l] = IF v = "passed" THEN s ELSE @,
                    !.total = @ + 1]

BugBestIsLatest(doc, l, v, s) ==
    LET after == IF v = "passed" THEN "solved"
                 ELSE IF doc.solution[l] = "not_attempted" THEN "attempted"
                 ELSE doc.solution[l]
    IN  [doc EXCEPT !.solution[l] = after,
                    !.tries[l] = @ + 1,
                    !.best[l] = s,
                    !.total = @ + 1]

(* updateUserProgress, on the document in memory.                           *)
UpdateUserProgress(doc, l, v, s) ==
    LET after == IF v = "passed" THEN "solved"
                 ELSE IF doc.solution[l] = "not_attempted" THEN "attempted"
                 ELSE doc.solution[l]
    IN  [doc EXCEPT !.solution[l] = after,
                    !.tries[l] = @ + 1,
                    !.best[l] = IF v = "passed" THEN s ELSE @,
                    !.total = @ + 1]

(* Saving a document writes the paths whose value has changed since it was  *)
(* read, and leaves the others as they are stored.                          *)
Changed(stored, before, after) == IF after = before THEN stored ELSE after

Merge(stored, before, after) ==
    [solution |-> [l \in Languages |-> Changed(stored.solution[l], before.solution[l],
                                               after.solution[l])],
     tries    |-> [l \in Languages |-> Changed(stored.tries[l], before.tries[l],
                                               after.tries[l])],
     best     |-> [l \in Languages |-> Changed(stored.best[l], before.best[l],
                                               after.best[l])],
     total    |-> Changed(stored.total, before.total, after.total),
     overall  |-> Changed(stored.overall, before.overall, after.overall)]

(* The document a call saves.                                               *)
Updated(s) ==
    LET before == IF read[s] = None THEN NewDocument ELSE read[s]
        after == UpdateUserProgress(before, LanguageOf[s], verdict[s], s)
    IN  [after EXCEPT !.overall = Overall(after)]

(* userProgress.save(): a new document is inserted, one that was read is     *)
(* updated.                                                                 *)
SaveProgress(s) ==
    LET u == StudentOf[s]
    IN  /\ pc[s] = "judged"
        /\ read[s] = None => progress[u] = None
        /\ progress' = [progress EXCEPT ![u] =
                           IF read[s] = None THEN Updated(s)
                           ELSE Merge(@, read[s], Updated(s))]
        /\ GoTo(s, "recorded")
        /\ UNCHANGED <<submissionVars, read, statistics, failures>>

(* Another call has inserted the document: the unique index refuses a second *)
(* one.                                                                     *)
InsertRefused(s) ==
    /\ pc[s] = "judged"
    /\ read[s] = None
    /\ progress[StudentOf[s]] # None
    /\ GoTo(s, "catching")
    /\ UNCHANGED <<submissionVars, progressVars, statistics, failures>>

(* updateChallengeStats: the $inc, which returns the new counts.            *)
CountAttempt(s) ==
    /\ pc[s] = "recorded"
    /\ attempts' = attempts + 1
    /\ successes' = IF verdict[s] = "passed" THEN successes + 1 ELSE successes
    /\ counted' = [counted EXCEPT ![s] = <<successes', attempts'>>]
    /\ GoTo(s, "measured")
    /\ UNCHANGED <<submissionVars, progressVars, rate, failures>>

(* updateChallengeStats: the success rate of the counts it was given.       *)
SetRate(s) ==
    /\ pc[s] = "measured"
    /\ rate' = counted[s]
    /\ GoTo(s, "rated")
    /\ UNCHANGED <<submissionVars, progressVars, attempts, successes, counted, failures>>

(* The progress is read once more and the result is returned.               *)
Answer(s) ==
    /\ pc[s] = "rated"
    /\ GoTo(s, "answered")
    /\ UNCHANGED <<submissionVars, progressVars, statistics, failures>>

(* The catch block: whatever failed, the submission is saved as an error.   *)
Catch(s) ==
    /\ pc[s] = "catching"
    /\ status' = [status EXCEPT ![s] = "error"]
    /\ GoTo(s, "answered")
    /\ UNCHANGED <<progressVars, number, verdict, statistics, failures>>

(* A database operation fails.  Within the try block the submission becomes *)
(* an error; before it, and in the catch block, the exception reaches the    *)
(* client and the submission stays as it is stored.                         *)
OperationFails(s) ==
    /\ pc[s] \notin Ended
    /\ failures < MaxFailures
    /\ failures' = failures + 1
    /\ GoTo(s, IF pc[s] \in {"counted", "stored", "catching"} THEN "gone" ELSE "catching")
    /\ UNCHANGED <<submissionVars, progressVars, statistics>>

(* The server restarts: the calls in progress are never answered, and       *)
(* nothing returns to their submissions.                                    *)
Restart ==
    /\ failures < MaxFailures
    /\ failures' = failures + 1
    /\ pc' = [s \in Submissions |-> IF pc[s] \in Ended THEN pc[s] ELSE "gone"]
    /\ UNCHANGED <<submissionVars, progressVars, statistics>>

Step(s) ==
    \/ StoreSubmission(s) \/ ReadProgress(s) \/ Judge(s) \/ RunFails(s)
    \/ SaveProgress(s) \/ InsertRefused(s) \/ CountAttempt(s) \/ SetRate(s)
    \/ Answer(s) \/ Catch(s)

Next ==
    \/ \E s \in Submissions : CountSubmissions(s) \/ Step(s) \/ OperationFails(s)
    \/ Restart

Spec == Init /\ [][Next]_vars

-----------------------------------------------------------------------------
(* The calls whose result has been recorded in the progress.                *)
Judged(u, l) == {s \in Submissions : /\ StudentOf[s] = u
                                     /\ LanguageOf[s] = l
                                     /\ verdict[s] # None}

(* A language shown as solved, and a best submission, are owed to a run of   *)
(* that student in that language that passed, an overall status solved to a  *)
(* run in some language, and there are never more attempts than judged       *)
(* runs, however submissions overlap and whatever fails.                     *)
EarnedProgress ==
    \A u \in Students : progress[u] # None =>
        /\ \A l \in Languages :
              /\ progress[u].solution[l] = "solved" => progress[u].best[l] # None
              /\ progress[u].best[l] # None =>
                    /\ progress[u].best[l] \in Judged(u, l)
                    /\ verdict[progress[u].best[l]] = "passed"
              /\ progress[u].tries[l] <= Cardinality(Judged(u, l))
        /\ progress[u].overall = "solved" =>
              \E s \in Submissions : StudentOf[s] = u /\ verdict[s] = "passed"

Careful == Students \ Overlapping

(* The answer a student who waits for it gets agrees with what is stored: a *)
(* submission answered as passed has solved its language, and no submission *)
(* of the same language has its number.                                     *)
AnswersAgree ==
    \A s \in Submissions : StudentOf[s] \in Careful =>
        /\ pc[s] = "answered" /\ status[s] = "passed" =>
              /\ progress[StudentOf[s]] # None
              /\ progress[StudentOf[s]].solution[LanguageOf[s]] = "solved"
              /\ progress[StudentOf[s]].overall = "solved"
        /\ \A d \in Submissions :
              d # s /\ Alike(s, d) /\ status[s] # None /\ status[d] # None =>
                 number[s] # number[d]

(* The progress of students who wait for the answer is the record that      *)
(* ChallengeRecord promises.                                                *)
Recorded(u) == IF progress[u] = None THEN NewDocument ELSE progress[u]

Record == INSTANCE ChallengeRecord
             WITH Students <- Careful,
                  attempts <- [u \in Careful |-> Recorded(u).tries],
                  total <- [u \in Careful |-> Recorded(u).total],
                  solved <- [u \in Careful |->
                      {l \in Languages : Recorded(u).solution[l] = "solved"}]

ImplementsRecord == Record!Spec
==============================================================================

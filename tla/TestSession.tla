----------------------------- MODULE TestSession -----------------------------
(***************************************************************************)
(* The life of one test session without sections, from the moment          *)
(* createSession has saved it: the session document in MongoDB, the Result *)
(* documents made from it, the server's in-memory timer, and the handlers  *)
(* that work on them concurrently.                                         *)
(*                                                                         *)
(* A handler runs without interruption from one await to the next, so each *)
(* action below is one database operation together with the code that      *)
(* follows it up to the next one.  Between its read and its save a handler *)
(* holds a copy of the document that others may have changed meanwhile:    *)
(* save() writes the paths the handler changed in its copy, whatever the   *)
(* stored status is by then, and a transaction fails when the document was *)
(* written after the transaction read it.                                  *)
(*                                                                         *)
(* The status 'paused' is never stored by the code, and pauseTimer and     *)
(* startGracePeriod have no caller: none of these appears here.  Time is   *)
(* counted from startedAt, in ticks that are parts of a second, and stops  *)
(* at the time limit, because nothing depends on how much more has elapsed. *)
(* The server computes what is left of it in whole seconds.                *)
(***************************************************************************)
EXTENDS Naturals, Sequences

CONSTANTS Requests,    \* client calls that may be in progress at once
          Handlers,    \* the handlers that clients call
          Questions,   \* the questions of the test
          TimeLimit,   \* testSnapshot.settings.timeLimit, in ticks
          Second,      \* the ticks of a second
          UseSections, \* testSnapshot.settings.useSections: how time is rounded
          Instant,     \* the steps at which a call never waits for a whole tick
          MaxCrashes,  \* bound: restarts of the server process
          MaxFaults    \* bound: database operations that fail

ClientHandlers ==
    {"submit", "abandon", "forceNew", "checkExisting", "rejoin", "join",
     "socketRejoin", "leave", "answer", "skip", "view"}

(* What the server runs by itself: the rest of startTestSession, the expiry *)
(* callback of the timer, the hourly clean-up.                              *)
Background == {"start", "expiry", "cron"}

Calls == Requests \cup Background

Steps == {"idle", "check", "load", "expire", "abandon", "connect", "disconnect",
          "edit", "arm", "disarm", "txnRead", "txn", "recheck"}

ASSUME SessionAssumption ==
    /\ Requests \cap Background = {}
    /\ Handlers \subseteq ClientHandlers
    /\ TimeLimit \in Nat \ {0}
    /\ Second \in Nat \ {0}
    /\ TimeLimit % Second = 0
    /\ UseSections \in BOOLEAN
    /\ Instant \subseteq Steps
    /\ MaxCrashes \in Nat
    /\ MaxFaults \in Nat

(* Definitions named Bug... are not part of the model: each is the          *)
(* definition that follows it with a plausible mistake, kept to show that a *)
(* property can fail.                                                       *)

VARIABLES
  status,     \* TestSession.status
  connected,  \* TestSession.isConnected
  answers,    \* the questions whose studentAnswer is not null
  results,    \* the Results of the session, each as the answers it was graded on
  timer,      \* activeTimers.get(sessionId): empty, or the ticks it has left
  elapsed,    \* the time since startedAt, up to TimeLimit
  calls,      \* the progress of each handler call
  crashes,    \* restarts so far
  faults      \* failed database operations so far

document == <<status, connected, answers>>
vars == <<status, connected, answers, results, timer, elapsed, calls, crashes,
          faults>>

(* A call in progress: what it runs, the step it is at, isConnected as it   *)
(* read it, the time remaining it computed, whether the document it read is *)
(* still current for the write it is about to make, and the answers it is   *)
(* about (the one it edits, or those a transaction read).                   *)
Call(op, pc) == [op |-> op, pc |-> pc, sees |-> TRUE, rem |-> 0,
                 fresh |-> TRUE, about |-> {}]

NoCall == Call("none", "idle")

Init ==
    /\ status = "inProgress"
    /\ connected = TRUE
    /\ answers = {}
    /\ results = <<>>
    /\ timer = {}
    /\ elapsed = 0
    /\ calls = [c \in Calls |-> IF c = "start" THEN Call("start", "arm") ELSE NoCall]
    /\ crashes = 0
    /\ faults = 0

Active == status = "inProgress"

(* Math.floor(t / 1000), in ticks. *)
Floor(t) == t - (t % Second)

(* What is left of the limit for a connected student: with sections the     *)
(* time used is rounded down, without them the time that remains.           *)
Left == IF UseSections THEN TimeLimit - Floor(elapsed) ELSE Floor(TimeLimit - elapsed)

BugNoTimeWhenDisconnected == IF connected THEN Left ELSE 0

(* calculateTimeRemaining of a session in progress: without a connection no *)
(* time counts as used.                                                     *)
Remaining == IF connected THEN Left ELSE TimeLimit

Goto(c, pc) == [calls EXCEPT ![c].pc = pc]
Return(c)   == [calls EXCEPT ![c] = NoCall]

Activity == {"answer", "skip", "view"}

(* A write of the document makes every open transaction conflict; one that  *)
(* increments __v also makes the pending saves of questions fail.           *)
Invalidate(cs, bumped) ==
    [d \in Calls |->
        IF cs[d].pc = "txn" \/ (bumped /\ cs[d].pc = "edit")
        THEN [cs[d] EXCEPT !.fresh = FALSE]
        ELSE cs[d]]

-----------------------------------------------------------------------------
(* The start of a call. submit and abandon clear the timer before anything; *)
(* the call of a user who does not own the session has then done all it does. *)

Begin(c, op, q) ==
    /\ calls[c].pc = "idle"
    /\ calls' = [calls EXCEPT ![c] =
                    [Call(op, IF op = "submit" THEN "txnRead" ELSE "check")
                        EXCEPT !.about = IF op \in {"answer", "skip"}
                                         THEN {q} ELSE {}]]
    /\ timer' = IF op \in {"submit", "abandon"} THEN {} ELSE timer
    /\ UNCHANGED <<document, results, elapsed, crashes, faults>>

RefusedCall ==
    /\ timer # {}
    /\ timer' = {}
    /\ UNCHANGED <<document, results, elapsed, calls, crashes, faults>>

(* The hourly job starts. *)
CronStarts ==
    /\ calls["cron"].pc = "idle"
    /\ calls' = [calls EXCEPT !["cron"] = Call("cron", "check")]
    /\ UNCHANGED <<document, results, timer, elapsed, crashes, faults>>

(* The setTimeout of startSectionTimer fires: clearTimer, then the callback *)
(* of startServerTimer.                                                     *)
TimerFires ==
    /\ timer = {0}
    /\ calls["expiry"].pc = "idle"
    /\ timer' = {}
    /\ calls' = [calls EXCEPT !["expiry"] = Call("expiry", "check")]
    /\ UNCHANGED <<document, results, elapsed, crashes, faults>>

-----------------------------------------------------------------------------
(* The first read of a handler, and its decision. *)

Read(c, op) ==
    /\ calls[c].pc = "check"
    /\ calls[c].op \in op
    /\ Active
    /\ UNCHANGED <<document, results, timer, elapsed, crashes, faults>>

(* Every handler returns or throws for a session that is not active. *)
Reject(c) ==
    /\ calls[c].pc = "check"
    /\ ~Active
    /\ calls' = Return(c)
    /\ UNCHANGED <<document, results, timer, elapsed, crashes, faults>>

BugNeverSwept(c) ==
    /\ Read(c, {"checkExisting", "cron"})
    /\ calls' = Return(c)

(* checkRejoinSession and markTimedOutSessions. *)
CheckTime(c) ==
    /\ Read(c, {"checkExisting", "cron"})
    /\ calls' = IF Remaining = 0 THEN Goto(c, "expire") ELSE Return(c)

(* rejoinSession. *)
CheckRejoin(c) ==
    /\ Read(c, {"rejoin"})
    /\ calls' = IF Remaining = 0
                THEN Goto(c, "expire")
                ELSE [calls EXCEPT ![c].pc = "connect", ![c].sees = connected,
                                   ![c].rem = Remaining]

(* handleSocketRejoin. *)
CheckSocketRejoin(c) ==
    /\ Read(c, {"socketRejoin"})
    /\ calls' = Goto(c, IF Remaining = 0 THEN "expire" ELSE "load")

(* handleSocketJoin; handleSessionDisconnection with                        *)
(* handleSocketDisconnection, whose two equal checks are one step.          *)
CheckSocket(c) ==
    /\ Read(c, {"join", "leave"})
    /\ calls' = Goto(c, "load")

(* abandonSession, and the forceNew branch of createSession. *)
CheckAbandon(c) ==
    /\ Read(c, {"abandon", "forceNew"})
    /\ calls' = Goto(c, "abandon")

(* submitAnswer, skipQuestion, navigateToQuestion and getCurrentQuestion;   *)
(* only submitAnswer looks at the time.                                     *)
CheckActivity(c) ==
    /\ Read(c, Activity)
    /\ calls' = Goto(c, IF calls[c].op = "answer" /\ Remaining = 0
                        THEN "disarm" ELSE "edit")

(* The expiry callback finds the session in progress and submits it. *)
CheckExpiry(c) ==
    /\ Read(c, {"expiry"})
    /\ calls' = Goto(c, "txnRead")

(* markSessionConnected and markSessionDisconnected read the document once  *)
(* more, without a check.                                                   *)
Load(c) ==
    /\ calls[c].pc = "load"
    /\ calls' = [calls EXCEPT
                    ![c].pc = IF calls[c].op = "leave" THEN "disconnect" ELSE "connect",
                    ![c].sees = connected]
    /\ UNCHANGED <<document, results, timer, elapsed, crashes, faults>>

-----------------------------------------------------------------------------
(* The saves. *)

Write(c, pc) ==
    /\ calls[c].pc = pc
    /\ UNCHANGED <<elapsed, crashes, faults>>

(* session.status = 'expired' and save. *)
SaveExpired(c) ==
    /\ Write(c, "expire")
    /\ status' = "expired"
    /\ calls' = Invalidate(Return(c), FALSE)
    /\ UNCHANGED <<connected, answers, results, timer>>

(* session.status = 'abandoned' and save. *)
SaveAbandoned(c) ==
    /\ Write(c, "abandon")
    /\ status' = "abandoned"
    /\ calls' = Invalidate(Return(c), FALSE)
    /\ UNCHANGED <<connected, answers, results, timer>>

BugWritesWholeCopy(c) ==
    /\ Write(c, "connect")
    /\ connected' = TRUE
    /\ status' = IF calls[c].op = "rejoin" THEN "inProgress" ELSE status
    /\ calls' = Invalidate(IF calls[c].op = "rejoin"
                           THEN Goto(c, "arm")
                           ELSE [calls EXCEPT ![c] = Call("view", "check")],
                           FALSE)
    /\ UNCHANGED <<answers, results, timer>>

(* markConnected and save: isConnected is written only where the copy held  *)
(* false. rejoinSession also assigns status, to the value its copy holds,   *)
(* which writes nothing. Then the socket handlers go on to                  *)
(* getCurrentQuestion, and rejoinSession to the timer.                      *)
SaveConnected(c) ==
    /\ Write(c, "connect")
    /\ connected' = (connected \/ ~calls[c].sees)
    /\ calls' = Invalidate(IF calls[c].op = "rejoin"
                           THEN Goto(c, "arm")
                           ELSE [calls EXCEPT ![c] = Call("view", "check")],
                           FALSE)
    /\ UNCHANGED <<status, answers, results, timer>>

BugPausesOnDisconnect(c) ==
    /\ Write(c, "disconnect")
    /\ status' = "paused"
    /\ connected' = (connected /\ ~calls[c].sees)
    /\ calls' = Invalidate(Return(c), FALSE)
    /\ UNCHANGED <<answers, results, timer>>

(* markDisconnected and save. *)
SaveDisconnected(c) ==
    /\ Write(c, "disconnect")
    /\ connected' = (connected /\ ~calls[c].sees)
    /\ calls' = Invalidate(Return(c), FALSE)
    /\ UNCHANGED <<status, answers, results, timer>>

(* The save of submitAnswer, skipQuestion, navigateToQuestion and           *)
(* getCurrentQuestion. They write inside the questions array, so the save   *)
(* may fail with a VersionError where __v was incremented since the read.   *)
(* An answer or a skip that pushes to answeredQuestions or skippedQuestions *)
(* may increment it; whether Mongoose increments it and whether it checks   *)
(* it then depends on which path the copy changed last, and is left open.   *)
(* An answer after which the copy has no open question is test_complete, on *)
(* which the controller clears the timer.                                   *)
SaveActivity(c) ==
    /\ Write(c, "edit")
    /\ \/ /\ ~calls[c].fresh
          /\ calls' = Return(c)
          /\ UNCHANGED answers
       \/ /\ calls[c].fresh \/ calls[c].op \in {"answer", "skip"}
          /\ answers' = CASE calls[c].op = "answer" -> answers \cup calls[c].about
                          [] calls[c].op = "skip"   -> answers \ calls[c].about
                          [] OTHER                  -> answers
          /\ \E bumped \in BOOLEAN, complete \in BOOLEAN :
                /\ bumped => calls[c].op \in {"answer", "skip"}
                /\ complete => calls[c].op = "answer"
                /\ calls' = Invalidate(IF complete THEN Goto(c, "disarm")
                                                   ELSE Return(c), bumped)
    /\ UNCHANGED <<status, connected, results, timer>>

-----------------------------------------------------------------------------
(* The timer, once a handler is done with the document. *)

BugArmAlways(c) ==
    /\ calls[c].pc = "arm"
    /\ LET rem == IF calls[c].op = "start" THEN Left ELSE calls[c].rem
       IN timer' = IF rem > 0 THEN {rem} ELSE timer
    /\ calls' = [calls EXCEPT ![c] = Call("view", "check")]
    /\ UNCHANGED <<document, results, elapsed, crashes, faults>>

(* startServerTimer, with a number of seconds that it turns back into       *)
(* milliseconds: by startTestSession always, with the time the new session  *)
(* has left once it is saved; by rejoinTestSession when no timer is active, *)
(* with the time remaining that rejoinSession computed before it connected. *)
(* Both then call getCurrentQuestion.                                       *)
ArmTimer(c) ==
    /\ calls[c].pc = "arm"
    /\ LET rem == IF calls[c].op = "start" THEN Left ELSE calls[c].rem
       IN timer' = IF rem > 0 /\ (calls[c].op = "start" \/ timer = {})
                   THEN {rem} ELSE timer
    /\ calls' = [calls EXCEPT ![c] = Call("view", "check")]
    /\ UNCHANGED <<document, results, elapsed, crashes, faults>>

(* submitAnswer of the controller: clearTimer after test_complete and after *)
(* time_expired.                                                            *)
DisarmTimer(c) ==
    /\ calls[c].pc = "disarm"
    /\ timer' = {}
    /\ calls' = Return(c)
    /\ UNCHANGED <<document, results, elapsed, crashes, faults>>

-----------------------------------------------------------------------------
(* submitTestSession. *)

(* What follows a submission that throws: the student's request fails, the  *)
(* expiry callback catches the error and reads the session again.           *)
SubmissionFails(c) == IF calls[c].op = "expiry" THEN Goto(c, "recheck") ELSE Return(c)

(* findById in the transaction, and the status check; then grading.         *)
OpenTransaction(c) ==
    /\ calls[c].pc = "txnRead"
    /\ calls' = IF Active
                THEN [calls EXCEPT ![c].pc = "txn", ![c].fresh = TRUE,
                                   ![c].about = answers]
                ELSE SubmissionFails(c)
    /\ UNCHANGED <<document, results, timer, elapsed, crashes, faults>>

BugCommitChecksOnlyStatus(c) ==
    /\ Write(c, "txn")
    /\ Active
    /\ status' = "completed"
    /\ results' = Append(results, calls[c].about)
    /\ calls' = Invalidate(Return(c), FALSE)
    /\ UNCHANGED <<connected, answers, timer>>

(* The session, its Result and the statistics of the test are committed.    *)
Commit(c) ==
    /\ Write(c, "txn")
    /\ calls[c].fresh
    /\ status' = "completed"
    /\ results' = Append(results, calls[c].about)
    /\ calls' = Invalidate(Return(c), FALSE)
    /\ UNCHANGED <<connected, answers, timer>>

(* The commit takes effect but its acknowledgement is lost, so that the     *)
(* handler takes the submission for failed.                                 *)
CommitUnacknowledged(c) ==
    /\ calls[c].pc = "txn"
    /\ calls[c].fresh
    /\ faults < MaxFaults
    /\ faults' = faults + 1
    /\ status' = "completed"
    /\ results' = Append(results, calls[c].about)
    /\ calls' = Invalidate(SubmissionFails(c), FALSE)
    /\ UNCHANGED <<connected, answers, timer, elapsed, crashes>>

(* The save meets a write that is newer than the transaction's read.        *)
WriteConflict(c) ==
    /\ Write(c, "txn")
    /\ ~calls[c].fresh
    /\ calls' = SubmissionFails(c)
    /\ UNCHANGED <<document, results, timer>>

BugErrorOnlyLogged(c) ==
    /\ calls[c].pc = "recheck"
    /\ calls' = Return(c)
    /\ UNCHANGED <<document, results, timer, elapsed, crashes, faults>>

(* The catch block of the expiry callback. *)
Recheck(c) ==
    /\ calls[c].pc = "recheck"
    /\ calls' = IF Active THEN Goto(c, "expire") ELSE Return(c)
    /\ UNCHANGED <<document, results, timer, elapsed, crashes, faults>>

-----------------------------------------------------------------------------
(* The environment. *)

(* A database operation of call c fails, and so does the handler, except    *)
(* that the expiry callback catches a failure of its first read and of the  *)
(* submission.                                                              *)
DatabaseError(c) ==
    /\ faults < MaxFaults
    /\ calls[c].pc \in Steps \ {"idle", "arm", "disarm"}
    /\ faults' = faults + 1
    /\ calls' = IF calls[c].pc \in {"check", "txnRead", "txn"}
                THEN SubmissionFails(c) ELSE Return(c)
    /\ UNCHANGED <<document, results, timer, elapsed, crashes>>

(* One tick; it stops mattering once the limit is reached and no timer runs. *)
(* The steps in Instant are over before it: a database operation takes       *)
(* milliseconds. With Instant = {} every step may take any time.             *)
Tick ==
    /\ \A c \in Calls : calls[c].pc \notin Instant
    /\ elapsed < TimeLimit \/ timer \notin {{}, {0}}
    /\ elapsed' = IF elapsed < TimeLimit THEN elapsed + 1 ELSE elapsed
    /\ timer' = {IF t > 0 THEN t - 1 ELSE 0 : t \in timer}
    /\ UNCHANGED <<document, results, calls, crashes, faults>>

(* The process restarts: timers, callbacks and open requests are lost, the  *)
(* database stays as it is, open transactions abort.                        *)
Crash ==
    /\ crashes < MaxCrashes
    /\ crashes' = crashes + 1
    /\ timer' = {}
    /\ calls' = [c \in Calls |-> NoCall]
    /\ UNCHANGED <<document, results, elapsed, faults>>

-----------------------------------------------------------------------------
ReadStep(c) ==
    \/ Reject(c) \/ CheckTime(c) \/ CheckRejoin(c) \/ CheckSocketRejoin(c)
    \/ CheckSocket(c) \/ CheckAbandon(c) \/ CheckActivity(c) \/ CheckExpiry(c)
    \/ Load(c) \/ Recheck(c)

SaveStep(c) ==
    \/ SaveExpired(c) \/ SaveAbandoned(c) \/ SaveConnected(c)
    \/ SaveDisconnected(c) \/ SaveActivity(c)

SubmissionStep(c) == OpenTransaction(c) \/ Commit(c) \/ WriteConflict(c)

Proceed(c) ==
    ReadStep(c) \/ SaveStep(c) \/ SubmissionStep(c) \/ ArmTimer(c) \/ DisarmTimer(c)

Next ==
    \/ \E c \in Requests, op \in Handlers, q \in Questions : Begin(c, op, q)
    \/ \E c \in Calls : Proceed(c) \/ DatabaseError(c) \/ CommitUnacknowledged(c)
    \/ RefusedCall \/ CronStarts \/ TimerFires \/ Tick \/ Crash

Spec == Init /\ [][Next]_vars

(* Pending promises settle, a due timeout fires, time passes however many   *)
(* calls come and go, and the hourly job keeps running; clients need not do *)
(* anything.                                                                *)
Fairness ==
    /\ \A c \in Calls : WF_vars(Proceed(c))
    /\ WF_vars(TimerFires)
    /\ WF_vars(CronStarts)
    /\ SF_vars(Tick)

FairSpec == Spec /\ Fairness

-----------------------------------------------------------------------------
(* Properties. *)

(* The variables hold what the code can store in them. *)
TypeOK ==
    /\ status \in {"inProgress", "completed", "expired", "abandoned"}
    /\ connected \in BOOLEAN
    /\ answers \in SUBSET Questions
    /\ results \in Seq(SUBSET Questions)
    /\ timer \in SUBSET (0..TimeLimit)
    /\ elapsed \in 0..TimeLimit
    /\ calls \in [Calls -> [op : ClientHandlers \cup Background \cup {"none"},
                            pc : Steps, sees : BOOLEAN, rem : 0..TimeLimit,
                            fresh : BOOLEAN, about : SUBSET Questions]]
    /\ crashes \in 0..MaxCrashes
    /\ faults \in 0..MaxFaults

(* A session is graded at most once, however many submissions run side by   *)
(* side: the student's, a repeated one, and that of the expiry callback. It *)
(* has no Result while it is in progress and one once it is completed.      *)
GradedOnce ==
    /\ Len(results) <= 1
    /\ Active => results = <<>>
    /\ status = "completed" => Len(results) = 1

(* An open transaction that will commit still holds the stored document.    *)
OpenTransactionIsCurrent ==
    \A c \in Calls :
        calls[c].pc = "txn" /\ calls[c].fresh => Active /\ calls[c].about = answers

(* The Result is made from the answers that are stored when it is created:  *)
(* an answer that was acknowledged before the submission took effect is in  *)
(* it, even when it was saved while grading was under way.                  *)
GradesWhatIsStored == [][results' # results => results' = Append(results, answers)]_vars

(* Nobody loses a second: the timer is not due, the expiry callback does    *)
(* not run, and the session is not labelled expired, before the last second *)
(* of the limit, the one that rounding to whole seconds may take away.      *)
NeverCutShort ==
    (status = "expired" \/ timer = {0} \/ calls["expiry"].pc # "idle")
        => elapsed + Second > TimeLimit

(* A timer that runs is not replaced by one that runs longer, whether       *)
(* startTestSession and rejoinTestSession meet or two rejoins do, except by *)
(* the part of a second by which both are rounded.                          *)
TimerNotExtended ==
    [][\A t \in timer, u \in timer' : u < t + Second]_vars

(* The handlers together do to the session's status and Results what        *)
(* SessionOutcome allows.                                                   *)
Outcome == INSTANCE SessionOutcome WITH label <- status, grades <- Len(results)
ImplementsOutcome == Outcome!Spec

(* The expiry callback does not end, unless a restart or a failing database *)
(* cuts it short, before the session has: also when its submission meets     *)
(* concurrent saves.  Nothing would fire a second time.                      *)
ExpiryCloses ==
    [][/\ calls["expiry"].pc # "idle" /\ calls'["expiry"].pc = "idle"
       /\ UNCHANGED <<crashes, faults>>
       => ~Active']_vars

(* A session whose student stays connected from some time on does not stay  *)
(* in progress for ever, whatever happened to its timer. *)
SessionEnds == <>[]connected => <>~Active

-----------------------------------------------------------------------------
(* What comments and documents of the repository say of the program and the *)
(* code does not do.                                                        *)

(* A session that is labelled expired has been submitted: checkRejoinSession *)
(* says so to the student, and README.md has it submitted on timeout.       *)
ExpiredWasSubmitted == status = "expired" => results # <<>>
=============================================================================

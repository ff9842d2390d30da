# Verification of the EngineerSmith back end

TLA+ models of the server in `src/src/` (NestJS, Mongoose/MongoDB, Socket.IO),
their model checking with TLC and proofs with TLAPS. Paths below are relative to
the repository.

## 1. The system

| Component | State | Operations | Hard behaviour |
|---|---|---|---|
| Test session (`test-session/`) | `TestSession` and `Result` documents, the in-memory timer of each session | start, rejoin, abandon, submit, answer, skip, navigate, view, socket join / rejoin / disconnect, expiry callback, hourly clean-up | handlers interleave at every `await` over copies of one document; optimistic writes; a transaction; timers lost in a restart |
| Session creation (`SessionManagerService.createSession`) | all sessions of a student, `StudentTestOverride` | check existing, abandon by `forceNew`, count attempts, number, insert | several reads decide one insert |
| Question flow (`QuestionHandlerService`) | current section and question, question and section statuses, review flags | answer, skip, navigate, submit section, start review | retries of lost responses; long legal sequences of calls; one timer for sections that follow each other |
| Timers (`TimerService`) | maps of timers, intervals and callbacks per session | start, pause, resume, clear, grace period | four maps that refer to timeouts which fire late |
| Code execution (`grading/code-execution.service.ts`) | two priority queues, the running total and a counter per runtime | `executeCode`, release of a slot | limits, lost wake-ups, overtaking, starvation |
| Graders and runners (`grading/`) | none | grade a question, run code in a container or an engine with a timeout | external processes |
| Attempt requests and overrides (`notification/`, `admin/`) | `AttemptRequest`, `StudentTestOverride` | request, review, grant, change, delete | two reviewers; two documents changed one after the other |
| Code challenges (`code-challenge/`) | submissions, progress of a user on a challenge and a track, statistics | submit, test, enrol, administer | progress read before and saved after a run; tracks saved as a whole; slots in another document than the lists |
| Gateway (`gateway/`) | sockets with their session and user | connect, join, rejoin, disconnect, notify | connection events out of order |
| Results and analytics, users, organizations, tests, questions, tags, authentication | single documents | create, read, update, delete; queries | none beyond one document |
| Dashboard (`dashboard/`) | the question and review shown, the requests under way, the socket | click, reload, show a reply, reconnect | lost requests and replies, clicks while a request runs |

How they interact. A controller or the gateway calls `TestSessionService`, which
calls `SessionManagerService` and `QuestionHandlerService`; all of them find the
session document, change their copy and `save()` it. The controller owns the
timer: `startTestSession` and `rejoinTestSession` arm it, `submit`, `abandon` and
some answers clear it, and its callback calls `submitTestSession`. Grading calls
`CodeExecutionService`, which runs at most a configured number of jobs and queues
the others. Nothing else is shared: two handlers meet only in a document or in a
map of a service. `createSession` reads the overrides that the attempt requests
and the administrators write. The dashboard sends one request per click and shows
what the reply says; `enrollInTrack` saves the same track documents that
administrators edit.

What makes each part correct:

- *Test session*: one Result per graded session, made of the answers that are
  stored; nobody loses time; a timer is never extended; the session ends.
- *Session creation*: no more attempts than allowed, one active session, distinct
  attempt numbers.
- *Question flow*: an answer reaches the question it was written for; the lists,
  the statuses and the answers agree; sections follow each other and stay closed.
- *Code execution*: limits and accounting; no waiting job that could run; order
  on a runtime; every job gets its turn.
- *Attempt requests*: a request grants what it asked for, once, and only when
  approved.
- *Timers*: every timeout can be cleared; the callback comes once, when no time is
  left.
- *Sections*: no section is cut short; the session ends.
- *Challenges*: progress is earned and, for a student who waits, never lost; no
  track loses an edit; a listed challenge is claimed.
- *Dashboard*: the page shows where the session is; an answer is stored for the
  question that was shown.

## 2. Modules

| Module | What it is |
|---|---|
| `SessionOutcome` | abstract specification of one session: its label and how many Results it has |
| `TestSession` | one session and every handler that works on it, step by step |
| `SectionTimes` | the time of a test with sections; extends `TestSession` |
| `TestSession_proofs` | theorems about `TestSession` and `SectionTimes` |
| `Questionnaire` | abstract specification of a session's questions: sections in order, answers only in the open one |
| `QuestionFlow` | the questions of one session and every handler of `QuestionHandlerService` |
| `QuestionFlow_proofs` | theorems about `QuestionFlow` |
| `TestDashboard` | the student's page and the network, composed with `QuestionFlow`, which it extends |
| `TestDashboard_proofs` | theorems about `TestDashboard` |
| `TestOverride` | the extra attempts of a student on each test, and what administrators do to them |
| `SessionCreation` | the sessions of a student and `createSession`; extends `TestOverride` |
| `AttemptAccount` | abstract specification of attempt requests: decided once, granted at most once and in full |
| `AttemptRequests` | a student's requests and their review; extends `TestOverride` |
| `AttemptLimit` | the composition of the three, which share the overrides |
| `AttemptLimit_proofs` | theorems about `AttemptLimit` |
| `Countdown` | abstract specification of a timer |
| `SessionTimers` | `TimerService`: its maps, and the timeouts of Node they refer to |
| `SessionTimers_proofs` | theorems about `SessionTimers` |
| `ChallengeRecord` | abstract specification of a student's progress on a challenge |
| `ChallengeProgress` | `submitChallenge`, step by step, for overlapping submissions |
| `ChallengeProgress_proofs` | theorems about `ChallengeProgress` |
| `TrackCatalog` | the tracks of a language: their lists, the slots of challenges, enrolments |
| `TrackCatalog_proofs` | theorems about `TrackCatalog` |
| `ExecutionPool` | abstract specification of the execution service: a pool with limits and no queues |
| `CodeExecution` | the service with its queues and counters |
| `CodeExecution_proofs` | theorems about `CodeExecution` |
| `MC...` | values of the constants for TLC, one module for each of those that are checked |

### TestSession

State. `status`, `connected` and `answers` are the fields `status`, `isConnected`
and the non-null `studentAnswer`s of the document; `results` the Results made of
it, each as the set of answers it was graded on; `timer` the entry of
`activeTimers` (empty, or the ticks left); `elapsed` the time since `startedAt`, in
ticks of which `Second` make a second. What is left of the limit is computed in
whole seconds, as in the schema's methods: without sections the time that remains
is rounded down, with them the time used (`Floor`, `Left`, `UseSections`).
`calls` holds, for each handler in progress, what it runs, the `await` it is at
(`pc`) and what it read: `sees` (its copy of `isConnected`), `rem` (the time
remaining it computed), `about` (the answer it edits, or the answers its
transaction read) and `fresh` (nobody has invalidated the write it is about to
make).

Steps. JavaScript runs a handler without interruption from one `await` to the
next, so an action is one database operation with the code after it up to the
next one: the first read and its decision (`CheckTime`, `CheckRejoin`, ... one
per group of handlers that decide alike; `Reject` for their early returns), the
second read of `markSessionConnected` and `markSessionDisconnected` (`Load`), the
saves (`SaveExpired`, `SaveAbandoned`, `SaveConnected`, `SaveDisconnected`,
`SaveActivity`), the timer (`ArmTimer`, `DisarmTimer`, `TimerFires`), the
transaction (`OpenTransaction`, `Commit`, `CommitUnacknowledged`,
`WriteConflict`) and the catch block of the expiry callback (`Recheck`).
`RefusedCall` is a submit or an abandon of a user who does not own the session:
the controller clears the timer before the service looks at the owner.

What the database does (external, modelled from how the code uses it):

- `save()` of Mongoose writes the paths the handler changed. A path assigned its
  old value is not written: this is why `rejoinSession` does not reopen a session
  and why two connection events can cancel out (`SaveConnected`,
  `SaveDisconnected`).
- A save inside the `questions` array may carry the version `__v`, and may fail if
  the document was saved since it was read. Which saves check and increment the
  version depends on the paths they change, so both are left open
  (`SaveActivity`, `Invalidate`).
- A transaction fails if the document it read was written since
  (`Invalidate`, `WriteConflict`).
- An operation may fail (`DatabaseError`), or a commit take effect without its
  acknowledgement (`CommitUnacknowledged`); a restart loses every call and the
  timer (`Crash`).

### SectionTimes

In a test with sections each section has a limit and a start of its own, but the
session has one timer. `SectionTimes` takes the handlers of `TestSession` with
`elapsed` and `TimeLimit` for the section in progress, and adds `submitSection`:
its check (`CheckSection`), the save that moves on and restarts the time
(`SaveSection`), and `startServerTimer` for the next section (`ArmSection`), between
which the old timer may fire. `shown` is the time since the section the student
was last told of began, and `ranOut` whether such a section has run out: what the
student knows when the session ends. A student who ends the test before its last
section is refused, the timer being cleared by then (`RefuseSubmission`). An answer
in a test with sections clears no timer (`SaveActivityInSection`). All sections have the same limit, and
`sectionTimeUsed`, which no code writes, is left out.

### QuestionFlow

`TestSession` has one question and no sections, but time, connections and the end
of a session; `QuestionFlow` has all the questions of a session in progress and
nothing of its end. They share the handlers of `QuestionHandlerService`.

State. `doc` is the session document, as far as the questions go: `sec` and `idx`
are `currentSectionIndex` and `currentQuestionIndex`, `answer` and `status` are
`studentAnswer` and `status` of each question, `section` the status of each
section, and `answered`, `skipped`, `completed` and `review` the fields
`answeredQuestions`, `skippedQuestions`, `completedSections` and `reviewPhase`.
A question is the pair of its section and its position, an answer is the question
it was written for. `calls` holds the copy of each handler in progress, as read
and as changed.

Steps. A handler of this service awaits twice: `findById` and `save()`. Up to the
save it is one action (`SubmitAnswer`, `GetCurrentQuestion`,
`NavigateToQuestion`, `SkipQuestion`, `SubmitSection`, `StartSectionReview`),
which applies to the copy what the operator of the section above it computes
(`Advanced`, `Navigated`, `Skipped`, `SectionSubmitted`, `ReviewStarted`). `Save` writes the
paths that differ from what was read: a path assigned its old value is not
written, an element pushed to a list is added to the stored list. `SaveFails` is
a save that the database or the version check of arrays rejects.

Calls. A client answers questions of sections it has reached, and any such call
may arrive late or again: `SubmitAnswer` takes an answer to any of these
questions, with its `questionIndex` or without. The early returns change
nothing and are the guards. A test without sections is one section, and
`submitSection` is refused. `Sizes` are positive because the validation of tests
asks for it; `First` is the sum that the loop of `toGlobalIndex` computes.

### TestDashboard

The page of a test and its context, composed with `QuestionFlow`. `screen` is the
state the context keeps, the question, whether it is the review (`isReviewing`), and
whether a request runs (`submitting`), and whether the page is open and shows it
(`open`: `isInitialized` of `TestSessionPage`). `wire` is each request with what it asks,
its reply, and whether the page that sent it is still there. The buttons are
`SendAnswer`, `SendSkip`, `SendReview`, `SendSection` and `PickQuestion`, guarded by
what is shown and by `submitting` as the components disable them; `Hasty` names
what a student may do while a request runs (the grid of the review; leaving the
page, by a reload or otherwise). `OpenPage` starts or rejoins: after a reload
(`Reload`) with the state anew, and after a visit to another page of the application
(`Return`) with the state as it was, as `TestSessionProvider` is mounted for the whole
application and neither `startSession`, `rejoinSession` nor `resetSessionState` touches
`isReviewing`. For the same reason it may be set when the test begins
(`DashboardInit`). A page that is still opening is reloaded, never left. `Lose` loses a request or its reply, `Receive` shows
a reply as `handleServerResponse` does (`Shown`). The server's side is the handler
of `QuestionFlow` the request calls, with the copy it reads and its save, and the
reply made of it (`ReplyTo`); `AnswerBehind` is the reply to an answer with another
index, `Refuse` the errors. `missed` says what the page may not know: where the
session is, or whether it is under review, because the page has been opened anew
or the reply to a click was lost and no reply has told it since (`Told`; the reply
that opens a page tells only the question).

### AttemptLimit

One student, any number of tests. `sessions` lists the student's sessions in the
order of their creation, each with its test, status and `attemptNumber`;
`starts` holds the progress of each call of `createSession`: the session it
found, the attempts it counted, the limit it compared them with and the number
of the new attempt. An action is one database operation of the call:
`FindSession`, `CloseSession` (the save of abandoned or expired), `CountAttempts`,
`CheckLimit`, `NumberAttempt`, `InsertSession`. The sessions end meanwhile in any
of the ways of `TestSession` (`SessionEnds`); whether time is up is left open, as
`TestSession` is about that.

`extra` is `extraAttempts` of the override of each test, or `NoOverride`. A start
reads it, an approved request adds to it with `$inc` (`Increment`), and
administrators grant, set and delete it. `request` holds the stored requests,
`clerks` the calls of `submitAttemptRequest` and `reviewAttemptRequest` in
progress, and `granted`, a history variable, how often each request was added to
an override. `StartFails` and `ClerkFails` are a failing operation or a restart:
what has been saved stays.

### CodeExecution

A caller is a job that may be submitted again once it has settled. `highQueue`
and `normalQueue` are the two queues, `running` the jobs in flight,
`runningTotal` and `runningByRuntime` the counters, kept separately from `running`
because the code keeps them so. `SubmitImmediate` and `SubmitQueued` are the two
branches of `executeCode`; `Finish` is the end of `executeNow` with the release
and `processNextJob`, all in one synchronous piece of code.

### SessionTimers

One session, since sessions share nothing. `activeTimer`, `syncInterval`,
`graceTimer` and `warningTimers` are the entries of the four maps, `armed` the
timeouts and intervals that Node holds, which may fire late, and `immediates` the
callbacks given to `setImmediate`. Each method of the class is an action, in any
order: `StartSectionTimer`, `PauseTimer`, `ResumeTimer`, `ClearTimer`,
`StartGracePeriod`, `ClearGracePeriod`, `ForceExpire`; so is each callback: `Expire`,
`Warn`, `Sync`, `GraceEnds`, `Immediate`.

### ChallengeProgress

Each submission is a call with its own stages: the count that numbers it
(`CountSubmissions`), the stored submission (`StoreSubmission`), the read of the
student's progress (`ReadProgress`), the run (`Judge`, `RunFails`), the saved progress
(`SaveProgress`, or `InsertRefused` when two submissions insert the first document),
the statistics (`CountAttempt`, `SetRate`) and the answer. `UpdateUserProgress` is the
method of that name on the copy; `Merge` writes the paths it changed. `Catch` is the
catch block, `OperationFails` and `Restart` the faults. `Overlapping` are the
students who submit again before the answer.

### TrackCatalog

`catalog` holds the tracks of one language: how often each lists a challenge,
`__v` and `totalEnrolled`; `slot` the track each challenge is assigned to;
`enrolled` the stored enrolments. A call reads a track, does something else, and
saves the whole track (`SaveTrack`, which compares the version when the list is
written): `StartAdd` .. `SaveAddition` for `addChallengeToTrack`, `StartRemove` ..
`ReleaseSlot` for `removeChallengeFromTrack`, `StartBulk` .. `SaveBulk` for
`bulkCreateChallenges` (and `createChallenge`, a bulk of one), `StartArchive` and
`SaveArchived` for `deleteTrack`, `StartEnroll` .. `CountEnrollment` for
`enrollInTrack`. `createTrack` (`Init`) and `updateTrack` (`UpdateTrack`, a single
update) store any list they are sent, one of `Given`. `Abandon` ends a call wherever
it is. Three history variables name what escapes the checks of the code: `given`, the
entries that were listed without a check or a claim (by `createTrack`, `updateTrack`
or in bulk); `loose`, the entries `updateTrack` has changed since the track was last
saved; and `raced`, the challenges that two calls have added or removed at once.

## 3. What is checked

| Run | Properties | Distinct states |
|---|---|---|
| `code_execution` | types, the accounting, no lost wake-up, no overtaking, refinement of `ExecutionPool`, service of both priorities | 940 |
| `test_session` | types, nobody cut short by a second, timer not extended by a second, the expiry callback leaves no session open, graded from the stored answers, refinement of `SessionOutcome` | 1.05 million |
| `test_session_ends` | the session of a student who is connected from some time on ends | 204 510 |
| `section_times` | no section is cut short; the session ends in a test with sections too | 232 952 |
| `question_flow` | types; lists, statuses and answers agree; order of sections; refinement of `Questionnaire` | 146 810 |
| `dashboard` | the page is in step; answers reach the question shown; the requests are a behaviour of `QuestionFlow` | 85 325 |
| `attempt_limit` | types; one session in progress, attempts numbered apart and within the limit; one pending request, refinement of `AttemptAccount` | 1.06 million |
| `challenge_progress` | types; progress is earned; answers agree with it; refinement of `ChallengeRecord` | 1.02 million |
| `track_catalog` | types; counts and lists sound; no edit undone; a listed challenge is claimed | 1.85 million |
| `session_timers` | types; every timeout can be cleared, warnings are true; refinement of `Countdown` | 50 082 |
| `test_session_unsubmitted`, `dashboard_grid` | statements of the repository that the code does not keep (section 6) | |

Bounds. `Requests` is the number of client calls of `TestSession` in progress at
once; calls start again for ever, so one request already gives every sequence of
handlers, beside the server's own three calls (`start`, `expiry`, `cron`) which
interleave with it. One question is enough: an answer is either in a Result or
not, and no handler relates two of them. A limit of two seconds of two ticks
separates the start, moments between, the last second, which rounding may take
away, and the limit; `test_session_ends` needs only before and at the limit. `MaxCrashes` and `MaxFaults` bound the restarts and failures of a run, since
each property is violated, when it is, by a single one. `Instant` names the steps
that take less than a tick. It is empty in every passing run: any step may take
any time. The run that shows a counterexample of `TestSession` sets it so that the
counterexample does not rest on a database operation that takes as long as the
exam.

`section_times` has two sections of one second of two ticks, so that a section can
be submitted before its limit, within the second, at it, and after it, and the last
one is submitted as well; connecting, disconnecting and working on a question stand
for the handlers, as the others neither touch the time nor arm a timer in another
way. A late answer clears the timer, which `RefusedCall` does here at any moment.

`question_flow` has sections of 1, 2 and 1 questions: a first, a middle and a last
section, of different sizes so that global and relative indices differ, and a
section with a first and a last question. One call at a time still gives every
sequence of late and repeated calls. `dashboard` has sections of 2, 1 and 1
questions and one request at a time, any number of which are lost;
`dashboard_grid` two requests in sections of 2 and 1.

`attempt_limit` has two tests with one attempt each, an override of at most one
more, two sessions and two requests: a limit of one and of two attempts, a start
on the same and on another test than the last, a request on either. One start
and one request or review at a time: with two of either the properties are
false (section 6).

`challenge_progress` has a student who waits, with two submissions in one language,
and one who does not, with one in each of two languages, so that two submissions
of a student overlap and a language is solved before it is failed. The two
submissions that are alike are symmetric. One failure or restart.

`track_catalog` has two tracks, two administrators beside one enrolment, and one
challenge, created by one of them: two calls about it overlap in every way, on one
track and on both. A list that is sent to a track is empty or repeats the
challenge. Calls begin while the tracks have been saved fewer than `MaxSaves` = 2
times together; the two or three calls then under way still save, which gives
pairs of saves whose copies are stale. `FewLists`, a constraint of the run, keeps one
list at a time that `updateTrack` has changed, and one entry listed without a check.
Tracks and administrators are symmetric: no property or action names one. What one
run does not reach with these numbers, two enrolments that overlap and entries of
several challenges in one list, is left to the theorems.

In `session_timers` four calls arm timeouts within nine units of time (`MaxArms`,
`MaxNow`), with three units to run and warnings at two and one: a timer is started
over another, paused with time left and without, and resumed.

The code execution run has four callers on one runtime and three on another,
with both priorities, a total of 3 and 2 per runtime: both limits are reached,
separately and together, and both queues hold jobs that cannot run beside jobs
that can.

Fairness. `WF_vars(Proceed(c))` and `WF_allVars(SectionStep(c))`: a promise of a
database operation settles, and its continuation runs. `TimerFires`: a due
`setTimeout` runs. `CronStarts`: the hourly job is started again and again.
`SF_vars(Tick)`: time passes however many calls come and go (strong, because a tick
is disabled while a step of `Instant` is in progress or a timer that is due has not fired).
Clients owe nothing, and neither restarts nor failures are fair. `SessionEnds` and
`SectionsEnd` ask of the student only to be connected from some time on; what
came before, disconnections and restarts included, is left open. In
`CodeExecution` a run settles because `GradingService.withTimeout` settles it.

Deadlock is checked except in `challenge_progress`, `track_catalog` and
`session_timers`, whose calls, saves and clock are bounded.

Every property has a mutant: an operator `Bug...` beside the definition it
replaces, with a mistake one could make there, under which TLC finds the property
violated.

## 4. What is proved

For every number of callers, handlers, questions, tests, students, limits, restarts
and failures. The assumptions are the named `ASSUME`s of the modules on their
constants, all of which TLC evaluates in the runs, and, where a theorem says so,
one of `OneAtATime`, `OneRequestAtATime`, `OneStart` and `OneClerk`: calls of that
kind do not overlap. Each of these is needed; section 6 says what happens
without it.

`TestSession_proofs`:

- `TypeCorrect`. Each action changes one call; `ReadEffect`, `WriteEffect` and
  `QuietEffect` say so once for the three kinds of step. The lemmas are about
  `Typed`, which leaves room for the places of `submitSection`, and `SessionStep`, the
  steps both specifications share, so that each is proved once for both.
- `NoTimeIsLost` (`NeverCutShort`) and `TimerOnlyShrinks` (`TimerNotExtended`), from
  `TimeInv`: the timer has never a second less left than the session
  (`TimerOK`), a call that is about to mark the session expired has seen the last
  second of the limit, and the time a rejoin carries is less than what is left by
  less than a second (`TimesOK`). Neither property is inductive: a stale `rem` or a call at `expire`
  would break it in the next step.
- `OneResult` (`GradedOnce`), `CommitsAreCurrent`, `ResultsHoldStoredAnswers`
  (`GradesWhatIsStored`) and `SessionImplementsOutcome` (refinement), from
  `TxnInv`: a transaction that can still commit holds the stored document. The
  lemma `WriteMoves` is the heart: whatever writes the document leaves no open
  transaction fresh. `SessionInvariant` is the whole inductive invariant.
- `ExpiryEndsTheSession` (`ExpiryCloses`), from `ExpiryInv`: the callback is always at
  one of its own steps, and each of those that may end it either finds or makes
  the session ended, whatever made its transaction fail.

The same module proves of `SectionTimes`, for any number of sections:

- However many calls overlap: `SectionTypes`, `SectionsGradedOnce`,
  `SectionsHoldStoredAnswers`, `SectionsImplementOutcome` and
  `SectionExpiryEndsTheSession`: what holds of grading, of the outcome and of the
  expiry callback holds in tests with sections. A step is one of `SessionStep`,
  about which the lemmas are there already, or one of `SubmitStep`, which moves a
  call without a transaction and leaves status, answers and Results alone, but
  whose save lets open transactions fail (`SubmitEffect`).
- For one client call at a time (`OneRequestAtATime`): `SectionsAreNotCutShort`
  (`NoSectionCutShort`), from `SectionTimeInv`. `TimeInv` is false here: once
  `submitSection` has saved, the new section has used no time and the old timer
  still runs. So the timer and the calls that have seen the limit reached are
  compared with `shown` and `ranOut`, what the student was last told, and the timer
  with the section itself only while nobody has moved on. The hypothesis is needed
  because a rejoin may arm the time it has computed for one section in the next, if
  another call clears the timer meanwhile (section 6). `SectionsInOrder`
  (`SubmittedInOrder`), from `OrderInv`: the submitted sections are those before the
  one in progress, and a `submitSection` about to save has read that one.

`CodeExecution_proofs`: `TypeCorrect`, `SlotAccounting`, `NoJobIsDuplicated`,
`LimitsHold`, `NoWakeupIsLost`, `JobsStartInTurn` (`StartsInTurn`) and
`ServiceImplementsPool`, from the invariant `IInv` that conjoins the state properties
among them with the finiteness of `running`. That no wake-up is lost
although a release starts at most one job needs the accounting, the exact limits
and `NoJobTwice` together: a released slot makes room for at most one job, and on
its own runtime only. That no job is overtaken rests on it: a job that starts at
once passes nobody, as no waiting job of its runtime could start, and one from a
queue is the first that can, while those of its runtime can start exactly when it
can (`TakenInTurn`).

`QuestionFlow_proofs`, for tests with any number of sections of any size:

- However many calls overlap: `FlowTypes`, `IndexIsKept`
  (`AnswersKeepTheirIndex`), `OneSectionIsEnough` (`AnswersReachTheirQuestion` when
  there is one section, which is where the index check is sound) and
  `SectionsInTurn` (`EarlierSectionsCompleted`). The invariant `OverlapInv` says
  the same of the copies in progress: what a handler will write satisfies the
  property, and the sections it read as completed still are, so that a merge of
  such a copy into the document satisfies it too. The current section only grows
  together with `completedSections`, which never lose an element.
- When calls do not overlap (`OneAtATime`): `ListsStayInAgreement`,
  `SectionsStayInOrder` and `FlowImplementsQuestionnaire`, from `AloneInv`: the
  copy in progress was read from the document as it is, so that its save makes
  the document what the handler computed. That the lists agree needs
  that `toGlobalIndex` gives no two questions one index (`GlobalIndexFacts`), by
  the lemma `FirstGrows`: a smallest section that starts before an earlier one
  ends cannot exist.

`TestDashboard_proofs`, one request at a time, `Hasty` of any value:
`DashboardImplementsFlow`, `AnswersReachTheirQuestions`, `PageStaysInStep`,
`DashboardTypes` and, through `QuestionFlow`, `DashboardIsQuestionnaire`, from
`DashboardInv`. None of the properties is inductive: it takes what the page may
show (`PageInv`: a question of the current section, but a review perhaps of an
earlier one), that the page has not changed since it sent a request and that a
reply with a question brings it in step (`RequestInv`), what a handler is about to
write (`CallInv`), and that the page is in step until a reply is on its way or
lost (`SteadyInv`). A reply to a click tells both the question and the review, one
that opens the page only the question (`Informs`). The heart of it: a lost reply to `submitSection` leaves the page
on a review, from which no answer can be sent, so that the index check is never
asked to tell two sections apart.

`AttemptLimit_proofs`, for any tests, limits, amounts and bounds:

- However the calls overlap: `Types` (`TypeOK`), from `TypeInv`, which adds what a
  call in progress relies on: the session it closes and the request it reviews
  exist, and the attempt it inserts has a number. `Bounded` is in it because the
  highest number, a `CHOOSE`, exists only if the numbers have a bound
  (`Highest`).
- When starts do not overlap (`OneStart`): `OneSessionAtATime`, `AttemptsAreTold` and
  `AttemptsAreLimited`, from `LimitInv`. What a start has found out stays true
  until it inserts (`Holds`): once it has closed the session it found, none is in
  progress, so the count of ended sessions is the count of all, and no other
  attempt is added. Sessions that end and overrides that change disturb none of
  this.
- When reviews do not overlap (`OneClerk`): `RequestsAreFew` and
  `RequestsAreAnAccount`, from `ReviewInv`: a request about to be saved is still
  pending, one about to be granted is approved and has not been granted.

`ChallengeProgress_proofs`, for any students, languages and submissions:

- However submissions overlap: `ProgressTypes` and `ProgressEarned`, from
  `EarnedInv`. `EarnedProgress` alone is lost when a stale copy is saved; `ReadInv`
  says of the copies what holds of the documents, and that a copy of a judged
  submission leaves room for one more attempt, as its own submission is among the
  judged ones and not yet among the recorded. `ChallengeStatistics`
  (`StatisticsAddUp`), from `StatisticsInv`: a call is in the counts exactly when it
  is past the `$inc`, which nothing repeats, and what the `$inc` gave it are counts
  of some earlier moment, from which the success rate is written later.
- For students who wait (`Careful`): `AnswersKept` and `RecordImplemented`, from
  `CarefulInv`: one call of the student is in progress (`OneCall`), so its copy is
  the document (`ReadFresh`), and the numbers of the stored submissions are those
  up to their count (`Numbered`).

`TrackCatalog_proofs`, for any lists that administrators send and however calls
overlap: `CatalogTypes`, `CatalogKeptSound` and `EditsNotLost`, from `CatalogInv`: a copy
with the version of its track has its list, but for what `updateTrack` has changed
since (`loose`), and its count is below the enrolments once its own is stored
(`CopyInv`). That a step changes the list of a track is said once for all actions:
either the version stays and only loose entries change (`KeepsList`), or a call
whose copy is current saves that copy and what it adds or removes (`SavesList`).
`ListedStaysClaimed`, from `ClaimedInv`: a challenge that was not raced is added or
removed by one call at a time (`Alone`); a copy that may still be saved lists only
what its track has claimed (`CopiesClaimed`); and what the one call has seen of the
slot stays true: free or its own until it claims, its own until it saves, and after
a removal listed neither by the track nor by a copy that may still be saved
(`SlotsSeen`, `Gone`). The copies of enrolments and of calls about other challenges
are why the last two are needed: they save the list as they have read it.

`SessionTimers_proofs`: `TimerTypes`, `NoTimeoutStrays` and `CountdownImplemented`,
from `TimersInv`: Node holds no timeout that no map refers to, and the maps refer
to timeouts of their kind, due at the time the timer's start and time left imply
(`MapsInv`).

Only model-checked: liveness (`SessionEnds`, `SectionsEnd`, and
`HighPriorityServed` and `NormalServedWhenHighIsQuiet`), which the prover does not
reach, and the counterexamples. Every other property of a passing run is stated
by a theorem. The theorems about sections that no run repeats (`SectionTypes`,
`SectionsGradedOnce`, `SectionsHoldStoredAnswers`, `SectionsImplementOutcome`,
`SectionExpiryEndsTheSession`, `SectionsInOrder`) and `ChallengeStatistics` are proved
only.

## 5. What is not modelled

- The gateway's sockets: authentication, rooms and notifications. Joining,
  rejoining and disconnecting are in `TestSession`. What happens when a client
  reconnects lies in socket.io and the dashboard's `SocketContext` (section 6).
- In `SectionTimes`, operations of the database that fail other than the save of
  `submitSection`: `TestSession` is about those.
- The graders: functions of an answer, over strings and floating point, and
  processes outside the server. Their verdict is a choice in the models, their
  timeout the fairness of `CodeExecution`.
- `SnapshotService`: a shuffle, by a loop of fixed length. The models take any
  snapshot.
- Bookmarks, notes, hints, `runTests` and `testCode`: they store nothing, or change
  fields of one document that nothing relates. Of `updateTrack` and `deleteTrack` only
  what they do to the list of a track is in `TrackCatalog`: `isActive`, and the
  language, which `updateTrack` may change, are not.
- `paused` is never stored as a status and nothing calls `pauseTimer`,
  `startGracePeriod` or `forceExpire`, so grace periods do not occur in a session
  (`SessionTimers` has them, as methods of the class). Recovery of a session without
  snapshot: no code path writes one.
- Authentication, users, organizations, tests, questions and tags: one document at
  a time, checked by a schema; a model would show nothing. Results, analytics,
  listings and the other pages of the dashboard only read.
- In `SessionCreation` the limit of a test is a constant (nobody edits the test while
  it is taken), and accounts with `unlimitedAttempts` are left out, since the limit
  is not for them.

## 6. Where the code and the documents disagree

Shown by a run:

- **Expired sessions are not submitted** (`test_session_unsubmitted`).
  `session-manager.service.ts:250` says "Previous session expired and was
  auto-submitted"; the branch only stores the label.
- **An answer may be stored for a question of another section** (`dashboard_grid`).
  The check of `questionIndex` is meant for lost responses
  (`question-handler.service.ts:64`), but the index is relative to the section. The
  grid of the review stays enabled while `submitSection` runs
  (`ReviewModePane.tsx:207`): a click then brings a question of the section that is
  over back to the page, and its answer is stored for the question at that index of
  the next one. The same holds for any answer that arrives after its section.

Seen while modelling, with the place in the code:

- The time that is left is rounded down to seconds before the timer is armed
  (`test-session.schema.ts:357`), so without sections the timer fires up to a second
  before the limit, and a rejoin, an answer or the clean-up finds the time up within
  that second. With sections the time used is rounded down (`:334`), in the student's
  favour. A rejoin that meets the start of its session may have armed a timer that is
  shorter, by less than a second, than the one the start then arms.
- The controller clears the timer (`test-session.controller.ts:137,151`) before the
  service looks at who calls and whether the test may end: a call of another user, or
  a submission refused because sections are left, leaves the session without its
  timer until the student rejoins.
- After a restart a rejoin computes the time remaining before it marks the session
  connected (`session-manager.service.ts:450`), so that a disconnected session gets
  the whole limit again; `TECHNICAL-engineersmtih.md:279` has it computed from
  `startedAt` and `timeLimit`.
- `README.md:101` promises "Optional timed sections with independent timers", and the
  gateway has a `sendSectionExpired`, which nothing calls: when the time of one
  section is up the expiry callback submits the whole test. The timer of a section
  that may still fire between the save of `submitSection` and
  `test-session.controller.ts:356` submits it just after the next section began, and
  if a `submitSection` takes effect but its acknowledgement is lost, the old timer
  stays. `submitSection` itself looks at no time.
- Nothing resets `reviewPhase` (`question-handler.service.ts:117`), so after a review
  by `start-section-review` answers in later sections no longer advance, which
  `question-handler.service.ts:53` says they always do.
- A skip is not compared with the question it was meant for: the controller passes
  it on (`test-session.controller.ts:185`) before the index of
  `test-session.dto.ts:65` is looked at. Repeated after a lost reply it skips the
  next question, unseen; a repeated `submitSection` submits the next section.
- A second review is told that a request "has already been reviewed"
  (`notification.service.ts:311`), but the status is read and saved without a
  condition, so two reviews that overlap both grant it.
- "Each challenge can only be assigned to ONE track per language"
  (`code-challenge-admin.service.ts:378`). There are two ways around it. Challenges
  created in bulk (`:1042`) and those in a list sent to `createTrack` (`:317`) or
  `updateTrack` (`:340`) are listed without claiming their slot, so that
  `addChallengeToTrack` lists them in another track as well. And the slot is looked at
  (`:403`) before the solution is validated and claimed without a condition
  afterwards (`:454`): two administrators who add one challenge to two tracks at once
  both find it free, both claim it and both list it. Without the exception `raced`
  TLC shows `ListedIsClaimed` violated that way in 10 steps.
- The list in `CreateTrackDto` (`code-challenge.dto.ts:324`) is an array of anything:
  `createTrack` and `updateTrack` store it with repetitions.
- `updateTrack` overwrites the list without looking at its version: it undoes what was
  saved since the administrator read the track, and because it does not increment the
  version either, a call that has read the track before may undo it in turn.
- The review of a section stays on the page for longer than the section. `isReviewing`
  belongs to the whole application (`App.tsx:725`) and only the replies to clicks
  change it. When the reply to `submitSection` is lost, or the last test was submitted
  from its review, and the student leaves by the navigation bar and comes back, the
  page shows a question of a section that is not under review in the review pane,
  until it is reloaded or a question is picked. `InStep` allows just that; the answer
  still reaches the question shown, as none can be sent from the pane.
- `timer.service.ts:58` stores callbacks "for potential reconnection", and
  `clearTimer` deletes them; `forceExpire` and a resume without callbacks do nothing.
- `session-manager.service.ts:213` stores the status `failed`, which the schema's
  enum lacks.
- An answer that is null counts as answered in the lists and as missing when graded.
- After its socket has reconnected the dashboard does not emit `session:join` again,
  so `isConnected` stays false; and a first `connect_error` followed by socket.io's own
  reconnection leaves a socket without event handlers.

Limits of the properties, which the models show and no document denies:

- With two calls of `createSession` at once (`Starts = {s1, s2}` in
  `AttemptLimit.cfg`) `OneActiveSession`, `AttemptNumbersDiffer` and
  `StartsWithinAllowance` are each violated by a trace of 13 states: both find no
  session, and neither the insert nor an index of the schema looks again.
- `SessionEnds` and `SectionsEnd` need a student who is connected from some time on:
  once the timer is lost (a restart, or an answer after the limit that clears it), a
  session whose student stays away counts no more time as used and may stay in
  progress. When it ends this way it is by the clean-up, ungraded.
- With two client calls at once a session can go back to an earlier section: of
  two calls of `submitSection` that have read the same section one may save after the
  next section was submitted as well, and set `currentSectionIndex` to the section
  after the one it read. `SectionTimes` leaves open whether Mongoose refuses that
  save, since it pushes to `completedSections`, so that `SectionsInOrder` is about
  one call at a time. And a rejoin that overlaps a `submitSection` may arm the timer
  for the time that the section before had left, when a third call clears the one
  that `submitSection` has armed: an abandon, or an answer that found the time of the
  section before up, after which the next section is cut short.
- `ImplementsOutcome` lets the label of a session change after its end: an abandon
  that read the session in progress writes its status over that of a submission.
  The Result stays.
- `ListsAgree`, `SectionOrder` and `IsQuestionnaire` need calls that do not overlap:
  the lists are merged element by element, the questions path by path, and a
  navigation that was checked against one section may be saved in the next, because
  the index 0 that `submitSection` assigns is not written when the index it read was
  0. And the last section, once submitted, still takes answers.
- `InStep` and `ImplementsFlow` are for a student who waits for replies: the grid
  during a request, or leaving the page, overlaps two calls.
- Overlapping submissions of one student lose attempts and may put a solved
  language back to attempted; `successRate` may be that of older counts; a restart
  leaves a submission `running`, and a failure after the progress is saved marks a
  counted one `error`.
- `totalEnrolled` may stay below the enrolments, and a slot may stay claimed by a
  track that does not list the challenge, when a call ends half-way.

---------------------------- MODULE CodeExecution ----------------------------
(***************************************************************************)
(* The in-memory job queue of CodeExecutionService.  A job is one call of  *)
(* executeCode: its caller is idle, waits in one of two queues, or holds   *)
(* an execution slot while GradingService.runCodeTests is awaited.  Node   *)
(* runs every stretch of code between two awaits without interruption, so  *)
(* the actions below are those stretches: the synchronous part of          *)
(* executeCode, and the finally block of executeNow together with the      *)
(* processNextJob call it ends with.                                       *)
(*                                                                         *)
(* A submission the security scanner rejects returns before it touches the *)
(* queue and is a stuttering step.  The metrics counters are not modelled  *)
(* here.                                                                   *)
(***************************************************************************)
EXTENDS Naturals, Sequences, FiniteSets, SequencesExt

CONSTANTS Jobs,           \* the callers of executeCode; each has one job at a time
          Runtimes,       \* the members of the Runtime enum that are in use
          RuntimeOf,      \* QueuedJob.runtime, fixed for a job
          HighPriority,   \* the jobs whose QueuedJob.priority is 'high'
          MaxTotal,       \* MAX_CONCURRENT_TOTAL
          MaxPerRuntime   \* MAX_CONCURRENT_PER_LANGUAGE

ASSUME JobAssumption ==
    /\ RuntimeOf \in [Jobs -> Runtimes]
    /\ HighPriority \subseteq Jobs

ASSUME LimitAssumption ==
    /\ MaxTotal \in Nat \ {0}
    /\ MaxPerRuntime \in Nat \ {0}

VARIABLES highQueue,         \* highPriorityQueue
          normalQueue,       \* normalPriorityQueue
          running,           \* the jobs between acquire and release in executeNow
          runningTotal,      \* the counter runningTotal
          runningByRuntime   \* the map runningByRuntime

vars == <<highQueue, normalQueue, running, runningTotal, runningByRuntime>>

NormalPriority == Jobs \ HighPriority

Queued == ToSet(highQueue) \cup ToSet(normalQueue)

Idle == Jobs \ (running \cup Queued)

Init ==
    /\ highQueue = <<>>
    /\ normalQueue = <<>>
    /\ running = {}
    /\ runningTotal = 0
    /\ runningByRuntime = [r \in Runtimes |-> 0]

-----------------------------------------------------------------------------
(* Definitions named Bug... are not part of the model: each is the          *)
(* definition that follows it with a plausible mistake, kept to show that a *)
(* property can fail.                                                       *)

(* canExecuteImmediately(runtime), for given values of the two counters. *)
CanExecute(r, total, byRuntime) ==
    /\ total < MaxTotal
    /\ byRuntime[r] < MaxPerRuntime

BugOnlyQueueHead(queue, total, byRuntime) ==
    {i \in 1..Len(queue) :
        i = 1 /\ CanExecute(RuntimeOf[queue[i]], total, byRuntime)}

BugLastExecutable(queue, total, byRuntime) ==
    {i \in 1..Len(queue) :
        /\ CanExecute(RuntimeOf[queue[i]], total, byRuntime)
        /\ \A k \in (i + 1)..Len(queue) :
              ~CanExecute(RuntimeOf[queue[k]], total, byRuntime)}

(* findExecutableJob(queue): the position it removes, as a set with at most *)
(* one element; empty where the code returns null.                          *)
FirstExecutable(queue, total, byRuntime) ==
    {i \in 1..Len(queue) :
        /\ CanExecute(RuntimeOf[queue[i]], total, byRuntime)
        /\ \A k \in 1..(i - 1) :
              ~CanExecute(RuntimeOf[queue[k]], total, byRuntime)}

(* executeNow up to its await, entered with counters total and byRuntime    *)
(* and with the set others of jobs in flight.                               *)
ExecuteNow(j, total, byRuntime, others) ==
    /\ running' = others \cup {j}
    /\ runningTotal' = total + 1
    /\ runningByRuntime' = [byRuntime EXCEPT ![RuntimeOf[j]] = @ + 1]

(* executeCode for a job that passed the scan and finds a free slot. *)
SubmitImmediate(j) ==
    /\ j \in Idle
    /\ CanExecute(RuntimeOf[j], runningTotal, runningByRuntime)
    /\ ExecuteNow(j, runningTotal, runningByRuntime, running)
    /\ UNCHANGED <<highQueue, normalQueue>>

BugPriorityIgnored(j) ==
    /\ j \in Idle
    /\ ~CanExecute(RuntimeOf[j], runningTotal, runningByRuntime)
    /\ highQueue' = Append(highQueue, j)
    /\ UNCHANGED <<normalQueue, running, runningTotal, runningByRuntime>>

(* executeCode for a job that passed the scan and must wait. *)
SubmitQueued(j) ==
    /\ j \in Idle
    /\ ~CanExecute(RuntimeOf[j], runningTotal, runningByRuntime)
    /\ IF j \in HighPriority
       THEN highQueue' = Append(highQueue, j) /\ UNCHANGED normalQueue
       ELSE normalQueue' = Append(normalQueue, j) /\ UNCHANGED highQueue
    /\ UNCHANGED <<running, runningTotal, runningByRuntime>>

BugNormalForgotten(total, byRuntime) ==
    {"high"} \X FirstExecutable(highQueue, total, byRuntime)

BugHighForgotten(total, byRuntime) ==
    {"normal"} \X FirstExecutable(normalQueue, total, byRuntime)

(* The search of processNextJob: the first executable job of the high      *)
(* priority queue, if there is none that of the normal queue, if any.      *)
NextJob(total, byRuntime) ==
    LET high == {"high"} \X FirstExecutable(highQueue, total, byRuntime)
        normal == {"normal"} \X FirstExecutable(normalQueue, total, byRuntime)
    IN  IF high # {} THEN high ELSE normal

(* queue.splice(i, 1) *)
Splice(queue, i) == RemoveAt(queue, i)

(* processNextJob, run with the counters total and byRuntime and the set    *)
(* others left by the release: at most one job starts.                      *)
ProcessNextJob(total, byRuntime, others) ==
    LET next == NextJob(total, byRuntime)
    IN  \/ \E i \in 1..Len(highQueue) :
              /\ <<"high", i>> \in next
              /\ highQueue' = Splice(highQueue, i)
              /\ ExecuteNow(highQueue[i], total, byRuntime, others)
              /\ UNCHANGED normalQueue
        \/ \E i \in 1..Len(normalQueue) :
              /\ <<"normal", i>> \in next
              /\ normalQueue' = Splice(normalQueue, i)
              /\ ExecuteNow(normalQueue[i], total, byRuntime, others)
              /\ UNCHANGED highQueue
        \/ /\ next = {}
           /\ running' = others
           /\ runningTotal' = total
           /\ runningByRuntime' = byRuntime
           /\ UNCHANGED <<highQueue, normalQueue>>

BugRuntimeSlotLeaked(j) ==
    /\ j \in running
    /\ ProcessNextJob(runningTotal - 1, runningByRuntime, running \ {j})

(* runCodeTests settles (a result, a service timeout reported as a result,  *)
(* or a BadRequestException): the finally block of executeNow.              *)
Finish(j) ==
    /\ j \in running
    /\ ProcessNextJob(runningTotal - 1,
                      [runningByRuntime EXCEPT ![RuntimeOf[j]] = @ - 1],
                      running \ {j})

Next == \E j \in Jobs : SubmitImmediate(j) \/ SubmitQueued(j) \/ Finish(j)

Spec == Init /\ [][Next]_vars

(* GradingService.withTimeout races every run against a timer, so a run     *)
(* that holds a slot settles; nothing forces a caller to submit.            *)
Fairness == \A j \in Jobs : WF_vars(Finish(j))

FairSpec == Spec /\ Fairness

-----------------------------------------------------------------------------
(* Types of the service's private state. *)
TypeOK ==
    /\ highQueue \in Seq(HighPriority)
    /\ normalQueue \in Seq(NormalPriority)
    /\ running \in SUBSET Jobs
    /\ runningTotal \in Nat
    /\ runningByRuntime \in [Runtimes -> Nat]

(* The two kinds of counter agree with the jobs in flight: every acquire of *)
(* executeNow is paired with exactly one release in its finally block, also *)
(* when the next job is started inside that block.  A leaked or doubly      *)
(* released slot would change the capacity of the service for good.         *)
RunningOn(r) == {j \in running : RuntimeOf[j] = r}

CountersMatchRunning ==
    /\ runningTotal = Cardinality(running)
    /\ \A r \in Runtimes : runningByRuntime[r] = Cardinality(RunningOn(r))

(* "Max concurrent jobs 8, per-runtime concurrent limit 3": no more jobs    *)
(* hold a slot than the two limits allow.                                   *)
WithinLimits ==
    /\ Cardinality(running) <= MaxTotal
    /\ \A r \in Runtimes : Cardinality(RunningOn(r)) <= MaxPerRuntime

(* A job is in one place: it waits in one queue position or it runs.        *)
NoJobTwice ==
    /\ IsInjective(highQueue) /\ IsInjective(normalQueue)
    /\ running \cap Queued = {}

(* No wake-up is lost although a release starts at most one job and an      *)
(* arrival starts none of the others: whenever no code of the service is on *)
(* the stack, no waiting job could be executed.                             *)
NoLostWakeup ==
    \A j \in Queued : ~CanExecute(RuntimeOf[j], runningTotal, runningByRuntime)

(* Nobody is overtaken on its own runtime: when a job starts, immediately   *)
(* or from a queue, no job of that runtime waits with a higher priority or, *)
(* with the same priority, from earlier on.                                 *)
Before(i, j) ==
    \/ i \in HighPriority /\ j \in NormalPriority
    \/ \E q \in {highQueue, normalQueue} :
          \E m, n \in 1..Len(q) : m < n /\ q[m] = i /\ q[n] = j
    \/ j \in Idle /\ (i \in HighPriority <=> j \in HighPriority)

Starts(j) == j \notin running /\ j \in running'

StartsInTurn ==
    [][\A j \in Jobs : Starts(j) =>
          \A i \in Queued \ {j} :
             RuntimeOf[i] = RuntimeOf[j] => ~Before(i, j)]_vars

(* A high priority job (the code of a timed test submission) is never       *)
(* starved, whatever the callers of other jobs do.                          *)
HighPriorityServed ==
    \A j \in HighPriority : j \in Queued ~> j \in running

(* A normal job is served as soon as high priority jobs stop waiting.       *)
NormalServedWhenHighIsQuiet ==
    <>[](highQueue = <<>>) =>
        \A j \in NormalPriority : j \in Queued ~> j \in running

(* The queue implements the abstract pool: forgetting queue positions and   *)
(* counters, every step is a step of ExecutionPool.                         *)
Pool == INSTANCE ExecutionPool WITH waiting <- Queued, inFlight <- running

ImplementsPool == Pool!Spec
=============================================================================

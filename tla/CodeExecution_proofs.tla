------------------------ MODULE CodeExecution_proofs ------------------------
(***************************************************************************)
(* Proofs about CodeExecution, for any number of jobs and runtimes and any *)
(* positive limits.  The inductive invariant is the conjunction of the     *)
(* invariants TLC checks and the finiteness of the set of running jobs:    *)
(* none is inductive alone.  That the limits hold after a job is started   *)
(* needs the counters to be right; that the counters stay right needs a    *)
(* job never to be in two places; and that a release wakes enough waiting  *)
(* jobs by waking one needs that no waiting job was executable before.     *)
(***************************************************************************)
EXTENDS CodeExecution, FiniteSetTheorems, TLAPS

RunningOnIn(flight, r) == {j \in flight : RuntimeOf[j] = r}

(* The two counters, taken as values, describe the set flight of jobs. *)
Describe(total, byRuntime, flight) ==
    /\ flight \in SUBSET Jobs
    /\ IsFiniteSet(flight)
    /\ total \in Nat
    /\ byRuntime \in [Runtimes -> Nat]
    /\ total = Cardinality(flight)
    /\ \A r \in Runtimes : byRuntime[r] = Cardinality(RunningOnIn(flight, r))

IInv ==
    /\ TypeOK
    /\ IsFiniteSet(running)
    /\ CountersMatchRunning
    /\ WithinLimits
    /\ NoJobTwice
    /\ NoLostWakeup

-----------------------------------------------------------------------------
(* Facts about the operators. *)

(* A nonempty set of naturals has a least element. *)
LEMMA LeastElement ==
  ASSUME NEW T \in SUBSET Nat, T # {}
  PROVE  \E x \in T : \A y \in T : x <= y
<1>1. PICK x \in T : \A y \in T : ~(<<y, x>> \in OpToRel(<, Nat))
  BY NatLessThanWellFounded, WFMin, Zenon
<1>2. \A y \in T : <<y, x>> \in Nat \X Nat
  OBVIOUS
<1>3. \A y \in T : ~(y < x)
  BY <1>1, <1>2 DEF OpToRel
<1> QED BY <1>3

(* Array.splice(i, 1) keeps the other elements in their order. *)
LEMMA SpliceElements ==
  ASSUME NEW S, NEW q \in Seq(S), NEW i \in 1..Len(q)
  PROVE  /\ Splice(q, i) \in Seq(S)
         /\ Len(Splice(q, i)) = Len(q) - 1
         /\ \A k \in 1..(Len(q) - 1) :
               Splice(q, i)[k] = q[IF k < i THEN k ELSE k + 1]
<1> DEFINE front == SubSeq(q, 1, i - 1)
           back  == SubSeq(q, i + 1, Len(q))
<1>1. /\ front \in Seq(S) /\ Len(front) = i - 1
      /\ \A k \in 1..(i - 1) : front[k] = q[k]
  OBVIOUS
<1>2. /\ back \in Seq(S) /\ Len(back) = Len(q) - i
      /\ \A k \in 1..(Len(q) - i) : back[k] = q[k + i]
  OBVIOUS
<1> HIDE DEF front, back
<1>3. Splice(q, i) = front \o back
  BY DEF Splice, RemoveAt, front, back
<1>4. /\ front \o back \in Seq(S)
      /\ Len(front \o back) = Len(q) - 1
  BY <1>1, <1>2
<1>5. ASSUME NEW k \in 1..(Len(q) - 1)
      PROVE  (front \o back)[k] = q[IF k < i THEN k ELSE k + 1]
  <2>1. CASE k < i
    BY <2>1, <1>1, <1>2
  <2>2. CASE ~(k < i)
    <3>1. (front \o back)[k] = back[k - (i - 1)]
      BY <2>2, <1>1, <1>2
    <3>2. back[k - (i - 1)] = q[k + 1]
      BY <2>2, <1>2
    <3> QED BY <3>1, <3>2, <2>2
  <2> QED BY <2>1, <2>2
<1> QED BY <1>3, <1>4, <1>5

(* Splicing a job out of a queue that holds no job twice removes that job   *)
(* and no other one.                                                        *)
LEMMA SpliceSet ==
  ASSUME NEW S, NEW q \in Seq(S), NEW i \in 1..Len(q), IsInjective(q)
  PROVE  /\ Splice(q, i) \in Seq(S)
         /\ IsInjective(Splice(q, i))
         /\ ToSet(Splice(q, i)) = ToSet(q) \ {q[i]}
<1> DEFINE p == Splice(q, i)
<1>1. /\ p \in Seq(S) /\ Len(p) = Len(q) - 1
      /\ \A k \in 1..(Len(q) - 1) : p[k] = q[IF k < i THEN k ELSE k + 1]
  BY SpliceElements
<1> HIDE DEF p
<1>2. \A m, n \in 1..Len(q) : q[m] = q[n] => m = n
  BY DEF IsInjective
<1>3. IsInjective(p)
  BY <1>1, <1>2 DEF IsInjective
<1>4. ToSet(p) \subseteq ToSet(q) \ {q[i]}
  BY <1>1, <1>2 DEF ToSet
<1>5. ASSUME NEW m \in 1..Len(q), q[m] # q[i]
      PROVE  q[m] \in ToSet(p)
  <2>1. CASE m < i
    BY <2>1, <1>1 DEF ToSet
  <2>2. CASE m > i
    <3>1. m - 1 \in 1..(Len(q) - 1) /\ ~(m - 1 < i)
      BY <2>2
    <3>2. p[m - 1] = q[m]
      BY <3>1, <1>1
    <3> QED BY <3>1, <3>2, <1>1 DEF ToSet
  <2> QED BY <2>1, <2>2, <1>5
<1>6. ToSet(q) \ {q[i]} \subseteq ToSet(p)
  BY <1>5 DEF ToSet
<1> QED BY <1>1, <1>3, <1>4, <1>6 DEF p

(* push adds a job that was not in the queue. *)
LEMMA AppendSet ==
  ASSUME NEW S, NEW q \in Seq(S), NEW j \in S, j \notin ToSet(q), IsInjective(q)
  PROVE  /\ Append(q, j) \in Seq(S)
         /\ IsInjective(Append(q, j))
         /\ ToSet(Append(q, j)) = ToSet(q) \cup {j}
<1>1. /\ Append(q, j) \in Seq(S) /\ Len(Append(q, j)) = Len(q) + 1
      /\ \A k \in 1..Len(q) : Append(q, j)[k] = q[k]
      /\ Append(q, j)[Len(q) + 1] = j
  OBVIOUS
<1>2. \A k \in 1..Len(q) : q[k] # j
  BY DEF ToSet
<1>3. \A m, n \in 1..Len(q) : q[m] = q[n] => m = n
  BY DEF IsInjective
<1>4. DOMAIN Append(q, j) = 1..Len(q) \cup {Len(q) + 1}
  BY <1>1
<1>5. IsInjective(Append(q, j))
  BY <1>1, <1>2, <1>3, <1>4 DEF IsInjective
<1>6. ToSet(Append(q, j)) = ToSet(q) \cup {j}
  BY <1>1, <1>4 DEF ToSet
<1> QED BY <1>1, <1>5, <1>6

(* findExecutableJob finds a job whenever the queue holds an executable one. *)
LEMMA FirstExecutableExists ==
  ASSUME NEW q \in Seq(Jobs), NEW total, NEW byRuntime,
         FirstExecutable(q, total, byRuntime) = {}
  PROVE  \A j \in ToSet(q) : ~CanExecute(RuntimeOf[j], total, byRuntime)
<1> DEFINE T == {i \in 1..Len(q) : CanExecute(RuntimeOf[q[i]], total, byRuntime)}
<1>1. T = {}
  <2>1. SUFFICES ASSUME T # {} PROVE FALSE
    OBVIOUS
  <2>2. PICK x \in T : \A y \in T : x <= y
    <3>1. T \in SUBSET Nat
      OBVIOUS
    <3> HIDE DEF T
    <3> QED BY <3>1, <2>1, LeastElement
  <2>3. x \in FirstExecutable(q, total, byRuntime)
    BY <2>2 DEF FirstExecutable
  <2> QED BY <2>3
<1> QED BY <1>1 DEF ToSet

-----------------------------------------------------------------------------
(* Acquire and release of executeNow. *)

LEMMA AcquireDescribes ==
  ASSUME NEW total, NEW byRuntime, NEW flight, NEW j \in Jobs,
         Describe(total, byRuntime, flight), j \notin flight
  PROVE  Describe(total + 1, [byRuntime EXCEPT ![RuntimeOf[j]] = @ + 1],
                  flight \cup {j})
<1> USE DEF Describe
<1>1. /\ IsFiniteSet(flight \cup {j})
      /\ Cardinality(flight \cup {j}) = total + 1
  BY FS_AddElement
<1>2. ASSUME NEW r \in Runtimes
      PROVE  [byRuntime EXCEPT ![RuntimeOf[j]] = @ + 1][r]
               = Cardinality(RunningOnIn(flight \cup {j}, r))
  <2>1. IsFiniteSet(RunningOnIn(flight, r)) /\ j \notin RunningOnIn(flight, r)
    BY FS_Subset DEF RunningOnIn
  <2>2. CASE RuntimeOf[j] = r
    <3>1. RunningOnIn(flight \cup {j}, r) = RunningOnIn(flight, r) \cup {j}
      BY <2>2 DEF RunningOnIn
    <3>2. Cardinality(RunningOnIn(flight, r) \cup {j})
            = Cardinality(RunningOnIn(flight, r)) + 1
      BY <2>1, FS_AddElement
    <3>3. [byRuntime EXCEPT ![RuntimeOf[j]] = @ + 1][r] = byRuntime[r] + 1
      BY <2>2
    <3> QED BY <3>1, <3>2, <3>3
  <2>3. CASE RuntimeOf[j] # r
    <3>1. RunningOnIn(flight \cup {j}, r) = RunningOnIn(flight, r)
      BY <2>3 DEF RunningOnIn
    <3> QED BY <3>1, <2>3
  <2> QED BY <2>2, <2>3
<1>3. [byRuntime EXCEPT ![RuntimeOf[j]] = @ + 1] \in [Runtimes -> Nat]
  BY JobAssumption
<1> QED BY <1>1, <1>2, <1>3

LEMMA ReleaseDescribes ==
  ASSUME NEW total, NEW byRuntime, NEW flight, NEW j \in flight,
         Describe(total, byRuntime, flight)
  PROVE  Describe(total - 1, [byRuntime EXCEPT ![RuntimeOf[j]] = @ - 1],
                  flight \ {j})
<1> USE DEF Describe
<1>1. /\ IsFiniteSet(flight \ {j})
      /\ Cardinality(flight \ {j}) = total - 1
      /\ Cardinality(flight \ {j}) \in Nat
  BY FS_RemoveElement, FS_CardinalityType
<1>2. ASSUME NEW r \in Runtimes
      PROVE  /\ [byRuntime EXCEPT ![RuntimeOf[j]] = @ - 1][r]
                  = Cardinality(RunningOnIn(flight \ {j}, r))
             /\ Cardinality(RunningOnIn(flight \ {j}, r)) \in Nat
  <2>1. /\ IsFiniteSet(RunningOnIn(flight, r))
        /\ IsFiniteSet(RunningOnIn(flight \ {j}, r))
    BY <1>1, FS_Subset DEF RunningOnIn
  <2>2. CASE RuntimeOf[j] = r
    <3>1. /\ RunningOnIn(flight \ {j}, r) = RunningOnIn(flight, r) \ {j}
          /\ j \in RunningOnIn(flight, r)
      BY <2>2 DEF RunningOnIn
    <3>2. Cardinality(RunningOnIn(flight, r) \ {j})
            = Cardinality(RunningOnIn(flight, r)) - 1
      BY <2>1, <3>1, FS_RemoveElement
    <3>3. [byRuntime EXCEPT ![RuntimeOf[j]] = @ - 1][r] = byRuntime[r] - 1
      BY <2>2
    <3>4. Cardinality(RunningOnIn(flight \ {j}, r)) \in Nat
      BY <2>1, FS_CardinalityType
    <3> QED BY <3>1, <3>2, <3>3, <3>4
  <2>3. CASE RuntimeOf[j] # r
    <3>1. RunningOnIn(flight \ {j}, r) = RunningOnIn(flight, r)
      BY <2>3 DEF RunningOnIn
    <3> QED BY <3>1, <2>1, <2>3, FS_CardinalityType
  <2> QED BY <2>2, <2>3
<1>3. [byRuntime EXCEPT ![RuntimeOf[j]] = @ - 1] \in [Runtimes -> Nat]
  <2>1. \A r \in Runtimes : [byRuntime EXCEPT ![RuntimeOf[j]] = @ - 1][r] \in Nat
    BY <1>2
  <2>2. DOMAIN [byRuntime EXCEPT ![RuntimeOf[j]] = @ - 1] = Runtimes
    OBVIOUS
  <2> QED BY <2>1, <2>2
<1> QED BY <1>1, <1>2, <1>3

(* The limits, read off the counters. *)
LEMMA LimitsFromCounters ==
  ASSUME Describe(runningTotal, runningByRuntime, running)
  PROVE  /\ CountersMatchRunning
         /\ WithinLimits <=>
              /\ runningTotal <= MaxTotal
              /\ \A r \in Runtimes : runningByRuntime[r] <= MaxPerRuntime
BY DEF Describe, CountersMatchRunning, WithinLimits, RunningOn, RunningOnIn

LEMMA CountersDescribe ==
  IInv => Describe(runningTotal, runningByRuntime, running)
BY DEF IInv, TypeOK, Describe, CountersMatchRunning, RunningOn, RunningOnIn

-----------------------------------------------------------------------------
(* The parts of a step. *)

(* Starting an executable job keeps the counters right and the limits. *)
LEMMA ExecuteNowKeeps ==
  ASSUME NEW total, NEW byRuntime, NEW others, NEW j \in Jobs, j \notin others,
         Describe(total, byRuntime, others),
         \A r \in Runtimes : byRuntime[r] <= MaxPerRuntime,
         CanExecute(RuntimeOf[j], total, byRuntime),
         ExecuteNow(j, total, byRuntime, others)
  PROVE  /\ Describe(runningTotal', runningByRuntime', running')
         /\ CountersMatchRunning' /\ WithinLimits'
<1>1. Describe(runningTotal', runningByRuntime', running')
  BY AcquireDescribes DEF ExecuteNow
<1>2. RuntimeOf[j] \in Runtimes /\ MaxTotal \in Nat /\ MaxPerRuntime \in Nat
  BY JobAssumption, LimitAssumption
<1>3. runningTotal' <= MaxTotal
  BY <1>2 DEF ExecuteNow, CanExecute, Describe
<1>4. \A r \in Runtimes : runningByRuntime'[r] <= MaxPerRuntime
  BY <1>2 DEF ExecuteNow, CanExecute, Describe
<1>5. CountersMatchRunning'
  BY <1>1 DEF Describe, CountersMatchRunning, RunningOn, RunningOnIn
<1>6. WithinLimits'
  BY <1>1, <1>3, <1>4 DEF Describe, WithinLimits, RunningOn, RunningOnIn
<1> QED BY <1>1, <1>5, <1>6

LEMMA QueuesHoldJobs ==
  TypeOK => /\ highQueue \in Seq(Jobs) /\ normalQueue \in Seq(Jobs)
            /\ ToSet(highQueue) \subseteq HighPriority
            /\ ToSet(normalQueue) \subseteq NormalPriority
            /\ HighPriority \subseteq Jobs /\ NormalPriority \subseteq Jobs
BY JobAssumption DEF TypeOK, NormalPriority, ToSet

LEMMA InitEstablishes == Init => IInv
<1> SUFFICES ASSUME Init PROVE IInv
  OBVIOUS
<1> USE DEF Init
<1>1. TypeOK
  BY DEF TypeOK
<1>2. IsFiniteSet(running) /\ Cardinality(running) = 0
  BY FS_EmptySet
<1>3. \A r \in Runtimes : RunningOn(r) = {}
  BY DEF RunningOn
<1>4. \A r \in Runtimes : Cardinality(RunningOn(r)) = 0
  BY <1>3, FS_EmptySet
<1>5. CountersMatchRunning
  BY <1>2, <1>4 DEF CountersMatchRunning
<1>6. WithinLimits
  BY <1>2, <1>4, LimitAssumption DEF WithinLimits
<1>7. Queued = {} /\ NoJobTwice /\ NoLostWakeup
  BY DEF Queued, ToSet, NoJobTwice, NoLostWakeup, IsInjective
<1> QED BY <1>1, <1>2, <1>5, <1>6, <1>7 DEF IInv

LEMMA SubmitImmediateKeeps ==
  ASSUME NEW j \in Jobs, IInv, SubmitImmediate(j)
  PROVE  IInv'
<1> USE DEF SubmitImmediate
<1>1. Describe(runningTotal, runningByRuntime, running)
  BY CountersDescribe
<1>2. j \notin running /\ j \notin Queued
  BY DEF Idle
<1>3. /\ Describe(runningTotal', runningByRuntime', running')
      /\ CountersMatchRunning' /\ WithinLimits'
  <2>1. \A r \in Runtimes : runningByRuntime[r] <= MaxPerRuntime
    BY <1>1, LimitsFromCounters DEF IInv
  <2> QED BY <1>1, <1>2, <2>1, ExecuteNowKeeps
<1>4. TypeOK' /\ IsFiniteSet(running)'
  BY <1>3 DEF IInv, TypeOK, Describe
<1>5. NoJobTwice'
  BY <1>2 DEF IInv, NoJobTwice, ExecuteNow, Queued
<1>6. NoLostWakeup'
  <2>1. SUFFICES ASSUME NEW k \in Queued
                 PROVE  ~CanExecute(RuntimeOf[k], runningTotal', runningByRuntime')
    BY DEF NoLostWakeup, Queued
  <2>2. ~CanExecute(RuntimeOf[k], runningTotal, runningByRuntime)
    BY DEF IInv, NoLostWakeup
  <2>3. RuntimeOf[k] \in Runtimes /\ RuntimeOf[j] \in Runtimes
    BY JobAssumption, QueuesHoldJobs DEF IInv, Queued
  <2>4. /\ runningTotal' >= runningTotal
        /\ runningByRuntime'[RuntimeOf[k]] >= runningByRuntime[RuntimeOf[k]]
    BY <2>3 DEF IInv, TypeOK, ExecuteNow
  <2> QED BY <2>2, <2>3, <2>4, <1>3, LimitAssumption
          DEF CanExecute, IInv, TypeOK, Describe
<1> QED BY <1>3, <1>4, <1>5, <1>6 DEF IInv

LEMMA SubmitQueuedKeeps ==
  ASSUME NEW j \in Jobs, IInv, SubmitQueued(j)
  PROVE  IInv'
<1> USE DEF SubmitQueued
<1>1. j \notin running /\ j \notin ToSet(highQueue) /\ j \notin ToSet(normalQueue)
  BY DEF Idle, Queued
<1>2. UNCHANGED <<running, runningTotal, runningByRuntime>>
  OBVIOUS
<1>3. /\ highQueue' \in Seq(HighPriority) /\ normalQueue' \in Seq(NormalPriority)
      /\ IsInjective(highQueue') /\ IsInjective(normalQueue')
      /\ Queued' = Queued \cup {j}
  <2>1. CASE j \in HighPriority
    <3>1. /\ highQueue' = Append(highQueue, j) /\ normalQueue' = normalQueue
      BY <2>1
    <3>2. /\ highQueue' \in Seq(HighPriority) /\ IsInjective(highQueue')
          /\ ToSet(highQueue') = ToSet(highQueue) \cup {j}
      BY <3>1, <2>1, <1>1, AppendSet DEF IInv, TypeOK, NoJobTwice
    <3> QED BY <3>1, <3>2 DEF IInv, TypeOK, NoJobTwice, Queued
  <2>2. CASE j \notin HighPriority
    <3>1. /\ normalQueue' = Append(normalQueue, j) /\ highQueue' = highQueue
      BY <2>2
    <3>2. j \in NormalPriority
      BY <2>2 DEF NormalPriority
    <3>3. /\ normalQueue' \in Seq(NormalPriority) /\ IsInjective(normalQueue')
          /\ ToSet(normalQueue') = ToSet(normalQueue) \cup {j}
      BY <3>1, <3>2, <1>1, AppendSet DEF IInv, TypeOK, NoJobTwice
    <3> QED BY <3>1, <3>3 DEF IInv, TypeOK, NoJobTwice, Queued
  <2> QED BY <2>1, <2>2
<1>4. TypeOK' /\ IsFiniteSet(running)'
  BY <1>2, <1>3 DEF IInv, TypeOK
<1>5. CountersMatchRunning' /\ WithinLimits'
  BY <1>2 DEF IInv, CountersMatchRunning, WithinLimits, RunningOn
<1>6. NoJobTwice'
  BY <1>1, <1>2, <1>3 DEF IInv, NoJobTwice
<1>7. NoLostWakeup'
  BY <1>2, <1>3 DEF IInv, NoLostWakeup
<1> QED BY <1>4, <1>5, <1>6, <1>7 DEF IInv

(* What the release in the finally block leaves behind. *)
TotalAfter(j) == runningTotal - 1
ByRuntimeAfter(j) == [runningByRuntime EXCEPT ![RuntimeOf[j]] = @ - 1]
OthersThan(j) == running \ {j}

LEMMA ReleaseLeaves ==
  ASSUME NEW j \in Jobs, IInv, j \in running
  PROVE  /\ Describe(TotalAfter(j), ByRuntimeAfter(j), OthersThan(j))
         /\ \A r \in Runtimes : ByRuntimeAfter(j)[r] <= MaxPerRuntime
         /\ TotalAfter(j) <= MaxTotal
<1>1. Describe(runningTotal, runningByRuntime, running)
  BY CountersDescribe
<1>2. Describe(TotalAfter(j), ByRuntimeAfter(j), OthersThan(j))
  BY <1>1, ReleaseDescribes DEF TotalAfter, ByRuntimeAfter, OthersThan
<1>3. /\ runningTotal <= MaxTotal
      /\ \A r \in Runtimes : runningByRuntime[r] <= MaxPerRuntime
  BY <1>1, LimitsFromCounters DEF IInv
<1>4. TotalAfter(j) <= MaxTotal
  BY <1>1, <1>3, LimitAssumption DEF TotalAfter, Describe
<1>5. \A r \in Runtimes : ByRuntimeAfter(j)[r] <= MaxPerRuntime
  BY <1>1, <1>3, LimitAssumption DEF ByRuntimeAfter, Describe
<1> QED BY <1>2, <1>4, <1>5

(* One start per release is enough: before the release every waiting job    *)
(* was blocked, by the total or by its own runtime.  If by the total, the   *)
(* started job takes the only free slot; if not, the started job was        *)
(* blocked by its runtime alone, so that is the runtime released, and the   *)
(* counters return to what they were.                                       *)
LEMMA OneStartIsEnough ==
  ASSUME NEW j \in Jobs, IInv, j \in running,
         NEW w \in Queued,
         CanExecute(RuntimeOf[w], TotalAfter(j), ByRuntimeAfter(j)),
         NEW k \in Queued
  PROVE  ~CanExecute(RuntimeOf[k], TotalAfter(j) + 1,
                     [ByRuntimeAfter(j) EXCEPT ![RuntimeOf[w]] = @ + 1])
<1> USE DEF CanExecute
<1>1. /\ runningTotal \in Nat /\ runningByRuntime \in [Runtimes -> Nat]
      /\ MaxTotal \in Nat /\ MaxPerRuntime \in Nat
  BY LimitAssumption DEF IInv, TypeOK
<1>2. /\ RuntimeOf[j] \in Runtimes /\ RuntimeOf[w] \in Runtimes
      /\ RuntimeOf[k] \in Runtimes
  BY JobAssumption, QueuesHoldJobs DEF IInv, Queued
<1>3. /\ ~CanExecute(RuntimeOf[w], runningTotal, runningByRuntime)
      /\ ~CanExecute(RuntimeOf[k], runningTotal, runningByRuntime)
  BY DEF IInv, NoLostWakeup
<1>4. TotalAfter(j) + 1 = runningTotal
  BY <1>1 DEF TotalAfter
<1>5. CASE runningTotal >= MaxTotal
  BY <1>1, <1>4, <1>5
<1>6. CASE ~(runningTotal >= MaxTotal)
  <2>1. runningByRuntime[RuntimeOf[w]] >= MaxPerRuntime
    BY <1>1, <1>2, <1>3, <1>6
  <2>2. RuntimeOf[w] = RuntimeOf[j]
    BY <1>1, <1>2, <2>1 DEF ByRuntimeAfter
  <2>3. [ByRuntimeAfter(j) EXCEPT ![RuntimeOf[w]] = @ + 1] = runningByRuntime
    <3> DEFINE f == [ByRuntimeAfter(j) EXCEPT ![RuntimeOf[w]] = @ + 1]
    <3>1. DOMAIN f = Runtimes /\ DOMAIN runningByRuntime = Runtimes
      BY <1>1 DEF ByRuntimeAfter
    <3>2. ASSUME NEW r \in Runtimes PROVE f[r] = runningByRuntime[r]
      <4>1. CASE r = RuntimeOf[j]
        BY <1>1, <1>2, <2>2, <4>1 DEF ByRuntimeAfter
      <4>2. CASE r # RuntimeOf[j]
        BY <1>1, <1>2, <2>2, <4>2 DEF ByRuntimeAfter
      <4> QED BY <4>1, <4>2
    <3>3. f = [r \in Runtimes |-> f[r]] /\ runningByRuntime = [r \in Runtimes |-> runningByRuntime[r]]
      BY <1>1, <3>1 DEF ByRuntimeAfter
    <3> HIDE DEF f
    <3>4. f = runningByRuntime
      BY <3>2, <3>3
    <3> QED BY <3>4 DEF f
  <2> QED BY <1>3, <1>4, <2>3
<1> QED BY <1>1, <1>5, <1>6

LEMMA StartQueuedKeeps ==
  ASSUME NEW j \in Jobs, IInv, j \in running,
         NEW w \in Queued,
         CanExecute(RuntimeOf[w], TotalAfter(j), ByRuntimeAfter(j)),
         ExecuteNow(w, TotalAfter(j), ByRuntimeAfter(j), OthersThan(j)),
         highQueue' \in Seq(HighPriority), IsInjective(highQueue'),
         normalQueue' \in Seq(NormalPriority), IsInjective(normalQueue'),
         Queued' = Queued \ {w}
  PROVE  IInv'
<1>1. w \in Jobs /\ w \notin running
  BY QueuesHoldJobs DEF IInv, NoJobTwice, Queued
<1>2. /\ Describe(runningTotal', runningByRuntime', running')
      /\ CountersMatchRunning' /\ WithinLimits'
  <2>1. w \notin OthersThan(j)
    BY <1>1 DEF OthersThan
  <2> QED BY <1>1, <2>1, ReleaseLeaves, ExecuteNowKeeps
<1>3. TypeOK' /\ IsFiniteSet(running)'
  BY <1>2 DEF TypeOK, Describe
<1>4. NoJobTwice'
  BY DEF IInv, NoJobTwice, ExecuteNow, OthersThan
<1>5. NoLostWakeup'
  <2>1. \A k \in Queued : ~CanExecute(RuntimeOf[k], runningTotal', runningByRuntime')
    BY OneStartIsEnough DEF ExecuteNow
  <2> QED BY <2>1 DEF NoLostWakeup
<1> QED BY <1>2, <1>3, <1>4, <1>5 DEF IInv

LEMMA FinishKeeps ==
  ASSUME NEW j \in Jobs, IInv, Finish(j)
  PROVE  IInv'
<1> DEFINE next == NextJob(TotalAfter(j), ByRuntimeAfter(j))
<1>1. j \in running
  BY DEF Finish
<1>2. /\ highQueue \in Seq(HighPriority) /\ IsInjective(highQueue)
      /\ normalQueue \in Seq(NormalPriority) /\ IsInjective(normalQueue)
      /\ ToSet(highQueue) \cap ToSet(normalQueue) = {}
  BY QueuesHoldJobs DEF IInv, TypeOK, NoJobTwice, NormalPriority
<1>3. ASSUME NEW i \in 1..Len(highQueue), <<"high", i>> \in next,
             highQueue' = Splice(highQueue, i), UNCHANGED normalQueue,
             ExecuteNow(highQueue[i], TotalAfter(j), ByRuntimeAfter(j), OthersThan(j))
      PROVE  IInv'
  <2>1. /\ highQueue' \in Seq(HighPriority) /\ IsInjective(highQueue')
        /\ ToSet(highQueue') = ToSet(highQueue) \ {highQueue[i]}
    BY <1>2, <1>3, SpliceSet
  <2>2. highQueue[i] \in ToSet(highQueue)
    BY DEF ToSet
  <2>3. Queued' = Queued \ {highQueue[i]} /\ highQueue[i] \in Queued
    BY <1>2, <1>3, <2>1, <2>2 DEF Queued
  <2>4. CanExecute(RuntimeOf[highQueue[i]], TotalAfter(j), ByRuntimeAfter(j))
    BY <1>3 DEF NextJob, FirstExecutable
  <2>5. normalQueue' \in Seq(NormalPriority) /\ IsInjective(normalQueue')
    BY <1>2, <1>3
  <2> QED BY <1>1, <1>3, <2>1, <2>3, <2>4, <2>5, StartQueuedKeeps
<1>4. ASSUME NEW i \in 1..Len(normalQueue), <<"normal", i>> \in next,
             normalQueue' = Splice(normalQueue, i), UNCHANGED highQueue,
             ExecuteNow(normalQueue[i], TotalAfter(j), ByRuntimeAfter(j), OthersThan(j))
      PROVE  IInv'
  <2>1. /\ normalQueue' \in Seq(NormalPriority) /\ IsInjective(normalQueue')
        /\ ToSet(normalQueue') = ToSet(normalQueue) \ {normalQueue[i]}
    BY <1>2, <1>4, SpliceSet
  <2>2. normalQueue[i] \in ToSet(normalQueue)
    BY DEF ToSet
  <2>3. Queued' = Queued \ {normalQueue[i]} /\ normalQueue[i] \in Queued
    BY <1>2, <1>4, <2>1, <2>2 DEF Queued
  <2>4. CanExecute(RuntimeOf[normalQueue[i]], TotalAfter(j), ByRuntimeAfter(j))
    BY <1>4 DEF NextJob, FirstExecutable
  <2>5. highQueue' \in Seq(HighPriority) /\ IsInjective(highQueue')
    BY <1>2, <1>4
  <2> QED BY <1>1, <1>4, <2>1, <2>3, <2>4, <2>5, StartQueuedKeeps
<1>5. ASSUME next = {},
             running' = OthersThan(j), runningTotal' = TotalAfter(j),
             runningByRuntime' = ByRuntimeAfter(j),
             UNCHANGED <<highQueue, normalQueue>>
      PROVE  IInv'
  <2>1. Describe(runningTotal', runningByRuntime', running')
    BY <1>1, <1>5, ReleaseLeaves
  <2>2. CountersMatchRunning' /\ WithinLimits'
    BY <1>1, <1>5, <2>1, ReleaseLeaves
       DEF Describe, CountersMatchRunning, WithinLimits, RunningOn, RunningOnIn
  <2>3. TypeOK' /\ IsFiniteSet(running)'
    BY <1>2, <1>5, <2>1 DEF TypeOK, Describe
  <2>4. Queued' = Queued
    BY <1>5 DEF Queued
  <2>5. NoJobTwice'
    BY <1>5, <2>4 DEF IInv, NoJobTwice, OthersThan
  <2>6. /\ FirstExecutable(highQueue, TotalAfter(j), ByRuntimeAfter(j)) = {}
        /\ FirstExecutable(normalQueue, TotalAfter(j), ByRuntimeAfter(j)) = {}
    <3>1. ASSUME NEW c, NEW A, {c} \X A = {} PROVE A = {}
      <4>1. \A a \in A : <<c, a>> \in {c} \X A
        OBVIOUS
      <4> QED BY <4>1, <3>1
    <3>2. /\ {"high"} \X FirstExecutable(highQueue, TotalAfter(j), ByRuntimeAfter(j)) = {}
          /\ {"normal"} \X FirstExecutable(normalQueue, TotalAfter(j), ByRuntimeAfter(j)) = {}
      BY <1>5, Zenon DEF NextJob
    <3> QED BY <3>1, <3>2
  <2>7. NoLostWakeup'
    BY <1>5, <2>4, <2>6, QueuesHoldJobs, FirstExecutableExists
       DEF IInv, NoLostWakeup, Queued
  <2> QED BY <2>2, <2>3, <2>5, <2>7 DEF IInv
<1> QED
  BY <1>3, <1>4, <1>5
     DEF Finish, ProcessNextJob, TotalAfter, ByRuntimeAfter, OthersThan

-----------------------------------------------------------------------------
(* The theorems. *)

LEMMA NextKeeps == IInv /\ [Next]_vars => IInv'
<1> SUFFICES ASSUME IInv, [Next]_vars PROVE IInv'
  OBVIOUS
<1>1. ASSUME NEW j \in Jobs, SubmitImmediate(j) PROVE IInv'
  BY <1>1, SubmitImmediateKeeps
<1>2. ASSUME NEW j \in Jobs, SubmitQueued(j) PROVE IInv'
  BY <1>2, SubmitQueuedKeeps
<1>3. ASSUME NEW j \in Jobs, Finish(j) PROVE IInv'
  BY <1>3, FinishKeeps
<1>4. CASE UNCHANGED vars
  BY <1>4 DEF vars, IInv, TypeOK, CountersMatchRunning, WithinLimits, RunningOn,
              NoJobTwice, NoLostWakeup, Queued, CanExecute
<1> QED BY <1>1, <1>2, <1>3, <1>4 DEF Next

(* The inductive invariant of the service: types, accounting and the fact   *)
(* that whatever waits could not run.                                       *)
THEOREM InductiveInvariant == Spec => []IInv
BY InitEstablishes, NextKeeps, PTL DEF Spec

(* The private state of the service keeps its types. *)
THEOREM TypeCorrect == Spec => []TypeOK
<1>1. IInv => TypeOK
  BY DEF IInv
<1> QED BY <1>1, InductiveInvariant, PTL

(* The counters always count the jobs in flight: no slot is leaked and none *)
(* is released twice.                                                       *)
THEOREM SlotAccounting == Spec => []CountersMatchRunning
<1>1. IInv => CountersMatchRunning
  BY DEF IInv
<1> QED BY <1>1, InductiveInvariant, PTL

(* The limits on concurrent jobs hold for every number of callers. *)
THEOREM LimitsHold == Spec => []WithinLimits
<1>1. IInv => WithinLimits
  BY DEF IInv
<1> QED BY <1>1, InductiveInvariant, PTL

(* No job is queued twice, or queued while it runs. *)
THEOREM NoJobIsDuplicated == Spec => []NoJobTwice
<1>1. IInv => NoJobTwice
  BY DEF IInv
<1> QED BY <1>1, InductiveInvariant, PTL

(* Starting one job per released slot never leaves an executable job to     *)
(* wait.                                                                    *)
THEOREM NoWakeupIsLost == Spec => []NoLostWakeup
<1>1. IInv => NoLostWakeup
  BY DEF IInv
<1> QED BY <1>1, InductiveInvariant, PTL

-----------------------------------------------------------------------------
(* Jobs start in turn. *)

(* No job of j's runtime waits that ought to start before j. *)
ItsTurn(j) ==
    \A i \in Queued \ {j} : RuntimeOf[i] = RuntimeOf[j] => ~Before(i, j)

(* The first executable job of a queue is behind no job of its runtime: two *)
(* jobs of one runtime are executable together.                             *)
LEMMA FirstExecutableIsFirst ==
  ASSUME IInv, NEW q \in {highQueue, normalQueue}, NEW total, NEW byRuntime,
         NEW n \in FirstExecutable(q, total, byRuntime),
         NEW i \in Jobs, RuntimeOf[i] = RuntimeOf[q[n]]
  PROVE  ~ \E p \in {highQueue, normalQueue} :
              \E k, l \in 1..Len(p) : k < l /\ p[k] = i /\ p[l] = q[n]
<1>1. SUFFICES ASSUME NEW p \in {highQueue, normalQueue},
                      NEW k \in 1..Len(p), NEW l \in 1..Len(p),
                      k < l, p[k] = i, p[l] = q[n]
               PROVE  FALSE
  OBVIOUS
<1>2. n \in 1..Len(q)
  BY DEF FirstExecutable
<1>3. p = q
  BY <1>1, <1>2, QueuesHoldJobs DEF IInv, NormalPriority, ToSet
<1>4. l = n
  BY <1>1, <1>2, <1>3 DEF IInv, NoJobTwice, IsInjective
<1>5. n \in Nat /\ k \in 1..(n - 1)
  BY <1>1, <1>2, <1>4
<1>6. ~CanExecute(RuntimeOf[q[k]], total, byRuntime)
  BY <1>5 DEF FirstExecutable
<1>7. CanExecute(RuntimeOf[q[n]], total, byRuntime)
  BY DEF FirstExecutable
<1> QED BY <1>1, <1>3, <1>6, <1>7

(* The job that processNextJob takes out of a queue has its turn: it is the *)
(* first executable one there, and a normal job is only taken when no high  *)
(* priority job is executable.                                              *)
LEMMA TakenInTurn ==
  ASSUME IInv, NEW q \in {highQueue, normalQueue}, NEW total, NEW byRuntime,
         NEW n \in FirstExecutable(q, total, byRuntime),
         q = normalQueue => FirstExecutable(highQueue, total, byRuntime) = {}
  PROVE  ItsTurn(q[n])
<1>1. SUFFICES ASSUME NEW i \in Queued \ {q[n]}, RuntimeOf[i] = RuntimeOf[q[n]],
                      Before(i, q[n])
               PROVE  FALSE
  BY DEF ItsTurn
<1>2. n \in 1..Len(q) /\ CanExecute(RuntimeOf[q[n]], total, byRuntime)
  BY DEF FirstExecutable
<1>3. q[n] \in ToSet(q)
  BY <1>2 DEF ToSet
<1>4. i \in Jobs /\ q[n] \notin Idle
  BY <1>3, QueuesHoldJobs DEF IInv, Queued, Idle
<1>5. i \in HighPriority /\ q[n] \in NormalPriority
  BY <1>1, <1>4, FirstExecutableIsFirst DEF Before
<1>6. q = normalQueue
  BY <1>3, <1>5, QueuesHoldJobs DEF IInv, NormalPriority
<1>7. i \in ToSet(highQueue)
  BY <1>5, QueuesHoldJobs DEF IInv, NormalPriority, Queued
<1>8. ~CanExecute(RuntimeOf[i], total, byRuntime)
  BY <1>6, <1>7, QueuesHoldJobs, FirstExecutableExists DEF IInv
<1> QED BY <1>1, <1>2, <1>8

LEMMA NextJobInTurn ==
  ASSUME IInv, NEW total, NEW byRuntime
  PROVE  /\ \A n \in 1..Len(highQueue) :
               <<"high", n>> \in NextJob(total, byRuntime) => ItsTurn(highQueue[n])
         /\ \A n \in 1..Len(normalQueue) :
               <<"normal", n>> \in NextJob(total, byRuntime) => ItsTurn(normalQueue[n])
<1> DEFINE first(q) == FirstExecutable(q, total, byRuntime)
<1>1. ASSUME NEW n, <<"high", n>> \in NextJob(total, byRuntime)
      PROVE  n \in first(highQueue)
  BY <1>1 DEF NextJob
<1>2. ASSUME NEW n, <<"normal", n>> \in NextJob(total, byRuntime)
      PROVE  n \in first(normalQueue) /\ first(highQueue) = {}
  <2>1. n \in first(normalQueue) /\ {"high"} \X first(highQueue) = {}
    BY <1>2 DEF NextJob
  <2>2. \A m \in first(highQueue) : <<"high", m>> \in {"high"} \X first(highQueue)
    BY Zenon
  <2> QED BY <2>1, <2>2
<1>3. highQueue = normalQueue => first(highQueue) = {}
  <2>1. highQueue = normalQueue => \A n \in 1..Len(highQueue) : FALSE
    BY QueuesHoldJobs DEF IInv, NormalPriority, ToSet
  <2> QED BY <2>1 DEF FirstExecutable
<1> HIDE DEF first
<1>4. ASSUME NEW n, <<"high", n>> \in NextJob(total, byRuntime)
      PROVE  ItsTurn(highQueue[n])
  BY <1>1, <1>3, <1>4, TakenInTurn DEF first
<1>5. ASSUME NEW n, <<"normal", n>> \in NextJob(total, byRuntime)
      PROVE  ItsTurn(normalQueue[n])
  BY <1>2, <1>5, TakenInTurn DEF first
<1> QED BY <1>4, <1>5

LEMMA StartsHaveTheirTurn ==
  ASSUME IInv, [Next]_vars, NEW j \in Jobs, Starts(j)
  PROVE  ItsTurn(j)
<1>1. ASSUME NEW k \in Jobs, SubmitImmediate(k) PROVE ItsTurn(j)
  <2>1. j = k /\ CanExecute(RuntimeOf[j], runningTotal, runningByRuntime)
    BY <1>1 DEF SubmitImmediate, ExecuteNow, Starts
  <2>2. \A i \in Queued : RuntimeOf[i] # RuntimeOf[j]
    BY <2>1 DEF IInv, NoLostWakeup
  <2> QED BY <2>2 DEF ItsTurn
<1>2. ASSUME NEW k \in Jobs, SubmitQueued(k) PROVE ItsTurn(j)
  BY <1>2 DEF SubmitQueued, Starts
<1>3. ASSUME NEW k \in Jobs, Finish(k) PROVE ItsTurn(j)
  <2> DEFINE next == NextJob(TotalAfter(k), ByRuntimeAfter(k))
  <2>1. \/ \E n \in 1..Len(highQueue) : <<"high", n>> \in next /\ j = highQueue[n]
        \/ \E n \in 1..Len(normalQueue) : <<"normal", n>> \in next /\ j = normalQueue[n]
    BY <1>3
       DEF Finish, ProcessNextJob, ExecuteNow, Starts, TotalAfter, ByRuntimeAfter
  <2> QED BY <2>1, NextJobInTurn
<1>4. CASE UNCHANGED vars
  BY <1>4 DEF vars, Starts
<1> QED BY <1>1, <1>2, <1>3, <1>4 DEF Next

(* No job is overtaken on its own runtime: whenever a job starts, at once   *)
(* or out of a queue, none of its runtime waits with a higher priority or,  *)
(* with the same priority, from earlier on.  A job that starts at once      *)
(* passes nobody because no waiting job was executable.                     *)
THEOREM JobsStartInTurn == Spec => StartsInTurn
<1> DEFINE InTurn == \A j \in Jobs : Starts(j) => ItsTurn(j)
<1>1. IInv /\ [Next]_vars => InTurn
  BY StartsHaveTheirTurn
<1>2. InTurn <=> \A j \in Jobs : Starts(j) =>
                    \A i \in Queued \ {j} :
                       RuntimeOf[i] = RuntimeOf[j] => ~Before(i, j)
  BY DEF ItsTurn
<1>3. [][InTurn]_vars <=> StartsInTurn
  BY <1>2, PTL DEF StartsInTurn
<1> HIDE DEF InTurn
<1> QED BY <1>1, <1>3, InductiveInvariant, PTL DEF Spec

-----------------------------------------------------------------------------
(* The refinement of ExecutionPool. *)

LEMMA CardinalityInThePool == \A S : Pool!Cardinality(S) = Cardinality(S)
BY DEF Cardinality, Pool!Cardinality

LEMMA SlotsSeenFromThePool ==
  ASSUME CountersMatchRunning, NEW r \in Runtimes
  PROVE  Pool!HasSlot(r, running) <=> CanExecute(r, runningTotal, runningByRuntime)
BY CardinalityInThePool
   DEF CountersMatchRunning, RunningOn, CanExecute, Pool!HasSlot

LEMMA SubmitQueuedSets ==
  ASSUME NEW j \in Jobs, IInv, SubmitQueued(j)
  PROVE  Queued' = Queued \cup {j} /\ running' = running
<1> USE DEF SubmitQueued
<1>1. j \notin ToSet(highQueue) /\ j \notin ToSet(normalQueue)
  BY DEF Idle, Queued
<1>2. CASE j \in HighPriority
  <2>1. ToSet(Append(highQueue, j)) = ToSet(highQueue) \cup {j}
    BY <1>1, <1>2, AppendSet DEF IInv, TypeOK, NoJobTwice
  <2> QED BY <1>2, <2>1 DEF Queued
<1>3. CASE j \notin HighPriority
  <2>1. j \in NormalPriority
    BY <1>3 DEF NormalPriority
  <2>2. ToSet(Append(normalQueue, j)) = ToSet(normalQueue) \cup {j}
    BY <1>1, <2>1, AppendSet DEF IInv, TypeOK, NoJobTwice
  <2> QED BY <1>3, <2>2 DEF Queued
<1> QED BY <1>2, <1>3

LEMMA FinishSets ==
  ASSUME NEW j \in Jobs, IInv, Finish(j)
  PROVE  \E next \in {{}} \cup {{w} : w \in Queued} :
            /\ running' = (running \ {j}) \cup next
            /\ Queued' = Queued \ next
<1>1. /\ highQueue \in Seq(HighPriority) /\ IsInjective(highQueue)
      /\ normalQueue \in Seq(NormalPriority) /\ IsInjective(normalQueue)
      /\ ToSet(highQueue) \cap ToSet(normalQueue) = {}
  BY QueuesHoldJobs DEF IInv, TypeOK, NoJobTwice, NormalPriority
<1>2. ASSUME NEW i \in 1..Len(highQueue),
             highQueue' = Splice(highQueue, i), UNCHANGED normalQueue,
             running' = (running \ {j}) \cup {highQueue[i]}
      PROVE  /\ highQueue[i] \in Queued
             /\ Queued' = Queued \ {highQueue[i]}
  <2>1. ToSet(highQueue') = ToSet(highQueue) \ {highQueue[i]}
    BY <1>1, <1>2, SpliceSet
  <2>2. highQueue[i] \in ToSet(highQueue)
    BY DEF ToSet
  <2> QED BY <1>1, <1>2, <2>1, <2>2 DEF Queued
<1>3. ASSUME NEW i \in 1..Len(normalQueue),
             normalQueue' = Splice(normalQueue, i), UNCHANGED highQueue,
             running' = (running \ {j}) \cup {normalQueue[i]}
      PROVE  /\ normalQueue[i] \in Queued
             /\ Queued' = Queued \ {normalQueue[i]}
  <2>1. ToSet(normalQueue') = ToSet(normalQueue) \ {normalQueue[i]}
    BY <1>1, <1>3, SpliceSet
  <2>2. normalQueue[i] \in ToSet(normalQueue)
    BY DEF ToSet
  <2> QED BY <1>1, <1>3, <2>1, <2>2 DEF Queued
<1>4. \/ \E i \in 1..Len(highQueue) :
           /\ highQueue' = Splice(highQueue, i) /\ UNCHANGED normalQueue
           /\ running' = (running \ {j}) \cup {highQueue[i]}
      \/ \E i \in 1..Len(normalQueue) :
           /\ normalQueue' = Splice(normalQueue, i) /\ UNCHANGED highQueue
           /\ running' = (running \ {j}) \cup {normalQueue[i]}
      \/ running' = running \ {j} /\ UNCHANGED <<highQueue, normalQueue>>
  BY DEF Finish, ProcessNextJob, ExecuteNow
<1>5. CASE running' = running \ {j} /\ UNCHANGED <<highQueue, normalQueue>>
  <2>1. running' = (running \ {j}) \cup {} /\ Queued' = Queued \ {}
    BY <1>5 DEF Queued
  <2> QED BY <2>1
<1> QED BY <1>2, <1>3, <1>4, <1>5

LEMMA StepsOfThePool == IInv /\ IInv' /\ [Next]_vars => [Pool!Next]_(Pool!poolVars)
<1> SUFFICES ASSUME IInv, IInv', [Next]_vars
             PROVE  [Pool!Next]_(Pool!poolVars)
  OBVIOUS
<1> USE DEF Pool!Next, Pool!poolVars
<1>1. ASSUME NEW j \in Jobs, SubmitImmediate(j)
      PROVE  Pool!Arrive(j)
  <2>1. Pool!HasSlot(RuntimeOf[j], running)
    BY <1>1, JobAssumption, SlotsSeenFromThePool DEF IInv, SubmitImmediate
  <2> QED BY <1>1, <2>1 DEF SubmitImmediate, ExecuteNow, Idle, Queued, Pool!Arrive
<1>2. ASSUME NEW j \in Jobs, SubmitQueued(j)
      PROVE  Pool!Arrive(j)
  <2>1. ~Pool!HasSlot(RuntimeOf[j], running)
    BY <1>2, JobAssumption, SlotsSeenFromThePool DEF IInv, SubmitQueued
  <2> QED BY <1>2, <2>1, SubmitQueuedSets DEF SubmitQueued, Idle, Pool!Arrive
<1>3. ASSUME NEW j \in Jobs, Finish(j)
      PROVE  Pool!End(j)
  <2>1. Pool!KeepsLimits(running')
    BY CardinalityInThePool DEF IInv, WithinLimits, RunningOn, Pool!KeepsLimits
  <2>2. Pool!WastesNoSlot(Queued', running')
    <3>1. ASSUME NEW k \in Queued' PROVE RuntimeOf[k] \in Runtimes
      BY JobAssumption DEF IInv, TypeOK, Queued, ToSet, NormalPriority
    <3>2. ASSUME NEW k \in Queued'
          PROVE  ~CanExecute(RuntimeOf[k], runningTotal', runningByRuntime')
      BY DEF IInv, NoLostWakeup
    <3>3. ASSUME NEW r \in Runtimes
          PROVE  Pool!HasSlot(r, running')
                   <=> CanExecute(r, runningTotal', runningByRuntime')
      BY CardinalityInThePool
         DEF IInv, CountersMatchRunning, RunningOn, CanExecute, Pool!HasSlot
    <3> QED BY <3>1, <3>2, <3>3 DEF Pool!WastesNoSlot
  <2>3. j \in running
    BY <1>3 DEF Finish
  <2> QED BY <1>3, <2>1, <2>2, <2>3, FinishSets DEF Pool!End
<1>4. CASE UNCHANGED vars
  BY <1>4 DEF vars, Queued
<1> QED BY <1>1, <1>2, <1>3, <1>4 DEF Next

(* The service with its queues and counters implements the abstract pool.   *)
THEOREM ServiceImplementsPool == Spec => ImplementsPool
<1>1. Init => Pool!Init
  BY DEF Init, Queued, ToSet, Pool!Init
<1> QED
  BY <1>1, StepsOfThePool, InductiveInvariant, PTL DEF Spec, ImplementsPool, Pool!Spec

=============================================================================

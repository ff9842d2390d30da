------------------------- MODULE TestSession_proofs -------------------------
(***************************************************************************)
(* Proofs about TestSession and SectionTimes, for any number of concurrent *)
(* requests, any set of handlers and questions, and any bounds.            *)
(*                                                                         *)
(* SectionTimes has all steps of TestSession and three more.  The lemmas   *)
(* about the steps they share therefore speak of SessionStep, and assume   *)
(* of the types only what both modules have: Typed.                        *)
(***************************************************************************)
EXTENDS SectionTimes, Integers, TLAPS

Ops == ClientHandlers \cup Background \cup {"none", "submitSection"}

Places == Steps \cup {"section", "next"}

CallRecord ==
    [op : Ops, pc : Places, sees : BOOLEAN, rem : 0..TimeLimit, fresh : BOOLEAN,
     about : SUBSET Questions]

CallsType == [Calls -> CallRecord]

(* The types of both modules: a call may be one of submitSection. *)
Typed ==
    /\ status \in {"inProgress", "completed", "expired", "abandoned"}
    /\ connected \in BOOLEAN
    /\ answers \in SUBSET Questions
    /\ results \in Seq(SUBSET Questions)
    /\ timer \in SUBSET (0..TimeLimit)
    /\ elapsed \in 0..TimeLimit
    /\ calls \in CallsType
    /\ crashes \in 0..MaxCrashes
    /\ faults \in 0..MaxFaults

NoSectionCalls ==
    \A d \in Calls : calls[d].op # "submitSection" /\ calls[d].pc \in Steps

LEMMA TypeParts == TypeOK <=> Typed /\ NoSectionCalls
<1>1. TypeOK => Typed /\ NoSectionCalls
  BY DEF TypeOK, Typed, CallsType, CallRecord, Ops, Places, NoSectionCalls,
         ClientHandlers, Background
<1>2. ASSUME Typed, NoSectionCalls
      PROVE  TypeOK
  <2> DEFINE Narrow == [op : ClientHandlers \cup Background \cup {"none"},
                        pc : Steps, sees : BOOLEAN, rem : 0..TimeLimit,
                        fresh : BOOLEAN, about : SUBSET Questions]
  <2>1. ASSUME NEW d \in Calls PROVE calls[d] \in Narrow
    <3>1. /\ calls[d] \in CallRecord
          /\ calls[d].op # "submitSection" /\ calls[d].pc \in Steps
      BY <1>2 DEF Typed, CallsType, NoSectionCalls
    <3>2. calls[d].op \in ClientHandlers \cup Background \cup {"none"}
      BY <3>1 DEF CallRecord, Ops
    <3> QED BY <3>1, <3>2 DEF CallRecord
  <2> HIDE DEF Narrow
  <2>2. calls \in [Calls -> Narrow]
    BY <1>2, <2>1 DEF Typed, CallsType
  <2> QED BY <1>2, <2>2 DEF TypeOK, Typed, Narrow
<1> QED BY <1>1, <1>2

-----------------------------------------------------------------------------
(* Facts about the operators. *)

LEMMA NewCall ==
  ASSUME NEW op \in Ops, NEW pc \in Places
  PROVE  Call(op, pc) \in CallRecord
BY SessionAssumption DEF Call, CallRecord

LEMMA NoCallType == NoCall \in CallRecord
BY NewCall DEF NoCall, Ops, Places, Steps

LEMMA NoCallIsIdle ==
  NoCall.pc = "idle" /\ NoCall.op = "none" /\ NoCall.pc \in Steps
BY DEF NoCall, Call, Steps

LEMMA ViewCall ==
  /\ Call("view", "check") \in CallRecord
  /\ Call("view", "check").pc = "check"
  /\ Call("view", "check").op = "view"
BY NewCall DEF Ops, ClientHandlers, Places, Steps, Call

(* Invalidate changes only fresh, and leaves no open transaction fresh. *)
LEMMA InvalidateFacts ==
  ASSUME NEW cs \in CallsType, NEW b \in BOOLEAN
  PROVE  /\ Invalidate(cs, b) \in CallsType
         /\ \A d \in Calls :
               /\ Invalidate(cs, b)[d].op = cs[d].op
               /\ Invalidate(cs, b)[d].pc = cs[d].pc
               /\ Invalidate(cs, b)[d].sees = cs[d].sees
               /\ Invalidate(cs, b)[d].rem = cs[d].rem
               /\ Invalidate(cs, b)[d].about = cs[d].about
               /\ cs[d].pc = "txn" => ~Invalidate(cs, b)[d].fresh
BY DEF Invalidate, CallsType, CallRecord

(* Only call c moves. *)
Moves(c) ==
    /\ calls' \in CallsType
    /\ \A d \in Calls \ {c} : calls'[d] = calls[d]

LEMMA ReplaceMoves ==
  ASSUME calls \in CallsType, NEW c \in Calls, NEW r \in CallRecord,
         calls' = [calls EXCEPT ![c] = r]
  PROVE  Moves(c) /\ calls'[c] = r
BY DEF Moves, CallsType

LEMMA GotoMoves ==
  ASSUME calls \in CallsType, NEW c \in Calls, NEW pc \in Steps,
         calls' = Goto(c, pc)
  PROVE  /\ Moves(c)
         /\ calls'[c].pc = pc
         /\ calls'[c].op = calls[c].op
         /\ calls'[c].rem = calls[c].rem
         /\ calls'[c].about = calls[c].about
         /\ calls'[c].fresh = calls[c].fresh
BY DEF Moves, Goto, CallsType, CallRecord, Places

LEMMA ReturnMoves ==
  ASSUME calls \in CallsType, NEW c \in Calls, calls' = Return(c)
  PROVE  Moves(c) /\ calls'[c] = NoCall
BY NoCallType DEF Moves, Return, CallsType

(* A time rounded down to whole seconds loses less than one. *)
LEMMA FloorFacts ==
  ASSUME NEW t \in Nat
  PROVE  Floor(t) \in 0..t /\ t < Floor(t) + Second
<1>1. t % Second \in 0..Second - 1 /\ Second \in Nat
  BY SessionAssumption
<1>2. t % Second <= t
  BY SessionAssumption
<1> QED BY <1>1, <1>2 DEF Floor

(* The earliest time at which, rounded, nothing is left of the limit.       *)
Earliest == IF UseSections THEN TimeLimit ELSE TimeLimit - (Second - 1)

LEMMA EarliestFacts ==
  Earliest \in Int /\ Earliest + Second > TimeLimit /\ Earliest <= TimeLimit
BY SessionAssumption DEF Earliest

LEMMA LeftFacts ==
  ASSUME Typed
  PROVE  /\ Left \in 0..TimeLimit
         /\ Left + elapsed >= Earliest
         /\ Left + elapsed < Earliest + Second
<1>1. /\ elapsed \in 0..TimeLimit /\ elapsed \in Nat /\ TimeLimit - elapsed \in Nat
      /\ TimeLimit \in Nat /\ Second \in Nat
  BY SessionAssumption DEF Typed
<1>2. CASE UseSections
  <2>1. Floor(elapsed) \in 0..elapsed /\ elapsed < Floor(elapsed) + Second
    BY <1>1, FloorFacts
  <2> QED BY <1>1, <1>2, <2>1 DEF Left, Earliest
<1>3. CASE ~UseSections
  <2>1. /\ Floor(TimeLimit - elapsed) \in 0..TimeLimit - elapsed
        /\ TimeLimit - elapsed < Floor(TimeLimit - elapsed) + Second
    BY <1>1, FloorFacts
  <2> QED BY <1>1, <1>3, <2>1 DEF Left, Earliest
<1> QED BY <1>2, <1>3

LEMMA RemainingType ==
  ASSUME Typed
  PROVE  Remaining \in 0..TimeLimit /\ Remaining + elapsed >= Earliest
<1>1. elapsed \in 0..TimeLimit /\ TimeLimit \in Nat
  BY SessionAssumption DEF Typed
<1> QED BY <1>1, LeftFacts, EarliestFacts DEF Remaining

-----------------------------------------------------------------------------
(* What a step does to the calls. *)

(* Only call c moves; the others may at most lose their freshness. *)
OnlyMoves(c) ==
    /\ calls' \in CallsType
    /\ \A d \in Calls \ {c} :
          /\ calls'[d].op = calls[d].op
          /\ calls'[d].pc = calls[d].pc
          /\ calls'[d].rem = calls[d].rem
          /\ calls'[d].about = calls[d].about
          /\ calls'[d].fresh => calls[d].fresh

(* It ends, or goes on with what it does or with getCurrentQuestion.       *)
Continues(c) ==
    /\ calls'[c].pc \in Steps
    /\ calls'[c].op \in {calls[c].op, "none", "view"}

(* No open transaction can commit. *)
NoneCurrent == \A d \in Calls : calls[d].pc = "txn" => ~calls[d].fresh

(* A step that writes the document moves one call and leaves no open        *)
(* transaction current.                                                     *)
LEMMA WriteMoves ==
  ASSUME calls \in CallsType, NEW c \in Calls, NEW cs \in CallsType, NEW b \in BOOLEAN,
         \A d \in Calls \ {c} : cs[d] = calls[d],
         calls' = Invalidate(cs, b), cs[c].pc # "txn"
  PROVE  /\ OnlyMoves(c)
         /\ calls'[c].op = cs[c].op
         /\ calls'[c].pc = cs[c].pc
         /\ calls'[c].rem = cs[c].rem
         /\ NoneCurrent'
<1>1. /\ calls' \in CallsType
      /\ \A d \in Calls :
            /\ calls'[d].op = cs[d].op
            /\ calls'[d].pc = cs[d].pc
            /\ calls'[d].rem = cs[d].rem
            /\ calls'[d].about = cs[d].about
            /\ cs[d].pc = "txn" => ~calls'[d].fresh
  BY InvalidateFacts
<1>2. \A d \in Calls \ {c} : calls'[d].fresh => calls[d].fresh
  BY DEF Invalidate, CallsType, CallRecord
<1> QED BY <1>1, <1>2 DEF OnlyMoves, NoneCurrent

LEMMA MovesOnly ==
  ASSUME NEW c \in Calls, Moves(c)
  PROVE  OnlyMoves(c)
BY DEF OnlyMoves, Moves

-----------------------------------------------------------------------------
(* The effects of the steps. *)

(* The reads: one call moves, nothing else changes. *)
LEMMA ReadEffect ==
  ASSUME Typed, NEW c \in Calls, ReadStep(c) \/ OpenTransaction(c)
  PROVE  /\ Moves(c) /\ Continues(c)
         /\ UNCHANGED <<document, results, timer, elapsed, crashes, faults>>
<1>1. /\ calls \in CallsType
      /\ calls[c] \in CallRecord
      /\ connected \in BOOLEAN
      /\ answers \in SUBSET Questions
  BY DEF Typed, CallsType
<1>2. UNCHANGED <<document, results, timer, elapsed, crashes, faults>>
  BY DEF ReadStep, Reject, CheckTime, CheckRejoin, CheckSocketRejoin, CheckSocket,
         CheckAbandon, CheckActivity, CheckExpiry, Load, Recheck, OpenTransaction, Read
<1> DEFINE Replaces ==
             \E r \in CallRecord : /\ calls' = [calls EXCEPT ![c] = r]
                                   /\ r.pc \in Steps /\ r.op = calls[c].op
<1>3. \/ \E pc \in Steps : calls' = Goto(c, pc)
      \/ calls' = Return(c)
      \/ Replaces
  <2>1. CASE Reject(c)
    BY <2>1 DEF Reject
  <2>2. CASE CheckTime(c)
    BY <2>2 DEF CheckTime, Steps
  <2>3. CASE CheckRejoin(c)
    <3>1. CASE Remaining = 0
      BY <2>3, <3>1 DEF CheckRejoin, Steps
    <3>2. CASE Remaining # 0
      <4> DEFINE r == [calls[c] EXCEPT !.pc = "connect", !.sees = connected,
                                       !.rem = Remaining]
      <4>1. calls' = [calls EXCEPT ![c] = r]
        BY <2>3, <3>2 DEF CheckRejoin
      <4>2. r \in CallRecord /\ r.pc \in Steps /\ r.op = calls[c].op
        BY <1>1, RemainingType DEF CallRecord, Places, Steps
      <4> QED BY <4>1, <4>2
    <3> QED BY <3>1, <3>2
  <2>4. CASE CheckSocketRejoin(c)
    BY <2>4 DEF CheckSocketRejoin, Steps
  <2>5. CASE CheckSocket(c)
    BY <2>5 DEF CheckSocket, Steps
  <2>6. CASE CheckAbandon(c)
    BY <2>6 DEF CheckAbandon, Steps
  <2>7. CASE CheckActivity(c)
    BY <2>7 DEF CheckActivity, Steps
  <2>8. CASE CheckExpiry(c)
    BY <2>8 DEF CheckExpiry, Steps
  <2>9. CASE Load(c)
    <3> DEFINE to == IF calls[c].op = "leave" THEN "disconnect" ELSE "connect"
               r == [calls[c] EXCEPT !.pc = to, !.sees = connected]
    <3>1. calls' = [calls EXCEPT ![c] = r]
      BY <2>9 DEF Load
    <3>2. to \in Steps
      BY DEF Steps
    <3>3. r \in CallRecord /\ r.pc \in Steps /\ r.op = calls[c].op
      <4> HIDE DEF to
      <4> QED BY <1>1, <3>2 DEF CallRecord, Places
    <3> QED BY <3>1, <3>3
  <2>10. CASE Recheck(c)
    BY <2>10 DEF Recheck, Steps
  <2>11. CASE OpenTransaction(c)
    <3>1. CASE Active
      <4> DEFINE r == [calls[c] EXCEPT !.pc = "txn", !.fresh = TRUE, !.about = answers]
      <4>1. calls' = [calls EXCEPT ![c] = r]
        BY <2>11, <3>1 DEF OpenTransaction
      <4>2. r \in CallRecord /\ r.pc \in Steps /\ r.op = calls[c].op
        BY <1>1 DEF CallRecord, Places, Steps
      <4> QED BY <4>1, <4>2
    <3>2. CASE ~Active
      BY <2>11, <3>2 DEF OpenTransaction, SubmissionFails, Steps
    <3> QED BY <3>1, <3>2
  <2> QED BY <2>1, <2>2, <2>3, <2>4, <2>5, <2>6, <2>7, <2>8, <2>9, <2>10, <2>11
          DEF ReadStep
<1>4. Moves(c) /\ Continues(c)
  <2>1. CASE \E pc \in Steps : calls' = Goto(c, pc)
    BY <1>1, <2>1, GotoMoves DEF Continues
  <2>2. CASE calls' = Return(c)
    BY <1>1, <2>2, ReturnMoves, NoCallIsIdle DEF Continues
  <2>3. CASE Replaces
    BY <1>1, <2>3, ReplaceMoves DEF Continues
  <2> QED BY <1>3, <2>1, <2>2, <2>3
<1> QED BY <1>2, <1>4

(* The saves and the commit: one call moves, open transactions conflict. A  *)
(* save of a question that fails leaves everything else as it is.           *)
LEMMA WriteEffect ==
  ASSUME Typed, NEW c \in Calls,
         SaveStep(c) \/ Commit(c) \/ CommitUnacknowledged(c)
  PROVE  /\ OnlyMoves(c) /\ Continues(c)
         /\ NoneCurrent' \/ (Moves(c) /\ UNCHANGED <<document, results>>
                                        /\ calls'[c] = NoCall)
         /\ UNCHANGED <<timer, elapsed, crashes>>
<1>1. calls \in CallsType /\ calls[c] \in CallRecord
  BY DEF Typed, CallsType
<1>2. UNCHANGED <<timer, elapsed, crashes>>
  BY DEF SaveStep, SaveExpired, SaveAbandoned, SaveConnected, SaveDisconnected,
         SaveActivity, Commit, CommitUnacknowledged, Write
<1>3. ASSUME NEW b \in BOOLEAN, calls' = Invalidate(Return(c), b)
      PROVE  OnlyMoves(c) /\ Continues(c) /\ NoneCurrent'
  <2>1. /\ Return(c) \in CallsType
        /\ \A d \in Calls \ {c} : Return(c)[d] = calls[d]
        /\ Return(c)[c] = NoCall
    BY <1>1, NoCallType DEF Return, CallsType
  <2> QED BY <1>1, <1>3, <2>1, NoCallIsIdle, WriteMoves DEF Continues
<1>4. ASSUME NEW pc \in Steps \ {"txn"}, NEW b \in BOOLEAN,
             calls' = Invalidate(Goto(c, pc), b)
      PROVE  OnlyMoves(c) /\ Continues(c) /\ NoneCurrent'
  <2>1. /\ Goto(c, pc) \in CallsType
        /\ \A d \in Calls \ {c} : Goto(c, pc)[d] = calls[d]
        /\ Goto(c, pc)[c].pc = pc
        /\ Goto(c, pc)[c].op = calls[c].op
    BY <1>1 DEF Goto, CallsType, CallRecord, Places
  <2> QED BY <1>1, <1>4, <2>1, WriteMoves DEF Continues
<1>5. CASE SaveExpired(c)
  BY <1>2, <1>3, <1>5 DEF SaveExpired
<1>6. CASE SaveAbandoned(c)
  BY <1>2, <1>3, <1>6 DEF SaveAbandoned
<1>7. CASE SaveDisconnected(c)
  BY <1>2, <1>3, <1>7 DEF SaveDisconnected
<1>8. CASE SaveConnected(c)
  <2>1. CASE calls[c].op = "rejoin"
    BY <1>2, <1>4, <1>8, <2>1 DEF SaveConnected, Steps
  <2>2. CASE calls[c].op # "rejoin"
    <3> DEFINE cs == [calls EXCEPT ![c] = Call("view", "check")]
    <3>1. calls' = Invalidate(cs, FALSE)
      BY <1>8, <2>2 DEF SaveConnected
    <3>2. /\ cs \in CallsType
          /\ \A d \in Calls \ {c} : cs[d] = calls[d]
          /\ cs[c].pc = "check" /\ cs[c].op = "view"
      BY <1>1, ViewCall DEF CallsType
    <3> HIDE DEF cs
    <3>3. OnlyMoves(c) /\ calls'[c].pc = "check" /\ calls'[c].op = "view"
          /\ NoneCurrent'
      BY <1>1, <3>1, <3>2, WriteMoves
    <3> QED BY <1>2, <3>3 DEF Continues, Steps
  <2> QED BY <2>1, <2>2
<1>9. CASE SaveActivity(c)
  <2>1. CASE calls' = Return(c) /\ UNCHANGED answers
    <3>1. calls' = Return(c) /\ UNCHANGED <<document, results>>
      BY <1>9, <2>1 DEF SaveActivity, document
    <3>2. Moves(c) /\ calls'[c] = NoCall
      BY <1>1, <3>1, ReturnMoves
    <3> QED BY <1>2, <3>1, <3>2, NoCallIsIdle, MovesOnly DEF Continues
  <2>2. CASE \E b \in BOOLEAN, complete \in BOOLEAN :
               calls' = Invalidate(IF complete THEN Goto(c, "disarm") ELSE Return(c), b)
    <3>1. PICK b \in BOOLEAN, complete \in BOOLEAN :
             calls' = Invalidate(IF complete THEN Goto(c, "disarm") ELSE Return(c), b)
      BY <2>2
    <3>2. CASE complete
      BY <1>2, <1>4, <3>1, <3>2 DEF Steps
    <3>3. CASE ~complete
      BY <1>2, <1>3, <3>1, <3>3
    <3> QED BY <3>2, <3>3
  <2> QED BY <1>9, <2>1, <2>2 DEF SaveActivity
<1>10. CASE Commit(c)
  BY <1>2, <1>3, <1>10 DEF Commit
<1>11. CASE CommitUnacknowledged(c)
  <2>1. CASE calls[c].op = "expiry"
    BY <1>2, <1>4, <1>11, <2>1 DEF CommitUnacknowledged, SubmissionFails, Steps
  <2>2. CASE calls[c].op # "expiry"
    BY <1>2, <1>3, <1>11, <2>2 DEF CommitUnacknowledged, SubmissionFails
  <2> QED BY <2>1, <2>2
<1> QED BY <1>5, <1>6, <1>7, <1>8, <1>9, <1>10, <1>11 DEF SaveStep

(* The other steps of a call: it moves, the document stays. *)
LEMMA QuietEffect ==
  ASSUME Typed, NEW c \in Calls,
         WriteConflict(c) \/ DatabaseError(c) \/ ArmTimer(c) \/ DisarmTimer(c)
             \/ RefuseSubmission(c)
  PROVE  /\ Moves(c) /\ Continues(c) /\ calls'[c].pc # "txn"
         /\ UNCHANGED <<document, results, elapsed, crashes>>
<1>1. calls \in CallsType
  BY DEF Typed
<1>2. UNCHANGED <<document, results, elapsed, crashes>>
  BY DEF WriteConflict, DatabaseError, ArmTimer, DisarmTimer, RefuseSubmission, Write
<1>3. \/ calls' = Goto(c, "recheck")
      \/ calls' = Return(c)
      \/ calls' = [calls EXCEPT ![c] = Call("view", "check")]
  BY DEF WriteConflict, DatabaseError, ArmTimer, DisarmTimer, RefuseSubmission, SubmissionFails
<1>4. {"recheck", "check"} \subseteq Steps
  BY DEF Steps
<1>5. CASE calls' = Goto(c, "recheck")
  BY <1>1, <1>2, <1>4, <1>5, GotoMoves DEF Continues
<1>6. CASE calls' = Return(c)
  BY <1>1, <1>2, <1>6, ReturnMoves, NoCallIsIdle DEF Continues
<1>7. CASE calls' = [calls EXCEPT ![c] = Call("view", "check")]
  BY <1>1, <1>2, <1>4, <1>7, ReplaceMoves, ViewCall DEF Continues
<1> QED BY <1>3, <1>5, <1>6, <1>7

(* The start of a call, that of submitSection included. *)
LEMMA BeginEffect ==
  ASSUME Typed, NEW c \in Requests, NEW op \in Handlers \cup {"submitSection"},
         NEW q \in Questions, Begin(c, op, q)
  PROVE  /\ c \in Calls \ Background
         /\ Moves(c)
         /\ calls'[c].op = op
         /\ calls'[c].pc \in {"txnRead", "check"}
         /\ UNCHANGED <<document, results, elapsed, crashes, faults>>
         /\ timer' = {} \/ timer' = timer
<1>1. calls \in CallsType /\ c \in Calls \ Background /\ op \in Ops
  BY SessionAssumption DEF Typed, Calls, Ops
<1> DEFINE pc == IF op = "submit" THEN "txnRead" ELSE "check"
           A == IF op \in {"answer", "skip"} THEN {q} ELSE {}
           r == [Call(op, pc) EXCEPT !.about = A]
<1>2. pc \in {"txnRead", "check"} /\ pc \in Places /\ A \in SUBSET Questions
  BY DEF Places, Steps
<1>3. calls' = [calls EXCEPT ![c] = r]
  BY DEF Begin
<1>4. r \in CallRecord /\ r.op = op /\ r.pc = pc
  <2> HIDE DEF pc, A
  <2>1. Call(op, pc) \in CallRecord
    BY <1>1, <1>2, NewCall
  <2>2. Call(op, pc).op = op /\ Call(op, pc).pc = pc
    BY DEF Call
  <2> QED BY <1>2, <2>1, <2>2 DEF CallRecord
<1> HIDE DEF pc, A, r
<1>5. Moves(c) /\ calls'[c] = r
  BY <1>1, <1>3, <1>4, ReplaceMoves
<1> QED BY <1>1, <1>2, <1>4, <1>5 DEF Begin

LEMMA CronEffect ==
  ASSUME Typed, CronStarts
  PROVE  /\ "cron" \in Calls
         /\ Moves("cron")
         /\ calls'["cron"] = Call("cron", "check")
<1>1. calls \in CallsType /\ "cron" \in Calls
  BY DEF Typed, Calls, Background
<1>2. Call("cron", "check") \in CallRecord
  BY NewCall DEF Ops, Places, Steps, Background
<1>3. calls' = [calls EXCEPT !["cron"] = Call("cron", "check")]
  BY DEF CronStarts
<1> QED BY <1>1, <1>2, <1>3, ReplaceMoves

LEMMA FireEffect ==
  ASSUME Typed, TimerFires
  PROVE  /\ "expiry" \in Calls
         /\ Moves("expiry")
         /\ calls'["expiry"] = Call("expiry", "check")
<1>1. calls \in CallsType /\ "expiry" \in Calls
  BY DEF Typed, Calls, Background
<1>2. Call("expiry", "check") \in CallRecord
  BY NewCall DEF Ops, Places, Steps, Background
<1>3. calls' = [calls EXCEPT !["expiry"] = Call("expiry", "check")]
  BY DEF TimerFires
<1> QED BY <1>1, <1>2, <1>3, ReplaceMoves

(* What a save or a commit does to the answers. *)
LEMMA AnswersEffect ==
  ASSUME NEW c \in Calls, SaveStep(c) \/ Commit(c) \/ CommitUnacknowledged(c)
  PROVE  answers' \in {answers, answers \cup calls[c].about, answers \ calls[c].about}
<1>1. CASE SaveActivity(c)
  <2>1. CASE calls[c].op = "answer"
    BY <1>1, <2>1 DEF SaveActivity
  <2>2. CASE calls[c].op = "skip"
    BY <1>1, <2>2 DEF SaveActivity
  <2>3. CASE calls[c].op \notin {"answer", "skip"}
    BY <1>1, <2>3 DEF SaveActivity
  <2> QED BY <2>1, <2>2, <2>3
<1>2. CASE ~SaveActivity(c)
  BY <1>2 DEF SaveStep, SaveExpired, SaveAbandoned, SaveConnected, SaveDisconnected,
              Commit, CommitUnacknowledged
<1> QED BY <1>1, <1>2

(* What startServerTimer arms. *)
LEMMA ArmEffect ==
  ASSUME Typed, NEW c \in Calls, ArmTimer(c)
  PROVE  \/ timer' = timer
         \/ \E r \in 1..TimeLimit :
               /\ timer' = {r}
               /\ \/ calls[c].op = "start" /\ r = Left
                  \/ calls[c].op # "start" /\ timer = {} /\ r = calls[c].rem
<1>1. elapsed \in 0..TimeLimit /\ calls[c].rem \in 0..TimeLimit /\ TimeLimit \in Nat
  BY SessionAssumption DEF Typed, CallsType, CallRecord
<1>2. CASE calls[c].op = "start"
  <2>1. timer' = IF Left > 0 THEN {Left} ELSE timer
    BY <1>2 DEF ArmTimer
  <2> QED BY <1>1, <1>2, <2>1, LeftFacts
<1>3. CASE calls[c].op # "start"
  <2>1. timer' = IF calls[c].rem > 0 /\ timer = {} THEN {calls[c].rem} ELSE timer
    BY <1>3 DEF ArmTimer
  <2> QED BY <1>1, <1>3, <2>1
<1> QED BY <1>2, <1>3

(* The steps that TestSession and SectionTimes share, by their effects:     *)
(* those of the handlers and the hourly job, and the others.                *)
HandlerStep ==
    \/ \E c \in Requests, op \in Handlers \cup {"submitSection"}, q \in Questions :
          Begin(c, op, q)
    \/ \E c \in Calls : ReadStep(c) \/ OpenTransaction(c)
    \/ \E c \in Calls : SaveStep(c) \/ Commit(c) \/ CommitUnacknowledged(c)
    \/ \E c \in Calls : WriteConflict(c) \/ DatabaseError(c)
                        \/ ArmTimer(c) \/ DisarmTimer(c) \/ RefuseSubmission(c)
    \/ RefusedCall
    \/ CronStarts

SessionStep == HandlerStep \/ TimerFires \/ Tick \/ Crash \/ UNCHANGED vars

LEMMA StepCases == [Next]_vars => SessionStep
BY DEF SessionStep, HandlerStep, Next, Proceed, SubmissionStep

-----------------------------------------------------------------------------
(* Type correctness. *)

LEMMA InitTyped == Init => Typed /\ NoSectionCalls
<1> SUFFICES ASSUME Init PROVE Typed /\ NoSectionCalls
  OBVIOUS
<1>1. /\ Call("start", "arm") \in CallRecord
      /\ Call("start", "arm").op = "start" /\ Call("start", "arm").pc \in Steps
  BY NewCall DEF Ops, Background, Places, Steps, Call
<1>2. calls \in CallsType
  BY <1>1, NoCallType DEF Init, CallsType
<1>3. NoSectionCalls
  BY <1>1, NoCallIsIdle DEF Init, NoSectionCalls
<1> QED BY <1>2, <1>3, SessionAssumption DEF Init, Typed

LEMMA SameTyped ==
  ASSUME Typed, calls' \in CallsType,
         UNCHANGED <<document, results, timer, elapsed, crashes, faults>>
  PROVE  Typed'
BY DEF Typed, document

LEMMA WriteTyped ==
  ASSUME Typed, NEW c \in Calls,
         SaveStep(c) \/ Commit(c) \/ CommitUnacknowledged(c)
  PROVE  Typed'
<1>1. calls' \in CallsType /\ UNCHANGED <<timer, elapsed, crashes>>
  BY WriteEffect DEF OnlyMoves
<1>2. calls[c].about \in SUBSET Questions /\ calls[c].sees \in BOOLEAN
  BY DEF Typed, CallsType, CallRecord
<1>3. status' \in {"inProgress", "completed", "expired", "abandoned"}
  BY DEF Typed, SaveStep, SaveExpired, SaveAbandoned, SaveConnected,
         SaveDisconnected, SaveActivity, Commit, CommitUnacknowledged
<1>4. connected' \in BOOLEAN
  <2>1. connected \in BOOLEAN
    BY DEF Typed
  <2>2. CASE SaveConnected(c)
    BY <1>2, <2>1, <2>2 DEF SaveConnected
  <2>3. CASE SaveDisconnected(c)
    BY <1>2, <2>1, <2>3 DEF SaveDisconnected
  <2>4. CASE ~SaveConnected(c) /\ ~SaveDisconnected(c)
    <3>1. UNCHANGED connected
      BY <2>4 DEF SaveStep, SaveExpired, SaveAbandoned, SaveActivity, Commit,
                  CommitUnacknowledged
    <3> QED BY <2>1, <3>1
  <2> QED BY <2>2, <2>3, <2>4
<1>5. answers' \in SUBSET Questions
  <2>1. answers \in SUBSET Questions
    BY DEF Typed
  <2>2. answers' \in {answers, answers \cup calls[c].about, answers \ calls[c].about}
    BY AnswersEffect
  <2> QED BY <1>2, <2>1, <2>2
<1>6. results' \in Seq(SUBSET Questions)
  <2>1. results \in Seq(SUBSET Questions)
    BY DEF Typed
  <2>2. results' = results \/ results' = Append(results, calls[c].about)
    BY DEF SaveStep, SaveExpired, SaveAbandoned, SaveConnected,
           SaveDisconnected, SaveActivity, Commit, CommitUnacknowledged
  <2> QED BY <1>2, <2>1, <2>2
<1>7. faults' \in 0..MaxFaults
  <2>1. CASE CommitUnacknowledged(c)
    BY <2>1, SessionAssumption DEF CommitUnacknowledged, Typed
  <2>2. CASE ~CommitUnacknowledged(c)
    <3>1. faults' = faults
      BY <2>2 DEF SaveStep, SaveExpired, SaveAbandoned, SaveConnected,
                  SaveDisconnected, SaveActivity, Commit, Write
    <3> QED BY <3>1 DEF Typed
  <2> QED BY <2>1, <2>2
<1> QED BY <1>1, <1>3, <1>4, <1>5, <1>6, <1>7 DEF Typed

LEMMA QuietTyped ==
  ASSUME Typed, NEW c \in Calls,
         WriteConflict(c) \/ DatabaseError(c) \/ ArmTimer(c) \/ DisarmTimer(c)
             \/ RefuseSubmission(c)
  PROVE  Typed'
<1>1. /\ calls' \in CallsType
      /\ UNCHANGED <<document, results, elapsed, crashes>>
  BY QuietEffect DEF Moves
<1>2. timer' \in SUBSET (0..TimeLimit)
  <2>1. timer \in SUBSET (0..TimeLimit)
    BY DEF Typed
  <2>2. CASE ArmTimer(c)
    <3>1. timer' = timer \/ \E r \in 1..TimeLimit : timer' = {r}
      BY <2>2, ArmEffect
    <3>2. \A r \in 1..TimeLimit : r \in 0..TimeLimit
      BY SessionAssumption
    <3> QED BY <2>1, <3>1, <3>2
  <2>3. CASE DisarmTimer(c)
    BY <2>3 DEF DisarmTimer
  <2>4. CASE WriteConflict(c) \/ DatabaseError(c) \/ RefuseSubmission(c)
    BY <2>1, <2>4 DEF WriteConflict, DatabaseError, RefuseSubmission
  <2> QED BY <2>2, <2>3, <2>4
<1>3. faults' \in 0..MaxFaults
  BY SessionAssumption
     DEF Typed, WriteConflict, DatabaseError, ArmTimer, DisarmTimer, RefuseSubmission, Write
<1> QED BY <1>1, <1>2, <1>3 DEF Typed, document

LEMMA StepTyped ==
  ASSUME Typed, SessionStep
  PROVE  Typed'
<1>1. ASSUME NEW c \in Requests, NEW op \in Handlers \cup {"submitSection"},
             NEW q \in Questions, Begin(c, op, q)
      PROVE  Typed'
  BY <1>1, BeginEffect DEF Moves, Typed, document
<1>2. ASSUME NEW c \in Calls, ReadStep(c) \/ OpenTransaction(c)
      PROVE  Typed'
  BY <1>2, ReadEffect, SameTyped DEF Moves
<1>3. ASSUME NEW c \in Calls, SaveStep(c) \/ Commit(c) \/ CommitUnacknowledged(c)
      PROVE  Typed'
  BY <1>3, WriteTyped
<1>4. ASSUME NEW c \in Calls,
             WriteConflict(c) \/ DatabaseError(c) \/ ArmTimer(c) \/ DisarmTimer(c)
             \/ RefuseSubmission(c)
      PROVE  Typed'
  BY <1>4, QuietTyped
<1>5. CASE CronStarts
  BY <1>5, CronEffect, SameTyped DEF Moves, CronStarts
<1>6. CASE TimerFires
  <2>1. calls' \in CallsType
    BY <1>6, FireEffect DEF Moves
  <2> QED BY <1>6, <2>1 DEF TimerFires, Typed, document
<1>7. CASE Tick
  <2>1. timer' \in SUBSET (0..TimeLimit) /\ elapsed' \in 0..TimeLimit
    BY <1>7, SessionAssumption DEF Tick, Typed
  <2> QED BY <1>7, <2>1 DEF Tick, Typed, document
<1>8. CASE Crash
  <2>1. calls' \in CallsType
    BY <1>8, NoCallType DEF Crash, CallsType
  <2>2. timer' = {} /\ crashes' \in 0..MaxCrashes
    BY <1>8, SessionAssumption DEF Crash, Typed
  <2> QED BY <1>8, <2>1, <2>2 DEF Crash, Typed, document
<1>9. CASE UNCHANGED vars
  BY <1>9 DEF vars, Typed, document
<1>10. CASE RefusedCall
  BY <1>10 DEF RefusedCall, Typed, document
<1> QED BY <1>1, <1>2, <1>3, <1>4, <1>5, <1>6, <1>7, <1>8, <1>9, <1>10
        DEF SessionStep, HandlerStep

LEMMA CallStaysOut ==
  ASSUME NoSectionCalls, NEW c \in Calls, OnlyMoves(c), Continues(c)
  PROVE  NoSectionCalls'
BY DEF OnlyMoves, Continues, NoSectionCalls

(* No call of TestSession is one of submitSection. *)
LEMMA NextNoSection ==
  ASSUME Typed, NoSectionCalls, [Next]_vars
  PROVE  NoSectionCalls'
<1>1. ASSUME NEW c \in Requests, NEW op \in Handlers, NEW q \in Questions,
             Begin(c, op, q)
      PROVE  NoSectionCalls'
  <2>1. op # "submitSection"
    BY SessionAssumption DEF ClientHandlers
  <2>2. /\ OnlyMoves(c) /\ c \in Calls
        /\ calls'[c].op = op /\ calls'[c].pc \in Steps
    BY <1>1, BeginEffect, MovesOnly DEF Steps
  <2> QED BY <2>1, <2>2 DEF OnlyMoves, NoSectionCalls
<1>2. ASSUME NEW c \in Calls, Proceed(c) \/ DatabaseError(c) \/ CommitUnacknowledged(c)
      PROVE  NoSectionCalls'
  <2>1. OnlyMoves(c) /\ Continues(c)
    BY <1>2, ReadEffect, WriteEffect, QuietEffect, MovesOnly DEF Proceed, SubmissionStep
  <2> QED BY <2>1, CallStaysOut
<1>3. CASE CronStarts \/ TimerFires
  <2>1. PICK c \in {"cron", "expiry"} :
           c \in Calls /\ OnlyMoves(c) /\ calls'[c] = Call(c, "check")
    BY <1>3, CronEffect, FireEffect, MovesOnly
  <2>2. calls'[c].op # "submitSection" /\ calls'[c].pc \in Steps
    BY <2>1 DEF Call, Steps
  <2> QED BY <2>1, <2>2 DEF OnlyMoves, NoSectionCalls
<1>4. CASE Crash
  BY <1>4, NoCallIsIdle DEF Crash, NoSectionCalls
<1>5. CASE Tick \/ RefusedCall \/ UNCHANGED vars
  BY <1>5 DEF Tick, RefusedCall, vars, NoSectionCalls
<1> QED BY <1>1, <1>2, <1>3, <1>4, <1>5 DEF Next

LEMMA NextSession == Typed /\ NoSectionCalls /\ [Next]_vars => Typed' /\ NoSectionCalls'
BY StepCases, StepTyped, NextNoSection

(* The type invariant: the variables hold only what the code can store, in  *)
(* particular no status that is outside the schema's enum.                  *)
THEOREM TypeCorrect == Spec => []TypeOK
BY NextSession, InitTyped, TypeParts, PTL DEF Spec

-----------------------------------------------------------------------------
(* Time. What a call knows about it.  A handler that marks the session      *)
(* expired, and the expiry callback, have seen a time limit reached;        *)
(* rejoinSession carries no less time than the session has left when it is  *)
(* used.                                                                    *)
SawLimit(r) == r.pc \in {"expire", "recheck"} \/ r.op = "expiry"

TimesOK(r) ==
    /\ r.pc \in {"load", "connect", "arm"} /\ r.op = "rejoin"
           => r.rem + elapsed >= Earliest
    /\ r.pc = "arm" => r.op \in {"start", "rejoin"}

(* NoCall satisfies every condition on calls. *)
LEMMA NoCallFacts ==
  /\ TimesOK(NoCall)
  /\ ~SawLimit(NoCall)
  /\ NoCall.pc = "idle"
  /\ NoCall.op = "none"
BY DEF TimesOK, SawLimit, NoCall, Call

LEMMA NoTimeLeft ==
  ASSUME Typed, Remaining = 0
  PROVE  elapsed >= Earliest
BY RemainingType DEF Typed

(* Call c knows about the time what it knew, or has just seen the limit.    *)
KeepsTimes(c) ==
    /\ TimesOK(calls[c]) => TimesOK(calls'[c])
    /\ SawLimit(calls'[c]) => SawLimit(calls[c]) \/ elapsed >= Earliest

(* A step to a place where nothing is known about time. *)
LEMMA GotoTimes ==
  ASSUME calls \in CallsType, NEW c \in Calls,
         NEW pc \in Steps \ {"expire", "recheck", "load", "connect", "arm"},
         calls' = Goto(c, pc)
  PROVE  KeepsTimes(c)
BY GotoMoves DEF KeepsTimes, TimesOK, SawLimit

(* What the reads establish about the call that moves: the time it found,   *)
(* and for a transaction the answers it read.                               *)
LEMMA ReadOutcome ==
  ASSUME Typed, NEW c \in Calls, ReadStep(c) \/ OpenTransaction(c)
  PROVE  /\ KeepsTimes(c)
         /\ calls'[c].pc = "txn" => Active /\ calls'[c].about = answers
<1>1. calls \in CallsType /\ calls[c] \in CallRecord
  BY DEF Typed, CallsType
<1> DEFINE Goal == /\ KeepsTimes(c)
                   /\ calls'[c].pc = "txn" => Active /\ calls'[c].about = answers
<1>2. ASSUME calls' = Return(c)
      PROVE  Goal
  BY <1>1, <1>2, ReturnMoves, NoCallFacts DEF KeepsTimes
<1>3. ASSUME NEW pc \in Steps \ {"expire", "recheck", "load", "connect", "arm", "txn"},
             calls' = Goto(c, pc)
      PROVE  Goal
  BY <1>1, <1>3, GotoMoves, GotoTimes
<1>4. ASSUME calls' = Goto(c, "expire"), elapsed >= Earliest \/ SawLimit(calls[c])
      PROVE  Goal
  <2>1. calls'[c].pc = "expire" /\ calls'[c].op = calls[c].op
    BY <1>1, <1>4, GotoMoves DEF Steps
  <2> QED BY <1>4, <2>1 DEF KeepsTimes, TimesOK
<1>5. ASSUME calls' = Goto(c, "load"), calls[c].op # "rejoin"
      PROVE  Goal
  <2>1. calls'[c].pc = "load" /\ calls'[c].op = calls[c].op
    BY <1>1, <1>5, GotoMoves DEF Steps
  <2> QED BY <1>5, <2>1 DEF KeepsTimes, TimesOK, SawLimit
<1>6. CASE Reject(c)
  BY <1>2, <1>6 DEF Reject
<1>7. CASE CheckTime(c)
  BY <1>2, <1>4, <1>7, NoTimeLeft DEF CheckTime, Read
<1>8. CASE CheckRejoin(c)
  <2>1. CASE Remaining = 0
    BY <1>4, <1>8, <2>1, NoTimeLeft DEF CheckRejoin, Read
  <2>2. CASE Remaining # 0
    <3>1. calls[c].pc = "check" /\ calls[c].op = "rejoin"
      BY <1>8 DEF CheckRejoin, Read
    <3>2. /\ calls'[c].pc = "connect"
          /\ calls'[c].op = "rejoin"
          /\ calls'[c].rem = Remaining
      BY <1>1, <1>8, <2>2, <3>1 DEF CheckRejoin, CallsType, CallRecord
    <3> QED BY <3>2, RemainingType DEF KeepsTimes, TimesOK, SawLimit
  <2> QED BY <2>1, <2>2
<1>9. CASE CheckSocketRejoin(c)
  <2>1. calls[c].pc = "check" /\ calls[c].op = "socketRejoin"
    BY <1>9 DEF CheckSocketRejoin, Read
  <2>2. CASE Remaining = 0
    BY <1>4, <1>9, <2>1, <2>2, NoTimeLeft DEF CheckSocketRejoin
  <2>3. CASE Remaining # 0
    BY <1>5, <1>9, <2>1, <2>3 DEF CheckSocketRejoin
  <2> QED BY <2>2, <2>3
<1>10. CASE CheckSocket(c)
  BY <1>5, <1>10 DEF CheckSocket, Read
<1>11. CASE CheckAbandon(c)
  BY <1>3, <1>11 DEF CheckAbandon, Steps
<1>12. CASE CheckActivity(c)
  BY <1>3, <1>12 DEF CheckActivity, Steps
<1>13. CASE CheckExpiry(c)
  BY <1>3, <1>13 DEF CheckExpiry, Steps
<1>14. CASE Load(c)
  <2>1. calls[c].pc = "load"
    BY <1>14 DEF Load
  <2>2. /\ calls'[c].pc \in {"connect", "disconnect"}
        /\ calls'[c].op = calls[c].op
        /\ calls'[c].rem = calls[c].rem
    BY <1>1, <1>14 DEF Load, CallsType, CallRecord
  <2> QED BY <2>1, <2>2 DEF KeepsTimes, TimesOK, SawLimit
<1>15. CASE Recheck(c)
  <2>1. SawLimit(calls[c])
    BY <1>15 DEF Recheck, SawLimit
  <2> QED BY <1>2, <1>4, <1>15, <2>1 DEF Recheck
<1>16. CASE OpenTransaction(c)
  <2>1. CASE Active
    <3>1. /\ calls'[c].pc = "txn"
          /\ calls'[c].op = calls[c].op
          /\ calls'[c].about = answers
      BY <1>1, <1>16, <2>1 DEF OpenTransaction, CallsType, CallRecord
    <3> QED BY <2>1, <3>1 DEF KeepsTimes, TimesOK, SawLimit
  <2>2. CASE ~Active /\ calls[c].op = "expiry"
    <3>1. calls'[c].pc = "recheck" /\ calls'[c].op = calls[c].op
      BY <1>1, <1>16, <2>2, GotoMoves DEF OpenTransaction, SubmissionFails, Steps
    <3> QED BY <2>2, <3>1 DEF KeepsTimes, TimesOK, SawLimit
  <2>3. CASE ~Active /\ calls[c].op # "expiry"
    BY <1>2, <1>16, <2>3 DEF OpenTransaction, SubmissionFails
  <2> QED BY <2>1, <2>2, <2>3
<1> QED BY <1>6, <1>7, <1>8, <1>9, <1>10, <1>11, <1>12, <1>13, <1>14, <1>15, <1>16
        DEF ReadStep

(* The same for the saves and the commit. *)
LEMMA WriteOutcome ==
  ASSUME Typed, NEW c \in Calls,
         SaveStep(c) \/ Commit(c) \/ CommitUnacknowledged(c)
  PROVE  /\ KeepsTimes(c)
         /\ status' = "expired" => status = "expired" \/ SawLimit(calls[c])
<1>1. calls \in CallsType /\ calls[c] \in CallRecord
  BY DEF Typed, CallsType
<1>2. ASSUME NEW b \in BOOLEAN, calls' = Invalidate(Return(c), b)
      PROVE  KeepsTimes(c)
  <2>1. Return(c) \in CallsType /\ Return(c)[c] = NoCall
    BY <1>1, NoCallType DEF Return, CallsType
  <2>2. calls'[c].op = "none" /\ calls'[c].pc = "idle"
    BY <1>2, <2>1, InvalidateFacts, NoCallFacts
  <2> QED BY <2>2 DEF KeepsTimes, TimesOK, SawLimit
<1>3. ASSUME NEW pc \in Steps, NEW b \in BOOLEAN, calls' = Invalidate(Goto(c, pc), b)
      PROVE  /\ calls'[c].pc = pc
             /\ calls'[c].op = calls[c].op
             /\ calls'[c].rem = calls[c].rem
  <2>1. /\ Goto(c, pc) \in CallsType
        /\ Goto(c, pc)[c].pc = pc
        /\ Goto(c, pc)[c].op = calls[c].op
        /\ Goto(c, pc)[c].rem = calls[c].rem
    BY <1>1 DEF Goto, CallsType, CallRecord, Places
  <2> QED BY <1>3, <2>1, InvalidateFacts
<1>4. CASE SaveExpired(c)
  <2>1. SawLimit(calls[c])
    BY <1>4 DEF SaveExpired, Write, SawLimit
  <2> QED BY <1>2, <1>4, <2>1 DEF SaveExpired
<1>5. CASE SaveAbandoned(c)
  BY <1>2, <1>5 DEF SaveAbandoned
<1>6. CASE SaveDisconnected(c)
  BY <1>2, <1>6 DEF SaveDisconnected
<1>7. CASE SaveConnected(c)
  <2>1. status' = status /\ calls[c].pc = "connect"
    BY <1>7 DEF SaveConnected, Write
  <2>2. CASE calls[c].op = "rejoin"
    <3>1. /\ calls'[c].pc = "arm"
          /\ calls'[c].op = calls[c].op
          /\ calls'[c].rem = calls[c].rem
      BY <1>3, <1>7, <2>2 DEF SaveConnected, Steps
    <3> QED BY <2>1, <2>2, <3>1 DEF KeepsTimes, TimesOK, SawLimit
  <2>3. CASE calls[c].op # "rejoin"
    <3> DEFINE cs == [calls EXCEPT ![c] = Call("view", "check")]
    <3>1. calls' = Invalidate(cs, FALSE)
      BY <1>7, <2>3 DEF SaveConnected
    <3>2. cs \in CallsType /\ cs[c].pc = "check" /\ cs[c].op = "view"
      BY <1>1, ViewCall DEF CallsType
    <3> HIDE DEF cs
    <3>3. calls'[c].pc = "check" /\ calls'[c].op = "view"
      BY <3>1, <3>2, InvalidateFacts
    <3> QED BY <2>1, <3>3 DEF KeepsTimes, TimesOK, SawLimit
  <2> QED BY <2>2, <2>3
<1>8. CASE SaveActivity(c)
  <2>1. status' = status /\ calls[c].pc = "edit"
    BY <1>8 DEF SaveActivity, Write
  <2>2. CASE calls' = Return(c)
    BY <1>1, <2>1, <2>2, ReturnMoves, NoCallFacts DEF KeepsTimes
  <2>3. CASE \E b \in BOOLEAN, complete \in BOOLEAN :
               calls' = Invalidate(IF complete THEN Goto(c, "disarm") ELSE Return(c), b)
    <3>1. PICK b \in BOOLEAN, complete \in BOOLEAN :
             calls' = Invalidate(IF complete THEN Goto(c, "disarm") ELSE Return(c), b)
      BY <2>3
    <3>2. CASE complete
      <4>1. calls'[c].pc = "disarm" /\ calls'[c].op = calls[c].op
        BY <1>3, <3>1, <3>2 DEF Steps
      <4> QED BY <2>1, <4>1 DEF KeepsTimes, TimesOK, SawLimit
    <3>3. CASE ~complete
      BY <1>2, <2>1, <3>1, <3>3
    <3> QED BY <3>2, <3>3
  <2> QED BY <1>8, <2>2, <2>3 DEF SaveActivity
<1>9. CASE Commit(c)
  BY <1>2, <1>9 DEF Commit
<1>10. CASE CommitUnacknowledged(c)
  <2>1. CASE calls[c].op = "expiry"
    <3>1. calls'[c].pc = "recheck" /\ calls'[c].op = calls[c].op
      BY <1>3, <1>10, <2>1 DEF CommitUnacknowledged, SubmissionFails, Steps
    <3>2. status' = "completed"
      BY <1>10 DEF CommitUnacknowledged
    <3> QED BY <2>1, <3>1, <3>2 DEF KeepsTimes, TimesOK, SawLimit
  <2>2. CASE calls[c].op # "expiry"
    BY <1>2, <1>10, <2>2 DEF CommitUnacknowledged, SubmissionFails
  <2> QED BY <2>1, <2>2
<1> QED BY <1>4, <1>5, <1>6, <1>7, <1>8, <1>9, <1>10 DEF SaveStep

(* The same for the steps that leave the document alone. *)
LEMMA QuietOutcome ==
  ASSUME Typed, NEW c \in Calls,
         WriteConflict(c) \/ DatabaseError(c) \/ ArmTimer(c) \/ DisarmTimer(c)
             \/ RefuseSubmission(c)
  PROVE  KeepsTimes(c)
<1>1. calls \in CallsType
  BY DEF Typed
<1>2. CASE calls[c].op = "expiry" /\ calls' = Goto(c, "recheck")
  <2>1. calls'[c].pc = "recheck" /\ calls'[c].op = calls[c].op
    BY <1>1, <1>2, GotoMoves DEF Steps
  <2> QED BY <1>2, <2>1 DEF KeepsTimes, TimesOK, SawLimit
<1>3. CASE calls' = Return(c)
  BY <1>1, <1>3, ReturnMoves, NoCallFacts DEF KeepsTimes
<1>4. CASE calls' = [calls EXCEPT ![c] = Call("view", "check")]
  <2>1. calls'[c] = Call("view", "check")
    BY <1>1, <1>4 DEF CallsType
  <2> QED BY <2>1, ViewCall DEF KeepsTimes, TimesOK, SawLimit
<1> QED BY <1>2, <1>3, <1>4
        DEF WriteConflict, DatabaseError, ArmTimer, DisarmTimer, RefuseSubmission, SubmissionFails

(* Only a call in progress takes a step. *)
LEMMA OnlyInProgress ==
  ASSUME NEW c \in Calls,
         \/ ReadStep(c) \/ SaveStep(c) \/ ArmTimer(c) \/ DisarmTimer(c)
         \/ OpenTransaction(c) \/ Commit(c) \/ WriteConflict(c)
         \/ CommitUnacknowledged(c) \/ DatabaseError(c) \/ RefuseSubmission(c)
  PROVE  calls[c].pc \in Steps \ {"idle"}
BY DEF ReadStep, SaveStep, Reject, CheckTime, CheckRejoin,
       CheckSocketRejoin, CheckSocket, CheckAbandon, CheckActivity, CheckExpiry, Load,
       Recheck, Read, SaveExpired, SaveAbandoned, SaveConnected, SaveDisconnected,
       SaveActivity, Write, OpenTransaction, Commit, WriteConflict, ArmTimer,
       DisarmTimer, RefuseSubmission, DatabaseError, CommitUnacknowledged, Steps

(* What a step of a handler, and the hourly job, do to the time: they find  *)
(* out about it, end the session when they have, and handle the timer.      *)
HandlerTimes ==
    /\ UNCHANGED elapsed
    /\ \A d \in Calls : TimesOK(calls'[d])
    /\ \A d \in Calls :
          SawLimit(calls'[d]) => SawLimit(calls[d]) \/ elapsed >= Earliest
    /\ status' = "expired" => status = "expired" \/ \E d \in Calls : SawLimit(calls[d])
    /\ calls'["expiry"].pc # "idle" => calls["expiry"].pc # "idle"
    /\ timer' = timer \/ timer' = {} \/ \E d \in Calls : ArmTimer(d)

(* A call that another one's step left alone knows what it knew. *)
LEMMA OthersKeepTimes ==
  ASSUME \A d \in Calls : TimesOK(calls[d]), NEW c \in Calls, OnlyMoves(c),
         TimesOK(calls'[c]),
         SawLimit(calls'[c]) => SawLimit(calls[c]) \/ elapsed >= Earliest
  PROVE  \A d \in Calls :
            /\ TimesOK(calls'[d])
            /\ SawLimit(calls'[d]) => SawLimit(calls[d]) \/ elapsed >= Earliest
<1>1. ASSUME NEW d \in Calls \ {c}
      PROVE  /\ TimesOK(calls'[d])
             /\ SawLimit(calls'[d]) => SawLimit(calls[d]) \/ elapsed >= Earliest
  BY <1>1 DEF OnlyMoves, TimesOK, SawLimit
<1> QED BY <1>1

LEMMA HandlerStepTimes ==
  ASSUME Typed, \A d \in Calls : TimesOK(calls[d]), HandlerStep
  PROVE  HandlerTimes
<1>0. "expiry" \in Calls
  BY DEF Calls, Background
<1>1. ASSUME NEW c \in Requests, NEW op \in Handlers \cup {"submitSection"},
             NEW q \in Questions, Begin(c, op, q)
      PROVE  HandlerTimes
  <2>1. /\ c \in Calls /\ c # "expiry" /\ op # "expiry"
    BY SessionAssumption DEF Calls, Background, ClientHandlers
  <2>2. /\ OnlyMoves(c)
        /\ calls'[c].op = op
        /\ calls'[c].pc \in {"txnRead", "check"}
        /\ UNCHANGED elapsed /\ UNCHANGED status
        /\ timer' = {} \/ timer' = timer
    BY <1>1, <2>1, BeginEffect, MovesOnly DEF document
  <2>3. TimesOK(calls'[c]) /\ ~SawLimit(calls'[c])
    BY <2>1, <2>2 DEF TimesOK, SawLimit
  <2>4. calls'["expiry"].pc = calls["expiry"].pc
    BY <1>0, <2>1, <2>2 DEF OnlyMoves
  <2> QED BY <2>1, <2>2, <2>3, <2>4, OthersKeepTimes DEF HandlerTimes
<1>2. ASSUME NEW c \in Calls,
             OnlyMoves(c), KeepsTimes(c), UNCHANGED elapsed,
             calls[c].pc # "idle",
             status' = "expired" => status = "expired" \/ SawLimit(calls[c]),
             timer' = timer \/ timer' = {} \/ ArmTimer(c)
      PROVE  HandlerTimes
  <2>1. calls'["expiry"].pc # "idle" => calls["expiry"].pc # "idle"
    BY <1>0, <1>2 DEF OnlyMoves
  <2> QED BY <1>2, <2>1, OthersKeepTimes DEF KeepsTimes, HandlerTimes
<1>3. ASSUME NEW c \in Calls, ReadStep(c) \/ OpenTransaction(c)
      PROVE  HandlerTimes
  <2>1. OnlyMoves(c) /\ UNCHANGED <<elapsed, timer>> /\ UNCHANGED status
    BY <1>3, ReadEffect, MovesOnly DEF document
  <2> QED BY <1>2, <1>3, <2>1, OnlyInProgress, ReadOutcome
<1>4. ASSUME NEW c \in Calls, SaveStep(c) \/ Commit(c) \/ CommitUnacknowledged(c)
      PROVE  HandlerTimes
  BY <1>2, <1>4, OnlyInProgress, WriteEffect, WriteOutcome
<1>5. ASSUME NEW c \in Calls,
             WriteConflict(c) \/ DatabaseError(c) \/ ArmTimer(c) \/ DisarmTimer(c)
             \/ RefuseSubmission(c)
      PROVE  HandlerTimes
  <2>1. OnlyMoves(c) /\ UNCHANGED elapsed /\ UNCHANGED status
    BY <1>5, QuietEffect, MovesOnly DEF document
  <2>2. timer' = timer \/ timer' = {} \/ ArmTimer(c)
    BY <1>5 DEF WriteConflict, DatabaseError, DisarmTimer, RefuseSubmission
  <2> QED BY <1>2, <1>5, <2>1, <2>2, OnlyInProgress, QuietOutcome
<1>6. CASE CronStarts
  <2>1. /\ "cron" \in Calls /\ OnlyMoves("cron")
        /\ calls'["cron"] = Call("cron", "check")
        /\ UNCHANGED <<elapsed, timer>> /\ UNCHANGED status
    BY <1>6, CronEffect, MovesOnly DEF CronStarts, document
  <2>2. TimesOK(calls'["cron"]) /\ ~SawLimit(calls'["cron"])
    BY <2>1 DEF TimesOK, SawLimit, Call
  <2>3. calls'["expiry"].pc = calls["expiry"].pc
    BY <1>0, <2>1 DEF OnlyMoves
  <2> QED BY <2>1, <2>2, <2>3, OthersKeepTimes DEF HandlerTimes
<1>7. CASE RefusedCall
  BY <1>7 DEF RefusedCall, HandlerTimes, document
<1> QED BY <1>1, <1>3, <1>4, <1>5, <1>6, <1>7 DEF HandlerStep

(* The timer never runs shorter than the session. *)
TimerOK ==
    /\ \A t \in timer : t + elapsed >= Earliest
    /\ \A t, u \in timer : t = u

TimeInv ==
    /\ status = "expired" => elapsed >= Earliest
    /\ calls["expiry"].pc # "idle" => elapsed >= Earliest
    /\ TimerOK
    /\ \A d \in Calls : TimesOK(calls[d])
    /\ \A d \in Calls : SawLimit(calls[d]) => elapsed >= Earliest

LEMMA InitCallsTimes ==
  Init => /\ \A d \in Calls : TimesOK(calls[d]) /\ ~SawLimit(calls[d])
          /\ calls["expiry"].pc = "idle"
<1> SUFFICES ASSUME Init
             PROVE  /\ \A d \in Calls : TimesOK(calls[d]) /\ ~SawLimit(calls[d])
                    /\ calls["expiry"].pc = "idle"
  OBVIOUS
<1>1. \A d \in Calls : calls[d] = Call("start", "arm") \/ calls[d] = NoCall
  BY DEF Init
<1>2. calls["expiry"] = NoCall
  BY DEF Init, Calls, Background
<1>3. TimesOK(Call("start", "arm")) /\ ~SawLimit(Call("start", "arm"))
  BY DEF TimesOK, SawLimit, Call
<1> QED BY <1>1, <1>2, <1>3, NoCallFacts

LEMMA InitTime == Init => TimeInv
BY InitCallsTimes DEF Init, TimeInv, TimerOK

(* A timer that is armed has at least what the session has left, but for    *)
(* the rounding.                                                            *)
LEMMA ArmedLongEnough ==
  ASSUME Typed, NEW c \in Calls, ArmTimer(c), TimesOK(calls[c])
  PROVE  \/ timer' = timer
         \/ \E r \in 1..TimeLimit : timer' = {r} /\ r + elapsed >= Earliest
<1>1. /\ elapsed \in 0..TimeLimit /\ TimeLimit \in Nat
      /\ calls[c].rem \in 0..TimeLimit
  BY SessionAssumption DEF Typed, CallsType, CallRecord
<1>2. calls[c].op # "start" => calls[c].rem + elapsed >= Earliest
  BY DEF ArmTimer, TimesOK
<1> QED BY <1>1, <1>2, ArmEffect, LeftFacts

(* It replaces none that runs shorter than the session.                     *)
LEMMA ArmedTimer ==
  ASSUME Typed, TimerOK, NEW c \in Calls, ArmTimer(c), TimesOK(calls[c])
  PROVE  TimerOK' /\ \A t \in timer, u \in timer' : u < t + Second
<1>1. /\ elapsed \in 0..TimeLimit /\ TimeLimit \in Nat
      /\ timer \in SUBSET (0..TimeLimit)
  BY SessionAssumption DEF Typed
<1>2. elapsed' = elapsed
  BY DEF ArmTimer
<1>3. CASE timer' = timer
  <2>1. TimerOK'
    BY <1>2, <1>3 DEF TimerOK
  <2>2. \A t \in timer, u \in timer : t \in 0..TimeLimit /\ u = t
    BY <1>1 DEF TimerOK
  <2>3. \A t \in timer, u \in timer' : u < t + Second
    BY <1>1, <1>3, <2>2, SessionAssumption
  <2> QED BY <2>1, <2>3
<1>4. CASE timer' # timer
  <2>1. PICK r \in 1..TimeLimit : timer' = {r} /\ r + elapsed >= Earliest
    BY <1>4, ArmedLongEnough
  <2>2. TimerOK'
    BY <1>2, <2>1 DEF TimerOK
  <2>3. timer = {} \/ r = Left
    BY <1>4, <2>1, ArmEffect
  <2>4. \A t \in timer : r < t + Second
    BY <1>1, <2>1, <2>3, LeftFacts, EarliestFacts, SessionAssumption DEF TimerOK
  <2> QED BY <2>1, <2>2, <2>4
<1> QED BY <1>3, <1>4

(* The passing of a tick keeps timer and limit in step. *)
LEMMA TickedTimer ==
  ASSUME Typed, TimerOK, Tick
  PROVE  /\ TimerOK'
         /\ \A t \in timer, u \in timer' : u <= t
<1>1. /\ elapsed \in 0..TimeLimit /\ TimeLimit \in Nat
      /\ timer \in SUBSET (0..TimeLimit)
  BY SessionAssumption DEF Typed
<1>2. elapsed' = IF elapsed < TimeLimit THEN elapsed + 1 ELSE elapsed
  BY DEF Tick
<1>3. \A u \in timer' : \E t \in timer : u = IF t > 0 THEN t - 1 ELSE 0
  BY DEF Tick
<1>4. \A u \in timer' : u + elapsed' >= Earliest
  BY <1>1, <1>2, <1>3, EarliestFacts DEF TimerOK
<1>5. \A t, u \in timer' : t = u
  BY <1>3 DEF TimerOK
<1>6. \A t \in timer, u \in timer' : u <= t
  BY <1>1, <1>3 DEF TimerOK
<1> QED BY <1>4, <1>5, <1>6 DEF TimerOK

(* A tick takes no call by surprise. *)
LEMMA TickedCalls ==
  ASSUME Typed, Tick, \A d \in Calls : TimesOK(calls[d])
  PROVE  /\ \A d \in Calls : TimesOK(calls[d])'
         /\ elapsed >= Earliest => elapsed' >= Earliest
<1>1. elapsed' = (IF elapsed < TimeLimit THEN elapsed + 1 ELSE elapsed) /\ calls' = calls
  BY DEF Tick
<1>2. /\ elapsed \in Nat /\ elapsed' \in Nat /\ TimeLimit \in Nat
      /\ elapsed' >= elapsed
      /\ elapsed >= Earliest => elapsed' >= Earliest
  BY <1>1, SessionAssumption, EarliestFacts DEF Typed
<1>3. ASSUME NEW d \in Calls
      PROVE  TimesOK(calls[d])'
  <2>1. calls[d].rem \in Nat
    BY SessionAssumption DEF Typed, CallsType, CallRecord
  <2> QED BY <1>1, <1>2, <2>1, EarliestFacts DEF TimesOK
<1> QED BY <1>2, <1>3

(* After a restart no call knows anything. *)
LEMMA CrashedCalls ==
  ASSUME Crash
  PROVE  /\ \A d \in Calls : TimesOK(calls[d])' /\ ~SawLimit(calls[d])'
         /\ calls'["expiry"].pc = "idle"
<1>1. \A d \in Calls : calls'[d] = NoCall
  BY DEF Crash
<1>2. elapsed' = elapsed
  BY DEF Crash
<1>3. ASSUME NEW d \in Calls
      PROVE  TimesOK(calls[d])' /\ ~SawLimit(calls[d])'
  BY <1>1, <1>2, NoCallFacts DEF TimesOK, SawLimit
<1>4. calls'["expiry"].pc = "idle"
  BY <1>1, NoCallFacts DEF Calls, Background
<1> QED BY <1>3, <1>4

(* The expiry callback begins. *)
LEMMA FiredCalls ==
  ASSUME Typed, TimerFires, \A d \in Calls : TimesOK(calls[d])
  PROVE  /\ \A d \in Calls : TimesOK(calls[d])'
         /\ \A d \in Calls \ {"expiry"} : SawLimit(calls'[d]) => SawLimit(calls[d])
<1>1. /\ "expiry" \in Calls /\ OnlyMoves("expiry")
      /\ calls'["expiry"] = Call("expiry", "check")
      /\ UNCHANGED elapsed
  BY FireEffect, MovesOnly DEF TimerFires
<1>2. TimesOK(Call("expiry", "check"))
  BY DEF TimesOK, Call
<1>3. ASSUME NEW d \in Calls PROVE TimesOK(calls[d])'
  <2>1. CASE d = "expiry"
    BY <1>1, <1>2, <2>1 DEF TimesOK
  <2>2. CASE d # "expiry"
    BY <1>1, <2>2 DEF OnlyMoves, TimesOK
  <2> QED BY <2>1, <2>2
<1>4. \A d \in Calls \ {"expiry"} : SawLimit(calls'[d]) => SawLimit(calls[d])
  BY <1>1 DEF OnlyMoves, SawLimit
<1> QED BY <1>3, <1>4

LEMMA NextTime == Typed /\ TimeInv /\ [Next]_vars => TimeInv'
<1> SUFFICES ASSUME Typed, TimeInv, [Next]_vars
             PROVE  TimeInv'
  OBVIOUS
<1>0. TimerOK /\ \A d \in Calls : TimesOK(calls[d])
  BY DEF TimeInv
<1>1. CASE HandlerStep
  <2>1. HandlerTimes
    BY <1>0, <1>1, HandlerStepTimes
  <2>2. \A d \in Calls : TimesOK(calls[d])'
    BY <2>1 DEF HandlerTimes, TimesOK
  <2>3. \A d \in Calls : SawLimit(calls[d])' => elapsed' >= Earliest
    BY <2>1 DEF HandlerTimes, TimeInv, SawLimit
  <2>4. TimerOK'
    <3>1. CASE \E d \in Calls : ArmTimer(d)
      BY <1>0, <3>1, ArmedTimer
    <3>2. CASE timer' = timer \/ timer' = {}
      BY <1>0, <2>1, <3>2 DEF HandlerTimes, TimerOK
    <3> QED BY <2>1, <3>1, <3>2 DEF HandlerTimes
  <2> QED BY <2>1, <2>2, <2>3, <2>4 DEF HandlerTimes, TimeInv
<1>2. CASE TimerFires
  <2>1. elapsed >= Earliest /\ UNCHANGED elapsed
    BY <1>0, <1>2, SessionAssumption DEF TimerFires, TimerOK, Typed
  <2>2. TimerOK'
    BY <1>2 DEF TimerFires, TimerOK
  <2> QED BY <1>0, <1>2, <2>1, <2>2, FiredCalls DEF TimeInv
<1>3. CASE Tick
  <2>1. TimerOK' /\ UNCHANGED <<status, calls>>
    BY <1>0, <1>3, TickedTimer DEF Tick, document
  <2>2. \A d \in Calls : SawLimit(calls[d])' => elapsed' >= Earliest
    BY <1>0, <1>3, <2>1, TickedCalls DEF TimeInv, SawLimit
  <2> QED BY <1>0, <1>3, <2>1, <2>2, TickedCalls DEF TimeInv
<1>4. CASE Crash
  <2>1. TimerOK' /\ UNCHANGED <<elapsed, status>>
    BY <1>4 DEF Crash, TimerOK, document
  <2> QED BY <1>4, <2>1, CrashedCalls DEF TimeInv
<1>5. CASE UNCHANGED vars
  BY <1>5 DEF vars, TimeInv, TimerOK, TimesOK, SawLimit, document
<1> QED BY <1>1, <1>2, <1>3, <1>4, <1>5, StepCases DEF SessionStep

LEMMA TimerShrinks ==
  Typed /\ TimeInv /\ [Next]_vars => \A t \in timer, u \in timer' : u < t + Second
<1> SUFFICES ASSUME Typed, TimeInv, [Next]_vars
             PROVE  \A t \in timer, u \in timer' : u < t + Second
  OBVIOUS
<1>1. TimerOK /\ \A d \in Calls : TimesOK(calls[d])
  BY DEF TimeInv
<1>2. ASSUME timer' = timer \/ timer' = {}
      PROVE  \A t \in timer, u \in timer' : u < t + Second
  <2>1. \A t \in timer, u \in timer' : t \in 0..TimeLimit /\ u = t
    BY <1>1, <1>2 DEF TimerOK, Typed
  <2> QED BY <2>1, SessionAssumption
<1>3. CASE \E c \in Calls : ArmTimer(c)
  BY <1>1, <1>3, ArmedTimer
<1>4. CASE Tick
  <2>1. \A t \in timer, u \in timer' : u <= t /\ t \in 0..TimeLimit
    BY <1>1, <1>4, TickedTimer DEF Typed
  <2>2. TimerOK' /\ timer' \in SUBSET (0..TimeLimit)
    BY <1>1, <1>4, TickedTimer, StepTyped DEF SessionStep, Typed
  <2> QED BY <2>1, <2>2, SessionAssumption
<1>5. CASE ~Tick /\ ~\E c \in Calls : ArmTimer(c)
  <2>1. CASE TimerFires \/ Crash \/ UNCHANGED vars
    BY <1>2, <2>1 DEF TimerFires, Crash, vars
  <2>2. CASE HandlerStep
    BY <1>1, <1>2, <1>5, <2>2, HandlerStepTimes DEF HandlerTimes
  <2> QED BY <1>5, <2>1, <2>2, StepCases DEF SessionStep
<1> QED BY <1>3, <1>4, <1>5

(* Nobody loses a second: neither a timer that is too short, nor a          *)
(* remaining time computed before a reconnection, nor a stale handler ends  *)
(* a session before the last second of its limit.                           *)
THEOREM NoTimeIsLost == Spec => []NeverCutShort
<1>1. Typed /\ TimeInv => NeverCutShort
  <2> SUFFICES ASSUME Typed, TimeInv PROVE NeverCutShort
    OBVIOUS
  <2>1. elapsed \in Nat /\ TimeLimit \in Nat /\ Second \in Nat
    BY SessionAssumption DEF Typed
  <2>2. timer = {0} => elapsed >= Earliest
    BY <2>1, EarliestFacts DEF TimeInv, TimerOK
  <2>3. elapsed >= Earliest => elapsed + Second > TimeLimit
    BY <2>1, EarliestFacts
  <2> QED BY <2>2, <2>3 DEF TimeInv, NeverCutShort
<1> QED BY <1>1, InitTyped, InitTime, NextSession, NextTime, PTL DEF Spec

(* A running timer is never replaced by one that is longer by a second,     *)
(* although two handlers that both arm it compute its length at different   *)
(* times.                                                                   *)
THEOREM TimerOnlyShrinks == Spec => TimerNotExtended
<1>1. Typed /\ TimeInv /\ [Next]_vars
        => [\A t \in timer, u \in timer' : u < t + Second]_vars
  BY TimerShrinks
<1> QED BY <1>1, InitTyped, InitTime, NextSession, NextTime, PTL DEF Spec, TimerNotExtended

-----------------------------------------------------------------------------
(* Grading. *)

TxnInv == GradedOnce /\ OpenTransactionIsCurrent

LEMMA InitTxn == Init => TxnInv
<1> SUFFICES ASSUME Init PROVE TxnInv
  OBVIOUS
<1>1. \A d \in Calls : calls[d].pc # "txn"
  BY DEF Init, NoCall, Call
<1>2. status = "inProgress" /\ results = <<>>
  BY DEF Init
<1> QED BY <1>1, <1>2 DEF TxnInv, GradedOnce, OpenTransactionIsCurrent, Active

(* A step that leaves the document alone, and moves a call into an open     *)
(* transaction only by reading it.                                          *)
LEMMA FrameTxn ==
  ASSUME TxnInv, NEW c \in Calls, OnlyMoves(c), UNCHANGED <<document, results>>,
         calls'[c].pc = "txn" => Active /\ calls'[c].about = answers
  PROVE  TxnInv'
<1>1. UNCHANGED <<status, answers, results>>
  BY DEF document
<1>2. GradedOnce'
  BY <1>1 DEF TxnInv, GradedOnce, Active
<1>3. ASSUME NEW d \in Calls, calls'[d].pc = "txn", calls'[d].fresh
      PROVE  status = "inProgress" /\ calls'[d].about = answers
  BY <1>3 DEF OnlyMoves, TxnInv, OpenTransactionIsCurrent, Active
<1> QED BY <1>1, <1>2, <1>3 DEF TxnInv, OpenTransactionIsCurrent, Active

(* What a save or a commit does to status and results. *)
LEMMA Grading ==
  ASSUME Typed, TxnInv, NEW c \in Calls,
         SaveStep(c) \/ Commit(c) \/ CommitUnacknowledged(c)
  PROVE  \/ results' = results /\ status' \in {status, "expired", "abandoned"}
         \/ /\ Active
            /\ results = <<>>
            /\ results' = Append(results, answers)
            /\ status' = "completed"
<1>1. CASE SaveStep(c)
  BY <1>1 DEF SaveStep, SaveExpired, SaveAbandoned, SaveConnected, SaveDisconnected,
              SaveActivity
<1>2. CASE Commit(c) \/ CommitUnacknowledged(c)
  <2>1. /\ calls[c].pc = "txn" /\ calls[c].fresh
        /\ results' = Append(results, calls[c].about)
        /\ status' = "completed"
    BY <1>2 DEF Commit, CommitUnacknowledged, Write
  <2> QED BY <2>1 DEF TxnInv, GradedOnce, OpenTransactionIsCurrent
<1> QED BY <1>1, <1>2

LEMMA GradingKeepsOnce ==
  ASSUME Typed, TxnInv, NEW c \in Calls,
         SaveStep(c) \/ Commit(c) \/ CommitUnacknowledged(c)
  PROVE  GradedOnce'
<1>1. GradedOnce
  BY DEF TxnInv
<1>2. CASE results' = results /\ status' \in {status, "expired", "abandoned"}
  BY <1>1, <1>2 DEF GradedOnce, Active
<1>3. CASE results = <<>> /\ results' = Append(results, answers) /\ status' = "completed"
  <2>1. Len(results') = 1
    BY <1>3 DEF Typed
  <2> QED BY <1>3, <2>1 DEF GradedOnce, Active
<1> QED BY <1>2, <1>3, Grading

LEMMA StepTxn ==
  ASSUME Typed, TxnInv, SessionStep
  PROVE  TxnInv'
<1>1. ASSUME NEW c \in Requests, NEW op \in Handlers \cup {"submitSection"},
             NEW q \in Questions, Begin(c, op, q)
      PROVE  TxnInv'
  <2>1. c \in Calls /\ OnlyMoves(c) /\ calls'[c].pc # "txn"
        /\ UNCHANGED <<document, results>>
    BY <1>1, BeginEffect, MovesOnly
  <2> QED BY <2>1, FrameTxn
<1>2. ASSUME NEW c \in Calls, ReadStep(c) \/ OpenTransaction(c)
      PROVE  TxnInv'
  <2>1. OnlyMoves(c) /\ UNCHANGED <<document, results>>
    BY <1>2, ReadEffect, MovesOnly
  <2>2. calls'[c].pc = "txn" => Active /\ calls'[c].about = answers
    BY <1>2, ReadOutcome
  <2> QED BY <2>1, <2>2, FrameTxn
<1>3. ASSUME NEW c \in Calls, SaveStep(c) \/ Commit(c) \/ CommitUnacknowledged(c)
      PROVE  TxnInv'
  <2>1. CASE NoneCurrent'
    <3>1. OpenTransactionIsCurrent'
      BY <2>1 DEF NoneCurrent, OpenTransactionIsCurrent
    <3> QED BY <1>3, <3>1, GradingKeepsOnce DEF TxnInv
  <2>2. CASE ~NoneCurrent'
    <3>1. OnlyMoves(c) /\ UNCHANGED <<document, results>> /\ calls'[c] = NoCall
      BY <1>3, <2>2, WriteEffect
    <3> QED BY <3>1, NoCallFacts, FrameTxn
  <2> QED BY <2>1, <2>2
<1>4. ASSUME NEW c \in Calls,
             WriteConflict(c) \/ DatabaseError(c) \/ ArmTimer(c) \/ DisarmTimer(c)
             \/ RefuseSubmission(c)
      PROVE  TxnInv'
  <2>1. OnlyMoves(c) /\ calls'[c].pc # "txn" /\ UNCHANGED <<document, results>>
    BY <1>4, QuietEffect, MovesOnly
  <2> QED BY <2>1, FrameTxn
<1>5. CASE CronStarts
  <2>1. /\ "cron" \in Calls /\ OnlyMoves("cron")
        /\ calls'["cron"].pc = "check"
        /\ UNCHANGED <<document, results>>
    BY <1>5, CronEffect, MovesOnly DEF CronStarts, Call
  <2> QED BY <2>1, FrameTxn
<1>6. CASE TimerFires
  <2>1. /\ "expiry" \in Calls /\ OnlyMoves("expiry")
        /\ calls'["expiry"].pc = "check"
        /\ UNCHANGED <<document, results>>
    BY <1>6, FireEffect, MovesOnly DEF TimerFires, Call
  <2> QED BY <2>1, FrameTxn
<1>7. CASE Crash
  <2>1. \A d \in Calls : calls'[d].pc # "txn"
    BY <1>7, NoCallFacts DEF Crash
  <2>2. UNCHANGED <<status, results>>
    BY <1>7 DEF Crash, document
  <2> QED BY <2>1, <2>2 DEF TxnInv, GradedOnce, OpenTransactionIsCurrent, Active
<1>8. CASE Tick \/ RefusedCall \/ UNCHANGED vars
  <2>1. UNCHANGED <<status, answers, results, calls>>
    BY <1>8 DEF Tick, RefusedCall, vars, document
  <2> QED BY <2>1 DEF TxnInv, GradedOnce, OpenTransactionIsCurrent, Active
<1> QED BY <1>1, <1>2, <1>3, <1>4, <1>5, <1>6, <1>7, <1>8 DEF SessionStep, HandlerStep

LEMMA NextTxn == Typed /\ TxnInv /\ [Next]_vars => TxnInv'
BY StepCases, StepTxn

(* What a step of the system does to status and results. *)
LEMMA OutcomeStep ==
  ASSUME Typed, TxnInv, SessionStep
  PROVE  \/ results' = results /\ status' \in {status, "expired", "abandoned"}
         \/ /\ Active
            /\ results = <<>>
            /\ results' = Append(results, answers)
            /\ status' = "completed"
<1>1. CASE \E c \in Calls : SaveStep(c) \/ Commit(c) \/ CommitUnacknowledged(c)
  BY <1>1, Grading
<1>2. CASE ~\E c \in Calls : SaveStep(c) \/ Commit(c) \/ CommitUnacknowledged(c)
  <2>1. UNCHANGED <<document, results>>
    <3>1. CASE \E c \in Requests, op \in Handlers \cup {"submitSection"},
                  q \in Questions : Begin(c, op, q)
      BY <3>1, BeginEffect
    <3>2. CASE \E c \in Calls : ReadStep(c) \/ OpenTransaction(c)
      BY <3>2, ReadEffect
    <3>3. CASE \E c \in Calls : WriteConflict(c) \/ DatabaseError(c)
                                \/ ArmTimer(c) \/ DisarmTimer(c) \/ RefuseSubmission(c)
      BY <3>3, QuietEffect
    <3>4. CASE RefusedCall \/ CronStarts \/ TimerFires \/ Tick \/ Crash \/ UNCHANGED vars
      BY <3>4 DEF RefusedCall, CronStarts, TimerFires, Tick, Crash, vars, document
    <3> QED BY <1>2, <3>1, <3>2, <3>3, <3>4 DEF SessionStep, HandlerStep
  <2> QED BY <2>1 DEF document
<1> QED BY <1>1, <1>2

(* The inductive invariant of a session. *)
THEOREM SessionInvariant == Spec => [](TypeOK /\ TimeInv /\ TxnInv)
<1>1. Spec => [](Typed /\ NoSectionCalls /\ TimeInv /\ TxnInv)
  BY InitTyped, InitTime, InitTxn, NextSession, NextTime, NextTxn, PTL DEF Spec
<1> QED BY <1>1, TypeParts, PTL

(* At most one Result is made of a session, none while it is in progress,   *)
(* one when it is completed, however many submissions run side by side.     *)
THEOREM OneResult == Spec => []GradedOnce
<1>1. TxnInv => GradedOnce
  BY DEF TxnInv
<1> QED BY <1>1, SessionInvariant, PTL

(* A transaction that will commit has read the document as it is stored.    *)
THEOREM CommitsAreCurrent == Spec => []OpenTransactionIsCurrent
<1>1. TxnInv => OpenTransactionIsCurrent
  BY DEF TxnInv
<1> QED BY <1>1, SessionInvariant, PTL

(* A step grades the answers that are stored, or changes no Result.         *)
LEMMA GradingStep ==
  ASSUME Typed, TxnInv, SessionStep
  PROVE  results' # results => results' = Append(results, answers)
BY OutcomeStep

LEMMA InitOutcome == Init => Outcome!Init
BY DEF Init, Outcome!Init

(* Seen from SessionOutcome, a step grades, closes or does nothing.         *)
LEMMA StepOfOutcome ==
  ASSUME Typed, TxnInv, SessionStep
  PROVE  [Outcome!Next]_Outcome!outcomeVars
<1> SUFFICES Outcome!Grade \/ Outcome!Close \/ UNCHANGED <<status, Len(results)>>
  BY DEF Outcome!Next, Outcome!outcomeVars
<1>1. CASE results' = results /\ status' \in {status, "expired", "abandoned"}
  BY <1>1 DEF Outcome!Close
<1>2. CASE /\ Active
           /\ results = <<>>
           /\ results' = Append(results, answers)
           /\ status' = "completed"
  <2>1. Len(results) = 0 /\ Len(results') = 1
    BY <1>2 DEF Typed
  <2> QED BY <1>2, <2>1 DEF Outcome!Grade, Active
<1> QED BY <1>1, <1>2, OutcomeStep

(* A Result is made from the answers that are stored when it is created.    *)
THEOREM ResultsHoldStoredAnswers == Spec => GradesWhatIsStored
<1>1. TypeOK /\ TxnInv /\ [Next]_vars
        => [results' # results => results' = Append(results, answers)]_vars
  BY GradingStep, TypeParts, StepCases
<1> QED BY <1>1, SessionInvariant, PTL DEF Spec, GradesWhatIsStored

(* The handlers implement SessionOutcome: no interleaving, failure or       *)
(* restart grades a session twice, or one that is closed, or reopens one.   *)
THEOREM SessionImplementsOutcome == Spec => ImplementsOutcome
<1>1. TypeOK /\ TxnInv /\ [Next]_vars => [Outcome!Next]_Outcome!outcomeVars
  BY StepOfOutcome, TypeParts, StepCases
<1> QED BY <1>1, InitOutcome, SessionInvariant, PTL
        DEF Spec, ImplementsOutcome, Outcome!Spec

-----------------------------------------------------------------------------
(* The expiry callback. *)

(* The callback is at one of its own steps. *)
ExpiryInv ==
  calls["expiry"].pc # "idle" =>
     /\ calls["expiry"].op = "expiry"
     /\ calls["expiry"].pc \in {"check", "txnRead", "txn", "recheck", "expire"}

(* What a step may do to the callback. *)
ExpiryStep ==
  \/ /\ calls'["expiry"].pc = calls["expiry"].pc
     /\ calls'["expiry"].op = calls["expiry"].op
  \/ /\ calls'["expiry"].pc # "idle"
     /\ ExpiryInv'
  \/ /\ calls'["expiry"].pc = "idle"
     /\ UNCHANGED <<crashes, faults>> => ~Active'

LEMMA ExpiryMoves ==
  ASSUME calls \in CallsType, NEW pc \in Steps,
         \/ calls' = Goto("expiry", pc)
         \/ \E b \in BOOLEAN : calls' = Invalidate(Goto("expiry", pc), b)
         \/ \E r \in CallRecord : /\ r.op = calls["expiry"].op /\ r.pc = pc
                                  /\ calls' = [calls EXCEPT !["expiry"] = r]
  PROVE  calls'["expiry"].pc = pc /\ calls'["expiry"].op = calls["expiry"].op
BY DEF Goto, Invalidate, CallsType, CallRecord, Places, Calls, Background

LEMMA ExpiryReturns ==
  ASSUME calls \in CallsType,
         \/ calls' = Return("expiry")
         \/ \E b \in BOOLEAN : calls' = Invalidate(Return("expiry"), b)
  PROVE  calls'["expiry"].pc = "idle"
BY DEF Return, Invalidate, CallsType, Calls, Background, NoCall, Call

(* A step of another call leaves the callback where it is. *)
LEMMA OthersLeaveExpiry ==
  ASSUME NEW c \in Calls, c # "expiry", OnlyMoves(c)
  PROVE  ExpiryStep
BY DEF OnlyMoves, ExpiryStep, Calls, Background

LEMMA OwnExpiryStep ==
  ASSUME Typed, ExpiryInv, NEW c \in Calls, c = "expiry",
         \/ ReadStep(c) \/ SaveStep(c) \/ ArmTimer(c) \/ DisarmTimer(c)
         \/ OpenTransaction(c) \/ Commit(c) \/ WriteConflict(c)
         \/ CommitUnacknowledged(c) \/ DatabaseError(c) \/ RefuseSubmission(c)
  PROVE  ExpiryStep
<1>1. /\ calls \in CallsType
      /\ {"txnRead", "txn", "recheck", "expire"} \subseteq Steps
  BY DEF Typed, Steps
<1>2. ASSUME NEW pc \in {"txnRead", "txn", "recheck", "expire"},
             calls["expiry"].op = "expiry",
             \/ calls' = Goto(c, pc)
             \/ \E b \in BOOLEAN : calls' = Invalidate(Goto(c, pc), b)
      PROVE  ExpiryStep
  <2>1. calls'["expiry"].pc = pc /\ calls'["expiry"].op = "expiry"
    BY <1>1, <1>2, ExpiryMoves
  <2> QED BY <2>1 DEF ExpiryStep, ExpiryInv
<1>3. ASSUME UNCHANGED <<crashes, faults>> => ~Active',
             \/ calls' = Return(c)
             \/ \E b \in BOOLEAN : calls' = Invalidate(Return(c), b)
      PROVE  ExpiryStep
  <2>1. calls'["expiry"].pc = "idle"
    BY <1>1, <1>3, ExpiryReturns
  <2> QED BY <1>3, <2>1 DEF ExpiryStep
<1>4. CASE calls[c].pc = "idle"
  BY <1>4, OnlyInProgress
<1>5. CASE calls[c].pc # "idle"
  <2>1. /\ calls[c].op = "expiry"
        /\ calls[c].pc \in {"check", "txnRead", "txn", "recheck", "expire"}
    BY <1>5 DEF ExpiryInv
  <2>2. SubmissionFails(c) = Goto(c, "recheck")
    BY <2>1 DEF SubmissionFails
  <2>3. CASE Reject(c)
    BY <1>3, <2>3 DEF Reject, document, Active
  <2>4. CASE CheckExpiry(c)
    BY <1>2, <2>1, <2>4 DEF CheckExpiry
  <2>5. CASE Recheck(c)
    <3>1. CASE Active
      BY <1>2, <2>1, <2>5, <3>1 DEF Recheck
    <3>2. CASE ~Active
      BY <1>3, <2>5, <3>2 DEF Recheck, document, Active
    <3> QED BY <3>1, <3>2
  <2>6. CASE SaveExpired(c)
    BY <1>3, <2>6 DEF SaveExpired, Active
  <2>7. CASE OpenTransaction(c)
    <3>1. CASE Active
      <4> DEFINE r == [calls["expiry"] EXCEPT !.pc = "txn", !.fresh = TRUE,
                                              !.about = answers]
      <4>1. calls' = [calls EXCEPT !["expiry"] = r]
        BY <2>7, <3>1 DEF OpenTransaction
      <4>2. r \in CallRecord /\ r.op = calls["expiry"].op /\ r.pc = "txn"
        BY <1>1 DEF CallsType, CallRecord, Places, Typed
      <4> HIDE DEF r
      <4>3. calls'["expiry"].pc = "txn" /\ calls'["expiry"].op = "expiry"
        BY <1>1, <2>1, <4>1, <4>2, ExpiryMoves
      <4> QED BY <4>3 DEF ExpiryStep, ExpiryInv
    <3>2. CASE ~Active
      BY <1>2, <2>1, <2>2, <2>7, <3>2 DEF OpenTransaction
    <3> QED BY <3>1, <3>2
  <2>8. CASE Commit(c)
    BY <1>3, <2>8 DEF Commit, Active
  <2>9. CASE WriteConflict(c)
    BY <1>2, <2>1, <2>2, <2>9 DEF WriteConflict
  <2>10. CASE CommitUnacknowledged(c)
    BY <1>2, <2>1, <2>2, <2>10 DEF CommitUnacknowledged
  <2>11. CASE DatabaseError(c)
    <3>1. faults' # faults
      BY <2>11 DEF DatabaseError, Typed
    <3>2. calls' = Goto(c, "recheck") \/ calls' = Return(c)
      BY <2>2, <2>11 DEF DatabaseError
    <3> QED BY <1>2, <1>3, <2>1, <3>1, <3>2
  <2>12. ~ \/ CheckTime(c) \/ CheckRejoin(c) \/ CheckSocketRejoin(c) \/ CheckSocket(c)
           \/ CheckAbandon(c) \/ CheckActivity(c) \/ Load(c)
    BY <2>1 DEF CheckTime, CheckRejoin, CheckSocketRejoin, CheckSocket, CheckAbandon,
                CheckActivity, Load, Read, Activity
  <2>13. ~ \/ SaveAbandoned(c) \/ SaveConnected(c) \/ SaveDisconnected(c)
           \/ SaveActivity(c) \/ ArmTimer(c) \/ DisarmTimer(c) \/ RefuseSubmission(c)
    BY <2>1 DEF SaveAbandoned, SaveConnected, SaveDisconnected, SaveActivity, Write,
                ArmTimer, DisarmTimer, RefuseSubmission
  <2> QED BY <2>3, <2>4, <2>5, <2>6, <2>7, <2>8, <2>9, <2>10, <2>11, <2>12, <2>13
             DEF ReadStep, SaveStep
<1> QED BY <1>4, <1>5

LEMMA StepExpiry ==
  ASSUME Typed, ExpiryInv, SessionStep
  PROVE  ExpiryStep
<1>1. ASSUME NEW c \in Requests, NEW op \in Handlers \cup {"submitSection"},
             NEW q \in Questions, Begin(c, op, q)
      PROVE  ExpiryStep
  <2>1. c \in Calls /\ c # "expiry"
    BY SessionAssumption DEF Calls, Background
  <2> QED BY <1>1, <2>1, BeginEffect, MovesOnly, OthersLeaveExpiry
<1>2. ASSUME NEW c \in Calls, ReadStep(c) \/ OpenTransaction(c)
      PROVE  ExpiryStep
  BY <1>2, OwnExpiryStep, ReadEffect, MovesOnly, OthersLeaveExpiry
<1>3. ASSUME NEW c \in Calls, SaveStep(c) \/ Commit(c) \/ CommitUnacknowledged(c)
      PROVE  ExpiryStep
  BY <1>3, OwnExpiryStep, WriteEffect, OthersLeaveExpiry
<1>4. ASSUME NEW c \in Calls,
             WriteConflict(c) \/ DatabaseError(c) \/ ArmTimer(c) \/ DisarmTimer(c)
             \/ RefuseSubmission(c)
      PROVE  ExpiryStep
  BY <1>4, OwnExpiryStep, QuietEffect, MovesOnly, OthersLeaveExpiry
<1>5. CASE CronStarts
  BY <1>5, CronEffect, MovesOnly, OthersLeaveExpiry
<1>6. CASE TimerFires
  <2>1. calls'["expiry"] = Call("expiry", "check")
    BY <1>6, FireEffect
  <2> QED BY <2>1 DEF ExpiryStep, ExpiryInv, Call
<1>7. CASE Crash
  <2>1. "expiry" \in Calls
    BY DEF Calls, Background
  <2>2. calls'["expiry"].pc = "idle"
    BY <1>7, <2>1 DEF Crash, NoCall, Call
  <2>3. crashes' # crashes
    BY <1>7 DEF Crash, Typed
  <2> QED BY <2>2, <2>3 DEF ExpiryStep
<1>8. CASE Tick \/ RefusedCall \/ UNCHANGED vars
  BY <1>8 DEF Tick, RefusedCall, vars, ExpiryStep
<1> QED BY <1>1, <1>2, <1>3, <1>4, <1>5, <1>6, <1>7, <1>8 DEF SessionStep, HandlerStep

LEMMA InitExpiry == Init => ExpiryInv
BY DEF Init, ExpiryInv, NoCall, Call, Calls, Background

(* What a step may do to the callback keeps ExpiryInv, and ends it only     *)
(* with the session.                                                        *)
LEMMA ExpiryStepKeeps ==
  ASSUME ExpiryInv, ExpiryStep
  PROVE  /\ ExpiryInv'
         /\ calls["expiry"].pc # "idle" /\ calls'["expiry"].pc = "idle"
            /\ UNCHANGED <<crashes, faults>>
               => ~Active'
BY DEF ExpiryStep, ExpiryInv

(* The expiry callback ends only when the session has, whatever concurrent  *)
(* saves do to its submission, unless a restart or a failure cuts it short. *)
THEOREM ExpiryEndsTheSession == Spec => ExpiryCloses
<1>1. TypeOK /\ ExpiryInv /\ [Next]_vars
        => /\ ExpiryInv'
           /\ [/\ calls["expiry"].pc # "idle" /\ calls'["expiry"].pc = "idle"
               /\ UNCHANGED <<crashes, faults>>
               => ~Active']_vars
  BY TypeParts, StepCases, StepExpiry, ExpiryStepKeeps
<1> QED BY <1>1, InitExpiry, TypeCorrect, PTL DEF Spec, ExpiryCloses

-----------------------------------------------------------------------------
(* Tests with sections. *)

(* The steps that only SectionTimes has. *)
SubmitStep(c) == CheckSection(c) \/ SaveSection(c) \/ ArmSection(c)

SectionCrash == Crash /\ shown' = elapsed /\ UNCHANGED <<section, completed, from, ranOut>>

LEMMA SectionCases ==
  ASSUME [SectionNext]_allVars
  PROVE  \/ HandlerStep /\ UNCHANGED sectionVars
         \/ \E c \in Calls : SubmitStep(c)
         \/ SectionTimerFires \/ SectionTick \/ SectionCrash
         \/ UNCHANGED allVars
<1>1. ASSUME NEW c \in Calls, SectionStep(c)
      PROVE  SubmitStep(c) \/ (HandlerStep /\ UNCHANGED sectionVars)
  BY <1>1 DEF SectionStep, SubmitStep, HandlerStep, SaveActivityInSection, SaveStep,
              SubmissionStep
<1>2. ASSUME \/ \E c \in Requests, op \in Handlers, q \in Questions : Begin(c, op, q)
             \/ \E c \in Requests : BeginSection(c)
             \/ RefusedCall
      PROVE  HandlerStep
  BY <1>2 DEF HandlerStep, BeginSection
<1>3. SectionCronStarts => HandlerStep /\ UNCHANGED sectionVars
  BY DEF SectionCronStarts, HandlerStep
<1> QED BY <1>1, <1>2, <1>3 DEF SectionNext, SectionCrash

(* Every step is one of TestSession's kind or one of the three.             *)
LEMMA SectionSteps ==
  ASSUME [SectionNext]_allVars
  PROVE  SessionStep \/ \E c \in Calls : SubmitStep(c)
BY SectionCases
   DEF SessionStep, SectionTimerFires, SectionTick, SectionCrash, allVars, vars

(* submitSection is at its own steps, and clients alone call it and rejoin. *)
SectionCalls ==
    \A d \in Calls :
       /\ calls[d].pc \in {"section", "next"} => calls[d].op = "submitSection"
       /\ calls[d].op \in {"rejoin", "submitSection"} => d \in Requests

SectionTypeOK ==
    /\ Typed
    /\ SectionCalls
    /\ section \in Sections
    /\ completed \in SUBSET Sections
    /\ from \in [Calls -> Sections]
    /\ shown \in 0..TimeLimit
    /\ ranOut \in BOOLEAN

(* A call that is between the saves of submitSection is not moved by the    *)
(* steps of other handlers; a step into a place of submitSection is its own.*)
LEMMA StepCalls ==
  ASSUME Typed, HandlerStep \/ TimerFires, NEW d \in Calls
  PROVE  \/ calls'[d].op = calls[d].op /\ calls'[d].pc = calls[d].pc
         \/ /\ calls[d].pc \in Steps /\ calls'[d].pc \in Steps
            /\ d \in Requests \/ calls'[d].op \in {calls[d].op, "none", "view", "cron", "expiry"}
<1> DEFINE Goal == \/ calls'[d].op = calls[d].op /\ calls'[d].pc = calls[d].pc
                   \/ /\ calls[d].pc \in Steps /\ calls'[d].pc \in Steps
                      /\ \/ d \in Requests
                         \/ calls'[d].op \in {calls[d].op, "none", "view", "cron", "expiry"}
<1>1. ASSUME NEW c \in Calls, OnlyMoves(c),
             calls[c].pc \in Steps, calls'[c].pc \in Steps,
             \/ c \in Requests
             \/ calls'[c].op \in {calls[c].op, "none", "view", "cron", "expiry"}
      PROVE  Goal
  BY <1>1 DEF OnlyMoves
<1>2. ASSUME NEW c \in Requests, NEW op \in Handlers \cup {"submitSection"},
             NEW q \in Questions, Begin(c, op, q)
      PROVE  Goal
  <2>1. c \in Calls /\ OnlyMoves(c) /\ calls'[c].pc \in Steps
    BY <1>2, BeginEffect, MovesOnly DEF Steps
  <2>2. calls[c].pc \in Steps
    BY <1>2 DEF Begin, Steps
  <2> QED BY <1>1, <2>1, <2>2
<1>3. ASSUME NEW c \in Calls, OnlyMoves(c), Continues(c), calls[c].pc \in Steps
      PROVE  Goal
  BY <1>1, <1>3 DEF Continues
<1>4. ASSUME NEW c \in Calls, ReadStep(c) \/ OpenTransaction(c)
      PROVE  Goal
  BY <1>3, <1>4, ReadEffect, MovesOnly, OnlyInProgress
<1>5. ASSUME NEW c \in Calls, SaveStep(c) \/ Commit(c) \/ CommitUnacknowledged(c)
      PROVE  Goal
  BY <1>3, <1>5, WriteEffect, OnlyInProgress
<1>6. ASSUME NEW c \in Calls,
             WriteConflict(c) \/ DatabaseError(c) \/ ArmTimer(c) \/ DisarmTimer(c)
             \/ RefuseSubmission(c)
      PROVE  Goal
  BY <1>3, <1>6, QuietEffect, MovesOnly, OnlyInProgress
<1>7. CASE CronStarts \/ TimerFires
  <2>1. PICK c \in {"cron", "expiry"} :
           /\ c \in Calls /\ OnlyMoves(c)
           /\ calls'[c] = Call(c, "check") /\ calls[c].pc = "idle"
    BY <1>7, CronEffect, FireEffect, MovesOnly DEF CronStarts, TimerFires
  <2>2. /\ calls'[c].op \in {"cron", "expiry"}
        /\ calls'[c].pc \in Steps /\ calls[c].pc \in Steps
    BY <2>1 DEF Call, Steps
  <2> QED BY <1>1, <2>1, <2>2
<1>8. CASE RefusedCall
  BY <1>8 DEF RefusedCall
<1> QED BY <1>2, <1>4, <1>5, <1>6, <1>7, <1>8 DEF HandlerStep

LEMMA StepSectionCalls ==
  ASSUME Typed, SectionCalls, SessionStep
  PROVE  SectionCalls'
<1>1. CASE HandlerStep \/ TimerFires
  <2>1. ASSUME NEW d \in Calls
        PROVE  /\ calls'[d].pc \in {"section", "next"} => calls'[d].op = "submitSection"
               /\ calls'[d].op \in {"rejoin", "submitSection"} => d \in Requests
    BY <1>1, StepCalls DEF SectionCalls, Steps
  <2> QED BY <2>1 DEF SectionCalls
<1>2. CASE Crash
  BY <1>2, NoCallIsIdle DEF Crash, SectionCalls
<1>3. CASE Tick \/ UNCHANGED vars
  BY <1>3 DEF Tick, vars, SectionCalls
<1> QED BY <1>1, <1>2, <1>3 DEF SessionStep

(* submitSection: its call moves, the status and the Results stay.          *)
LEMMA SubmitEffect ==
  ASSUME SectionTypeOK, NEW c \in Calls, SubmitStep(c)
  PROVE  /\ OnlyMoves(c)
         /\ c \in Requests /\ c # "expiry" /\ calls[c].op = "submitSection"
         /\ calls[c].pc \in {"check", "section", "next"}
         /\ \/ calls'[c].op = "none" /\ calls'[c].pc = "idle"
            \/ calls'[c].op = "submitSection" /\ calls'[c].pc \in {"section", "next"}
         /\ calls'[c].pc = "section" => calls[c].pc = "check"
         /\ calls'[c].pc = "next" => calls[c].pc = "section"
         /\ UNCHANGED <<document, results, crashes, faults>>
<1>1. /\ calls \in CallsType /\ calls[c] \in CallRecord /\ connected \in BOOLEAN
  BY DEF SectionTypeOK, Typed, CallsType
<1>2. calls[c].op = "submitSection" /\ calls[c].pc \in {"check", "section", "next"}
  BY DEF SectionTypeOK, SectionCalls, SubmitStep, CheckSection, SaveSection, ArmSection,
         Read
<1>3. c \in Requests /\ c # "expiry"
  BY <1>2, SessionAssumption DEF SectionTypeOK, SectionCalls, Background
<1>4. UNCHANGED <<document, results, crashes, faults>>
  BY DEF SubmitStep, CheckSection, SaveSection, ArmSection, Read
<1>5. ASSUME calls' = Return(c)
      PROVE  OnlyMoves(c) /\ calls'[c].op = "none" /\ calls'[c].pc = "idle"
  BY <1>1, <1>5, ReturnMoves, NoCallIsIdle, MovesOnly
<1>6. ASSUME NEW cs \in CallsType, NEW b \in BOOLEAN, calls' = Invalidate(cs, b),
             \A d \in Calls \ {c} : cs[d] = calls[d], cs[c].pc # "txn"
      PROVE  OnlyMoves(c) /\ calls'[c].op = cs[c].op /\ calls'[c].pc = cs[c].pc
  BY <1>1, <1>6, WriteMoves
<1>7. /\ OnlyMoves(c)
      /\ \/ calls'[c].op = "none" /\ calls'[c].pc = "idle"
         \/ calls'[c].op = "submitSection" /\ calls'[c].pc \in {"section", "next"}
      /\ calls'[c].pc = "section" => calls[c].pc = "check"
      /\ calls'[c].pc = "next" => calls[c].pc = "section"
  <2>1. CASE calls' = Return(c)
    BY <1>5, <2>1
  <2>2. CASE CheckSection(c) /\ calls' # Return(c)
    <3> DEFINE r == [calls[c] EXCEPT !.pc = "section", !.sees = connected]
    <3>1. calls' = [calls EXCEPT ![c] = r] /\ calls[c].pc = "check"
      BY <2>2 DEF CheckSection, Read
    <3>2. r \in CallRecord /\ r.pc = "section" /\ r.op = calls[c].op
      BY <1>1 DEF CallRecord, Places
    <3> HIDE DEF r
    <3> QED BY <1>1, <1>2, <3>1, <3>2, ReplaceMoves, MovesOnly
  <2>3. CASE SaveSection(c) /\ calls' # Return(c)
    <3>1. PICK b \in BOOLEAN : \/ calls' = Invalidate(Goto(c, "next"), b)
                               \/ calls' = Invalidate(Return(c), b)
      BY <2>3 DEF SaveSection
    <3>2. calls[c].pc = "section"
      BY <2>3 DEF SaveSection
    <3>3. CASE calls' = Invalidate(Return(c), b)
      <4>1. /\ Return(c) \in CallsType
            /\ \A d \in Calls \ {c} : Return(c)[d] = calls[d]
            /\ Return(c)[c] = NoCall
        BY <1>1, NoCallType DEF Return, CallsType
      <4> QED BY <1>6, <3>3, <4>1, NoCallIsIdle
    <3>4. CASE calls' = Invalidate(Goto(c, "next"), b)
      <4>1. /\ Goto(c, "next") \in CallsType
            /\ \A d \in Calls \ {c} : Goto(c, "next")[d] = calls[d]
            /\ Goto(c, "next")[c].pc = "next"
            /\ Goto(c, "next")[c].op = calls[c].op
        BY <1>1 DEF Goto, CallsType, CallRecord, Places
      <4> QED BY <1>2, <1>6, <3>2, <3>4, <4>1
    <3> QED BY <3>1, <3>3, <3>4
  <2>4. CASE ArmSection(c)
    BY <2>1, <2>4 DEF ArmSection
  <2> QED BY <2>1, <2>2, <2>3, <2>4 DEF SubmitStep
<1> QED BY <1>2, <1>3, <1>4, <1>7

(* What submitSection does to the sections and their time.                  *)
LEMMA SubmitTimes ==
  ASSUME SectionTypeOK, NEW c \in Calls, SubmitStep(c)
  PROVE  /\ UNCHANGED ranOut
         /\ \/ UNCHANGED <<elapsed, timer, shown>>
            \/ calls'[c].pc = "next" /\ elapsed' = 0 /\ UNCHANGED <<timer, shown>>
            \/ ArmSection(c)
<1>1. calls \in CallsType /\ calls[c] \in CallRecord
  BY DEF SectionTypeOK, Typed, CallsType
<1>2. CASE CheckSection(c)
  BY <1>2 DEF CheckSection, Read
<1>3. CASE SaveSection(c)
  <2>1. UNCHANGED <<timer, shown, ranOut>>
    BY <1>3 DEF SaveSection
  <2>2. CASE UNCHANGED elapsed
    BY <2>1, <2>2
  <2>3. CASE ~UNCHANGED elapsed
    <3>1. elapsed' = 0 /\ \E b \in BOOLEAN : calls' = Invalidate(Goto(c, "next"), b)
      BY <1>3, <2>3 DEF SaveSection
    <3>2. Goto(c, "next") \in CallsType /\ Goto(c, "next")[c].pc = "next"
      BY <1>1 DEF Goto, CallsType, CallRecord, Places
    <3> QED BY <2>1, <3>1, <3>2, InvalidateFacts
  <2> QED BY <2>2, <2>3
<1>4. CASE ArmSection(c)
  BY <1>4 DEF ArmSection
<1> QED BY <1>2, <1>3, <1>4 DEF SubmitStep

(* With sections no time is lost to rounding. *)
LEMMA SectionsExact == Earliest = TimeLimit
BY SectionAssumption DEF Earliest

(* The timer that submitSection arms has at least what the section has left.*)
LEMMA ArmedSection ==
  ASSUME Typed, NEW c \in Calls, ArmSection(c)
  PROVE  /\ UNCHANGED elapsed /\ shown' = elapsed
         /\ timer' \in SUBSET (0..TimeLimit)
         /\ elapsed = TimeLimit \/ \A t \in timer' : t + elapsed >= TimeLimit
<1>1. /\ elapsed \in 0..TimeLimit /\ TimeLimit \in Nat
      /\ timer \in SUBSET (0..TimeLimit)
  BY SessionAssumption DEF Typed
<1>2. LeftInCopy(c) \in 0..TimeLimit /\ LeftInCopy(c) + elapsed >= TimeLimit
  BY <1>1, LeftFacts, SectionsExact DEF LeftInCopy
<1>3. CASE LeftInCopy(c) > 0
  <2>1. timer' = {LeftInCopy(c)}
    BY <1>3 DEF ArmSection
  <2> QED BY <1>1, <1>2, <2>1 DEF ArmSection
<1>4. CASE ~(LeftInCopy(c) > 0)
  <2>1. timer' = timer /\ elapsed = TimeLimit
    BY <1>1, <1>2, <1>4, SessionAssumption DEF ArmSection
  <2> QED BY <1>1, <2>1 DEF ArmSection
<1> QED BY <1>3, <1>4

LEMMA SectionInitType == SectionInit => SectionTypeOK
<1> SUFFICES ASSUME SectionInit PROVE SectionTypeOK
  OBVIOUS
<1>1. Typed /\ NoSectionCalls
  BY InitTyped DEF SectionInit
<1>2. \A d \in Calls : calls[d] = Call("start", "arm") \/ calls[d] = NoCall
  BY DEF SectionInit, Init
<1>3. SectionCalls
  BY <1>2, NoCallIsIdle DEF SectionCalls, Call
<1>4. 0 \in Sections
  BY SectionAssumption DEF Sections
<1>5. shown \in 0..TimeLimit /\ completed \in SUBSET Sections
  BY SessionAssumption DEF SectionInit
<1>6. from \in [Calls -> Sections] /\ ranOut \in BOOLEAN /\ section \in Sections
  BY <1>4 DEF SectionInit
<1> QED BY <1>1, <1>3, <1>5, <1>6 DEF SectionTypeOK

LEMMA SectionNextType ==
  ASSUME SectionTypeOK, [SectionNext]_allVars
  PROVE  SectionTypeOK'
<1>1. CASE \E c \in Calls : SubmitStep(c)
  <2>1. PICK c \in Calls : SubmitStep(c)
    BY <1>1
  <2>2. /\ calls' \in CallsType /\ elapsed' \in 0..TimeLimit
        /\ timer' \in SUBSET (0..TimeLimit) /\ shown' \in 0..TimeLimit
        /\ ranOut' \in BOOLEAN
    <3>1. /\ elapsed \in 0..TimeLimit /\ timer \in SUBSET (0..TimeLimit)
          /\ shown \in 0..TimeLimit /\ 0 \in 0..TimeLimit
      BY SessionAssumption DEF SectionTypeOK, Typed
    <3>2. /\ elapsed' \in 0..TimeLimit /\ timer' \in SUBSET (0..TimeLimit)
          /\ shown' \in 0..TimeLimit
      <4>1. CASE ArmSection(c)
        BY <3>1, <4>1, ArmedSection DEF SectionTypeOK
      <4>2. CASE ~ArmSection(c)
        BY <2>1, <3>1, <4>2, SubmitTimes
      <4> QED BY <4>1, <4>2
    <3>3. ranOut' \in BOOLEAN
      BY <2>1, SubmitTimes, Zenon DEF SectionTypeOK
    <3> QED BY <2>1, <3>2, <3>3, SubmitEffect DEF OnlyMoves
  <2>3. Typed'
    BY <2>1, <2>2, SubmitEffect DEF SectionTypeOK, Typed, document
  <2>4. SectionCalls'
    BY <2>1, SubmitEffect DEF OnlyMoves, SectionTypeOK, SectionCalls
  <2>5. from[c] \in Sections
    BY DEF SectionTypeOK
  <2>6. section' \in Sections /\ completed' \in SUBSET Sections
    BY <2>1, <2>5
       DEF SubmitStep, CheckSection, SaveSection, ArmSection, SectionTypeOK
  <2>7. from' \in [Calls -> Sections]
    BY <2>1 DEF SubmitStep, CheckSection, SaveSection, ArmSection, SectionTypeOK
  <2> QED BY <2>2, <2>3, <2>4, <2>6, <2>7 DEF SectionTypeOK
<1>2. CASE SessionStep /\ ~\E c \in Calls : SubmitStep(c)
  <2>1. Typed' /\ SectionCalls'
    BY <1>2, StepTyped, StepSectionCalls DEF SectionTypeOK
  <2>2. UNCHANGED <<section, completed, from>>
    BY <1>2, SectionCases
       DEF sectionVars, SectionTimerFires, SectionTick, SectionCrash, allVars
  <2>3. shown' \in 0..TimeLimit /\ ranOut' \in BOOLEAN
    <3>1. elapsed \in 0..TimeLimit /\ shown \in 0..TimeLimit /\ ranOut \in BOOLEAN
      BY DEF SectionTypeOK, Typed
    <3>2. CASE SectionTick
      <4>1. shown' = IF shown < TimeLimit THEN shown + 1 ELSE shown
        BY <3>2 DEF SectionTick
      <4>2. shown' \in 0..TimeLimit
        BY <3>1, <4>1, SessionAssumption
      <4>3. ranOut' \in BOOLEAN
        BY <3>2 DEF SectionTick
      <4> QED BY <4>2, <4>3
    <3>3. CASE ~SectionTick
      BY <1>2, <3>1, <3>3, SectionCases
         DEF sectionVars, SectionTimerFires, SectionCrash, allVars
    <3> QED BY <3>2, <3>3
  <2> QED BY <2>1, <2>2, <2>3 DEF SectionTypeOK
<1> QED BY <1>1, <1>2, SectionSteps

(* The types of a session with sections, for any number of concurrent       *)
(* calls; in particular the current section exists.                         *)
THEOREM SectionTypes == SectionSpec => []SectionTypeOK
BY SectionInitType, SectionNextType, PTL DEF SectionSpec

(* The steps of submitSection leave status and Results alone, and open no   *)
(* transaction.                                                             *)
LEMMA SubmitTxn ==
  ASSUME SectionTypeOK, TxnInv, NEW c \in Calls, SubmitStep(c)
  PROVE  TxnInv'
<1>1. OnlyMoves(c) /\ UNCHANGED <<document, results>> /\ calls'[c].pc # "txn"
  BY SubmitEffect
<1> QED BY <1>1, FrameTxn

LEMMA SubmitExpiry ==
  ASSUME SectionTypeOK, NEW c \in Calls, SubmitStep(c)
  PROVE  ExpiryStep
BY SubmitEffect, OthersLeaveExpiry

LEMMA SectionInvariant == SectionSpec => [](SectionTypeOK /\ TxnInv /\ ExpiryInv)
<1>1. SectionInit => SectionTypeOK /\ TxnInv /\ ExpiryInv
  BY SectionInitType, InitTxn, InitExpiry DEF SectionInit
<1>2. SectionTypeOK /\ TxnInv /\ ExpiryInv /\ [SectionNext]_allVars
        => SectionTypeOK' /\ TxnInv' /\ ExpiryInv'
  <2> SUFFICES ASSUME SectionTypeOK, TxnInv, ExpiryInv, [SectionNext]_allVars
               PROVE  TxnInv' /\ ExpiryInv'
    BY SectionNextType
  <2>1. CASE SessionStep
    BY <2>1, StepTxn, StepExpiry, ExpiryStepKeeps DEF SectionTypeOK
  <2>2. CASE \E c \in Calls : SubmitStep(c)
    BY <2>2, SubmitTxn, SubmitExpiry, ExpiryStepKeeps
  <2> QED BY <2>1, <2>2, SectionSteps
<1> QED BY <1>1, <1>2, PTL DEF SectionSpec

(* With sections, too, a session is graded at most once, from the answers   *)
(* that are stored, and closed for good; however many submissions of it and *)
(* of its sections run side by side.                                        *)
THEOREM SectionsGradedOnce == SectionSpec => [](GradedOnce /\ OpenTransactionIsCurrent)
<1>1. TxnInv => GradedOnce /\ OpenTransactionIsCurrent
  BY DEF TxnInv
<1> QED BY <1>1, SectionInvariant, PTL

(* What a commit writes are the answers stored at that moment.              *)
THEOREM SectionsHoldStoredAnswers == SectionSpec => GradesWhatIsStored
<1>1. SectionTypeOK /\ TxnInv /\ [SectionNext]_allVars
        => [results' # results => results' = Append(results, answers)]_vars
  <2> SUFFICES ASSUME SectionTypeOK, TxnInv, [SectionNext]_allVars
               PROVE  results' # results => results' = Append(results, answers)
    OBVIOUS
  <2>1. CASE SessionStep
    BY <2>1, GradingStep DEF SectionTypeOK
  <2>2. CASE \E c \in Calls : SubmitStep(c)
    BY <2>2, SubmitEffect
  <2> QED BY <2>1, <2>2, SectionSteps
<1> QED BY <1>1, SectionInvariant, PTL DEF SectionSpec, GradesWhatIsStored

(* A session with sections implements SessionOutcome as well.               *)
THEOREM SectionsImplementOutcome == SectionSpec => ImplementsOutcome
<1>1. SectionInit => Outcome!Init
  BY InitOutcome DEF SectionInit
<1>2. SectionTypeOK /\ TxnInv /\ [SectionNext]_allVars
        => [Outcome!Next]_Outcome!outcomeVars
  <2> SUFFICES ASSUME SectionTypeOK, TxnInv, [SectionNext]_allVars
               PROVE  [Outcome!Next]_Outcome!outcomeVars
    OBVIOUS
  <2>1. CASE SessionStep
    BY <2>1, StepOfOutcome DEF SectionTypeOK
  <2>2. CASE \E c \in Calls : SubmitStep(c)
    <3>1. UNCHANGED <<status, results>>
      BY <2>2, SubmitEffect DEF document
    <3> QED BY <3>1 DEF Outcome!outcomeVars
  <2> QED BY <2>1, <2>2, SectionSteps
<1> QED BY <1>1, <1>2, SectionInvariant, PTL
        DEF SectionSpec, ImplementsOutcome, Outcome!Spec

(* The expiry callback of a test with sections, too, ends only when the     *)
(* session has, unless a restart cuts it short.                             *)
THEOREM SectionExpiryEndsTheSession == SectionSpec => ExpiryCloses
<1>1. SectionTypeOK /\ ExpiryInv /\ [SectionNext]_allVars
        => [/\ calls["expiry"].pc # "idle" /\ calls'["expiry"].pc = "idle"
            /\ UNCHANGED <<crashes, faults>>
            => ~Active']_vars
  <2> SUFFICES ASSUME SectionTypeOK, ExpiryInv, [SectionNext]_allVars
               PROVE  ExpiryStep
    BY ExpiryStepKeeps
  <2>1. CASE SessionStep
    BY <2>1, StepExpiry DEF SectionTypeOK
  <2>2. CASE \E c \in Calls : SubmitStep(c)
    BY <2>2, SubmitExpiry
  <2> QED BY <2>1, <2>2, SectionSteps
<1> QED BY <1>1, SectionInvariant, PTL DEF SectionSpec, ExpiryCloses

-----------------------------------------------------------------------------
(* The time of a section, for a student who makes one call at a time.  The  *)
(* timer and the handlers that saw a limit belong to a section the student  *)
(* was told of: submitSection resets the start of the section before it     *)
(* replaces the timer, so that what they are compared with is shown, and    *)
(* ranOut once that has reached the limit.                                  *)
OneRequestAtATime == \A c, d \in Requests : c = d

NoneMovedOn == \A c \in Calls : calls[c].pc # "next"

SectionTimeInv ==
    /\ elapsed <= shown
    /\ shown = TimeLimit => ranOut
    /\ status = "expired" \/ calls["expiry"].pc # "idle" => ranOut
    /\ \A t \in timer : t + shown >= TimeLimit
    /\ NoneMovedOn => \A t \in timer : t + elapsed >= TimeLimit
    /\ \A d \in Calls : TimesOK(calls[d])
    /\ \A d \in Calls : SawLimit(calls[d]) => ranOut

LEMMA SectionInitTime == SectionInit => SectionTimeInv
BY InitCallsTimes, SessionAssumption DEF SectionInit, Init, SectionTimeInv

LEMMA SectionHandlerTime ==
  ASSUME SectionTypeOK, SectionTimeInv, HandlerStep, UNCHANGED sectionVars
  PROVE  SectionTimeInv'
<1>1. /\ elapsed \in 0..TimeLimit /\ shown \in 0..TimeLimit /\ TimeLimit \in Nat
      /\ elapsed <= shown
  BY SessionAssumption DEF SectionTypeOK, Typed, SectionTimeInv
<1>2. UNCHANGED <<shown, ranOut>>
  BY DEF sectionVars
<1>3. HandlerTimes
  BY HandlerStepTimes DEF SectionTypeOK, SectionTimeInv
<1>4. elapsed >= Earliest => ranOut
  BY <1>1, SectionsExact DEF SectionTimeInv
<1>5. \A d \in Calls : TimesOK(calls[d])'
  BY <1>3 DEF HandlerTimes, TimesOK
<1>6. \A d \in Calls : SawLimit(calls[d])' => ranOut'
  BY <1>2, <1>3, <1>4 DEF HandlerTimes, SectionTimeInv, SawLimit
<1>7. status' = "expired" \/ calls'["expiry"].pc # "idle" => ranOut'
  BY <1>2, <1>3 DEF HandlerTimes, SectionTimeInv
<1>8. NoneMovedOn' => NoneMovedOn
  BY StepCalls DEF SectionTypeOK, NoneMovedOn, Steps
<1>9. /\ \A t \in timer' : t + shown' >= TimeLimit
      /\ NoneMovedOn' => \A t \in timer' : t + elapsed' >= TimeLimit
  <2>1. UNCHANGED elapsed
    BY <1>3 DEF HandlerTimes
  <2>2. CASE timer' = timer \/ timer' = {}
    BY <1>2, <1>8, <2>1, <2>2 DEF SectionTimeInv
  <2>3. CASE \E d \in Calls : ArmTimer(d) /\ timer' # timer
    <3>1. PICK r \in 1..TimeLimit : timer' = {r} /\ r + elapsed >= TimeLimit
      BY <2>3, ArmedLongEnough, SectionsExact DEF SectionTypeOK, SectionTimeInv
    <3> QED BY <1>1, <1>2, <2>1, <3>1
  <2> QED BY <1>3, <2>2, <2>3 DEF HandlerTimes
<1>10. elapsed' <= shown' /\ shown' = TimeLimit => ranOut'
  BY <1>2, <1>3 DEF HandlerTimes, SectionTimeInv
<1>11. elapsed' <= shown'
  BY <1>1, <1>2, <1>3 DEF HandlerTimes
<1> QED BY <1>5, <1>6, <1>7, <1>9, <1>10, <1>11 DEF SectionTimeInv

(* Only submitSection changes the section, and while it does, no            *)
(* rejoinSession is in progress that has computed the time of another one.  *)
LEMMA SectionSubmitTime ==
  ASSUME OneRequestAtATime, SectionTypeOK, SectionTimeInv, NEW c \in Calls, SubmitStep(c)
  PROVE  SectionTimeInv'
<1>1. /\ elapsed \in 0..TimeLimit /\ shown \in 0..TimeLimit /\ TimeLimit \in Nat
      /\ timer \in SUBSET (0..TimeLimit) /\ elapsed <= shown
  BY SessionAssumption DEF SectionTypeOK, Typed, SectionTimeInv
<1>2. /\ OnlyMoves(c) /\ c \in Requests /\ c # "expiry"
      /\ calls'[c].op \in {"none", "submitSection"}
      /\ calls'[c].pc \in {"idle", "section", "next"}
      /\ UNCHANGED status /\ UNCHANGED ranOut
  BY SubmitEffect, SubmitTimes DEF document
<1>3. "expiry" \in Calls \ {c}
  BY <1>2 DEF Calls, Background
<1>4. calls'["expiry"].pc = calls["expiry"].pc
  BY <1>2, <1>3 DEF OnlyMoves
<1>5. \A d \in Calls : TimesOK(calls[d])'
  <2>1. TimesOK(calls[c])'
    BY <1>2 DEF TimesOK
  <2>2. ASSUME NEW d \in Calls \ {c} PROVE TimesOK(calls[d])'
    <3>1. calls[d].op # "rejoin"
      BY <1>2 DEF SectionTypeOK, SectionCalls, OneRequestAtATime
    <3> QED BY <1>2, <3>1 DEF OnlyMoves, TimesOK, SectionTimeInv
  <2> QED BY <2>1, <2>2
<1>6. \A d \in Calls : SawLimit(calls[d])' => ranOut'
  BY <1>2 DEF OnlyMoves, SawLimit, SectionTimeInv
<1>7. NoneMovedOn' /\ ~ArmSection(c) => NoneMovedOn
  <2>1. ~ArmSection(c) => calls[c].pc # "next"
    BY DEF SubmitStep, CheckSection, SaveSection, Read
  <2> QED BY <1>2, <2>1 DEF OnlyMoves, NoneMovedOn
<1>8. /\ elapsed' <= shown' /\ (shown' = TimeLimit => ranOut')
      /\ \A t \in timer' : t + shown' >= TimeLimit
      /\ NoneMovedOn' => \A t \in timer' : t + elapsed' >= TimeLimit
  <2>1. CASE ArmSection(c)
    <3>1. /\ UNCHANGED elapsed /\ shown' = elapsed
          /\ timer' \in SUBSET (0..TimeLimit)
          /\ elapsed = TimeLimit \/ \A t \in timer' : t + elapsed >= TimeLimit
      BY <2>1, ArmedSection DEF SectionTypeOK
    <3>2. elapsed = TimeLimit => ranOut
      BY <1>1 DEF SectionTimeInv
    <3>3. elapsed' <= shown'
      BY <1>1, <3>1
    <3>4. shown' = TimeLimit => ranOut'
      BY <1>2, <3>1, <3>2
    <3>5. \A t \in timer' : t + elapsed >= TimeLimit
      <4>1. \A t \in 0..TimeLimit : elapsed = TimeLimit => t + elapsed >= TimeLimit
        BY <1>1
      <4> QED BY <3>1, <4>1
    <3>6. /\ \A t \in timer' : t + shown' >= TimeLimit
          /\ \A t \in timer' : t + elapsed' >= TimeLimit
      BY <3>1, <3>5
    <3> QED BY <3>3, <3>4, <3>6
  <2>2. CASE UNCHANGED <<elapsed, timer, shown>> /\ ~ArmSection(c)
    BY <1>1, <1>2, <1>7, <2>2 DEF SectionTimeInv
  <2>3. CASE calls'[c].pc = "next" /\ elapsed' = 0 /\ UNCHANGED <<timer, shown>>
    <3>1. ~NoneMovedOn'
      BY <2>3 DEF NoneMovedOn
    <3> QED BY <1>1, <1>2, <2>3, <3>1 DEF SectionTimeInv
  <2> QED BY <2>1, <2>2, <2>3, SubmitTimes
<1> QED BY <1>2, <1>4, <1>5, <1>6, <1>8 DEF SectionTimeInv

LEMMA SectionTickTime ==
  ASSUME SectionTypeOK, SectionTimeInv, SectionTick
  PROVE  SectionTimeInv'
<1>1. /\ elapsed \in 0..TimeLimit /\ shown \in 0..TimeLimit /\ TimeLimit \in Nat
      /\ timer \in SUBSET (0..TimeLimit) /\ elapsed <= shown
  BY SessionAssumption DEF SectionTypeOK, Typed, SectionTimeInv
<1>2. /\ Tick /\ UNCHANGED <<status, calls>>
      /\ elapsed' = IF elapsed < TimeLimit THEN elapsed + 1 ELSE elapsed
      /\ shown' = IF shown < TimeLimit THEN shown + 1 ELSE shown
      /\ \A u \in timer' : \E t \in timer : u = IF t > 0 THEN t - 1 ELSE 0
  BY DEF SectionTick, Tick, document
<1>3. ranOut' = (ranOut \/ shown' = TimeLimit)
  BY DEF SectionTick
<1>4. \A d \in Calls : TimesOK(calls[d])'
  BY <1>2, TickedCalls DEF SectionTypeOK, SectionTimeInv
<1>5. \A d \in Calls : SawLimit(calls[d])' => ranOut'
  BY <1>2, <1>3 DEF SectionTimeInv, SawLimit
<1>6. elapsed' <= shown'
  BY <1>1, <1>2
<1>7. \A u \in timer' : u + shown' >= TimeLimit
  BY <1>1, <1>2 DEF SectionTimeInv
<1>8. NoneMovedOn' => \A u \in timer' : u + elapsed' >= TimeLimit
  <2>1. NoneMovedOn' => NoneMovedOn
    BY <1>2 DEF NoneMovedOn
  <2> QED BY <1>1, <1>2, <2>1 DEF SectionTimeInv
<1>9. status' = "expired" \/ calls'["expiry"].pc # "idle" => ranOut'
  BY <1>2, <1>3 DEF SectionTimeInv
<1> QED BY <1>3, <1>4, <1>5, <1>6, <1>7, <1>8, <1>9 DEF SectionTimeInv

LEMMA SectionFireTime ==
  ASSUME SectionTypeOK, SectionTimeInv, SectionTimerFires
  PROVE  SectionTimeInv'
<1>1. shown \in 0..TimeLimit /\ TimeLimit \in Nat
  BY SessionAssumption DEF SectionTypeOK
<1>2. /\ TimerFires /\ UNCHANGED <<shown, ranOut, status, elapsed>>
      /\ timer = {0} /\ timer' = {}
  BY DEF SectionTimerFires, TimerFires, sectionVars, document
<1>3. ranOut
  BY <1>1, <1>2 DEF SectionTimeInv
<1>4. \A d \in Calls : TimesOK(calls[d])'
  BY <1>2, FiredCalls DEF SectionTypeOK, SectionTimeInv
<1> QED BY <1>2, <1>3, <1>4 DEF SectionTimeInv

LEMMA SectionCrashTime ==
  ASSUME SectionTypeOK, SectionTimeInv, SectionCrash
  PROVE  SectionTimeInv'
<1>1. /\ elapsed \in 0..TimeLimit /\ shown \in 0..TimeLimit /\ TimeLimit \in Nat
      /\ elapsed <= shown
  BY SessionAssumption DEF SectionTypeOK, Typed, SectionTimeInv
<1>2. /\ Crash /\ UNCHANGED <<ranOut, status, elapsed>>
      /\ timer' = {} /\ shown' = elapsed
  BY DEF SectionCrash, Crash, document
<1>3. shown' = TimeLimit => ranOut'
  BY <1>1, <1>2 DEF SectionTimeInv
<1> QED BY <1>1, <1>2, <1>3, CrashedCalls DEF SectionTimeInv

LEMMA SectionNextTime ==
  ASSUME OneRequestAtATime, SectionTypeOK, SectionTimeInv, [SectionNext]_allVars
  PROVE  SectionTimeInv'
<1>1. CASE UNCHANGED allVars
  BY <1>1 DEF allVars, sectionVars, vars, SectionTimeInv, NoneMovedOn, TimesOK, SawLimit
<1> QED BY <1>1, SectionHandlerTime, SectionSubmitTime, SectionTickTime, SectionFireTime,
           SectionCrashTime, SectionCases

(* No section is cut short, whatever the student's calls, the hourly job,   *)
(* the expiry callback and restarts do: for a student who makes one call at *)
(* a time, any number of sections, and any time limit.                      *)
THEOREM SectionsAreNotCutShort ==
  ASSUME OneRequestAtATime
  PROVE  SectionSpec => []NoSectionCutShort
<1>1. SectionTypeOK /\ SectionTimeInv => NoSectionCutShort
  <2> SUFFICES ASSUME SectionTypeOK, SectionTimeInv PROVE NoSectionCutShort
    OBVIOUS
  <2>1. elapsed \in 0..TimeLimit /\ TimeLimit \in Nat /\ timer \in SUBSET (0..TimeLimit)
    BY SessionAssumption DEF SectionTypeOK, Typed
  <2> QED BY <2>1 DEF SectionTimeInv, NoneMovedOn, NoSectionCutShort
<1>2. SectionTypeOK /\ SectionTimeInv /\ [SectionNext]_allVars => SectionTimeInv'
  BY SectionNextTime
<1> QED BY <1>1, <1>2, SectionInitTime, SectionTypes, PTL DEF SectionSpec


-----------------------------------------------------------------------------
(* The sections that are submitted are those before the one in progress,    *)
(* and the last as well at the end; a submitSection about to save has read  *)
(* the section in progress, which is not submitted.                         *)
OrderInv ==
    /\ \/ completed = 0..section - 1
       \/ section + 1 = NumSections /\ completed = Sections
    /\ \A c \in Calls : calls[c].pc = "section" =>
                           from[c] = section /\ section \notin completed

(* Sections are submitted once each, in the order of the test: the session  *)
(* moves from a section to the next, when all up to it are submitted, and   *)
(* is never back in an earlier one.                                         *)
SubmittedInOrder ==
    [][/\ section' # section => section' = section + 1 /\ completed' = 0..section
       /\ completed' # completed =>
             section \notin completed /\ completed' = completed \cup {section}]_allVars

LEMMA SectionsAreNumbers ==
  /\ Sections = 0..NumSections - 1 /\ NumSections \in Nat \ {0}
  /\ \A s \in Sections : s \in Nat /\ s < NumSections
BY SectionAssumption DEF Sections

(* What a save does: section by section.                                    *)
LEMMA SavedSection ==
  ASSUME SectionTypeOK, OrderInv, NEW c \in Calls, SaveSection(c)
  PROVE  \/ UNCHANGED <<section, completed>>
         \/ /\ completed = 0..section - 1 /\ section \notin completed
            /\ completed' = completed \cup {section} /\ completed' = 0..section
            /\ \/ section' = section + 1 /\ section' \in Sections
               \/ section' = section /\ section + 1 = NumSections
<1>1. CASE UNCHANGED <<section, completed>>
  BY <1>1
<1>2. CASE ~UNCHANGED <<section, completed>>
  <2>1. from[c] = section /\ section \notin completed
    BY DEF SaveSection, OrderInv
  <2>2. section \in Nat /\ section < NumSections
    BY SectionsAreNumbers DEF SectionTypeOK
  <2>3. completed = 0..section - 1
    BY <2>1 DEF OrderInv, SectionTypeOK
  <2>4. completed' = completed \cup {section}
    BY <1>2, <2>1 DEF SaveSection
  <2>5. 0..section = (0..section - 1) \cup {section}
    BY <2>2
  <2>6. \/ section + 1 \in Sections /\ section' = section + 1
        \/ section + 1 \notin Sections /\ section' = section
    BY <1>2, <2>1 DEF SaveSection
  <2>7. section + 1 \notin Sections => section + 1 = NumSections
    BY <2>2, SectionsAreNumbers
  <2> QED BY <2>1, <2>3, <2>4, <2>5, <2>6, <2>7
<1> QED BY <1>1, <1>2

LEMMA SubmitOrder ==
  ASSUME OneRequestAtATime, SectionTypeOK, OrderInv, NEW c \in Calls, SubmitStep(c)
  PROVE  OrderInv'
<1>1. /\ OnlyMoves(c) /\ c \in Requests
      /\ calls'[c].pc = "section" => calls[c].pc = "check"
  BY SubmitEffect
<1>2. \A d \in Calls \ {c} : calls'[d].pc # "section"
  BY <1>1 DEF OnlyMoves, OneRequestAtATime, SectionTypeOK, SectionCalls
<1>3. CASE CheckSection(c)
  <2>1. UNCHANGED <<section, completed>>
    BY <1>3 DEF CheckSection
  <2>2. calls'[c].pc = "section" => from'[c] = section /\ section \notin completed
    <3>1. CASE section \in completed
      <4>1. calls' = Return(c) /\ calls \in CallsType
        BY <1>3, <3>1 DEF CheckSection, SectionTypeOK, Typed
      <4> QED BY <4>1, ReturnMoves, NoCallIsIdle
    <3>2. CASE section \notin completed
      BY <1>3, <3>2 DEF CheckSection, SectionTypeOK
    <3> QED BY <3>1, <3>2
  <2> QED BY <1>2, <2>1, <2>2 DEF OrderInv
<1>4. CASE SaveSection(c)
  <2>1. calls'[c].pc # "section"
    BY <1>1, <1>4 DEF SaveSection
  <2>2. CASE UNCHANGED <<section, completed>>
    BY <1>2, <2>1, <2>2 DEF OrderInv
  <2>3. CASE section' = section + 1 /\ completed' = 0..section
    <3>1. section' - 1 = section
      BY <2>3, SectionsAreNumbers DEF SectionTypeOK
    <3> QED BY <1>2, <2>1, <2>3, <3>1 DEF OrderInv
  <2>4. CASE section' = section /\ section + 1 = NumSections /\ completed' = 0..section
    <3>1. 0..section = Sections
      BY <2>4, SectionsAreNumbers DEF SectionTypeOK
    <3> QED BY <1>2, <2>1, <2>4, <3>1 DEF OrderInv
  <2> QED BY <1>4, <2>2, <2>3, <2>4, SavedSection
<1>5. CASE ArmSection(c)
  <2>1. UNCHANGED <<section, completed, from>> /\ calls[c].pc = "next"
    BY <1>5 DEF ArmSection
  <2> QED BY <1>1, <1>2, <2>1 DEF OrderInv
<1> QED BY <1>3, <1>4, <1>5 DEF SubmitStep

LEMMA SectionNextOrder ==
  ASSUME OneRequestAtATime, SectionTypeOK, OrderInv, [SectionNext]_allVars
  PROVE  OrderInv'
<1>1. ASSUME UNCHANGED <<section, completed, from>>,
             \A d \in Calls : calls'[d].pc = "section" => calls[d].pc = "section"
      PROVE  OrderInv'
  BY <1>1 DEF OrderInv
<1>2. CASE (HandlerStep \/ TimerFires) /\ UNCHANGED sectionVars
  <2>1. \A d \in Calls : calls'[d].pc = "section" => calls[d].pc = "section"
    BY <1>2, StepCalls DEF SectionTypeOK, Steps
  <2> QED BY <1>1, <1>2, <2>1 DEF sectionVars
<1>3. CASE SectionTick \/ UNCHANGED allVars
  BY <1>1, <1>3 DEF SectionTick, Tick, allVars, vars, sectionVars
<1>4. CASE SectionCrash
  BY <1>1, <1>4, NoCallIsIdle DEF SectionCrash, Crash
<1> QED BY <1>2, <1>3, <1>4, SectionCases, SubmitOrder DEF SectionTimerFires

(* A student who makes one call at a time goes through the sections in      *)
(* order and submits each once, however often submitSection is called,      *)
(* refused or repeated after a save that has failed.                        *)
THEOREM SectionsInOrder ==
  ASSUME OneRequestAtATime
  PROVE  SectionSpec => SubmittedInOrder
<1>1. SectionInit => OrderInv
  <2>1. 0..0 - 1 = {}
    OBVIOUS
  <2>2. SectionInit => \A c \in Calls : calls[c].pc # "section"
    BY NoCallIsIdle DEF SectionInit, Init, Call
  <2> QED BY <2>1, <2>2 DEF SectionInit, OrderInv
<1>2. SectionTypeOK /\ OrderInv /\ [SectionNext]_allVars => OrderInv'
  BY SectionNextOrder
<1>3. SectionTypeOK /\ OrderInv /\ [SectionNext]_allVars
        => [/\ section' # section => section' = section + 1 /\ completed' = 0..section
            /\ completed' # completed =>
                  section \notin completed /\ completed' = completed \cup {section}]_allVars
  <2> SUFFICES ASSUME SectionTypeOK, OrderInv, [SectionNext]_allVars
               PROVE  /\ section' # section => section' = section + 1 /\ completed' = 0..section
                      /\ completed' # completed =>
                            section \notin completed /\ completed' = completed \cup {section}
    OBVIOUS
  <2>1. CASE UNCHANGED <<section, completed>>
    BY <2>1
  <2>2. CASE \E c \in Calls : SaveSection(c)
    BY <2>2, SavedSection
  <2>3. UNCHANGED <<section, completed>> \/ \E c \in Calls : SaveSection(c)
    BY SectionCases DEF sectionVars, allVars, SubmitStep, CheckSection, ArmSection,
       SectionTimerFires, SectionTick, SectionCrash
  <2> QED BY <2>1, <2>2, <2>3
<1> QED BY <1>1, <1>2, <1>3, SectionTypes, PTL DEF SectionSpec, SubmittedInOrder
=============================================================================

-------------------------- MODULE AttemptLimit_proofs --------------------------
(***************************************************************************)
(* Proofs about AttemptLimit, for any tests, limits, requests and bounds.   *)
(* Types hold however the calls overlap; the limit and the numbers of       *)
(* attempts when starts do not overlap, the requests when reviews do not.   *)
(***************************************************************************)
EXTENDS AttemptLimit, FiniteSetTheorems, WellFoundedInduction, TLAPS

OneStart == \A c, d \in Starts : c = d
OneClerk == \A c, d \in Clerks : c = d

-----------------------------------------------------------------------------
(* Overrides. *)

LEMMA ExtraType ==
  ASSUME OverrideType, NEW t \in Tests
  PROVE  ExtraAttempts(t) \in Nat
BY OverrideAssumption DEF OverrideType, ExtraAttempts

LEMMA IncrementEffect ==
  ASSUME OverrideType, NEW t \in Tests, NEW n \in Nat, Increment(t, n)
  PROVE  /\ OverrideType'
         /\ ExtraAttempts(t)' = ExtraAttempts(t) + n
         /\ \A u \in Tests \ {t} : ExtraAttempts(u)' = ExtraAttempts(u)
<1>1. ExtraAttempts(t) + n \in Nat
  BY ExtraType
<1>2. extra' = [extra EXCEPT ![t] = ExtraAttempts(t) + n]
  BY DEF Increment
<1>3. OverrideType'
  BY <1>1, <1>2 DEF OverrideType
<1>4. extra'[t] = ExtraAttempts(t) + n /\ \A u \in Tests \ {t} : extra'[u] = extra[u]
  BY <1>2 DEF OverrideType
<1>5. extra'[t] # NoOverride
  BY <1>1, <1>4, OverrideAssumption
<1> QED BY <1>3, <1>4, <1>5 DEF ExtraAttempts

LEMMA AdministerEffect ==
  ASSUME OverrideType, Administer
  PROVE  /\ OverrideType'
         /\ \E t \in Tests : \A u \in Tests \ {t} : ExtraAttempts(u)' = ExtraAttempts(u)
<1>1. CASE GrantAttempts
  <2>1. PICK t \in Tests, n \in Amounts : Increment(t, n)
    BY <1>1 DEF GrantAttempts
  <2>2. n \in Nat
    BY OverrideAssumption
  <2> QED BY <2>1, <2>2, IncrementEffect
<1>2. CASE UpdateOverride \/ DeleteOverride
  <2>1. PICK t \in Tests, n \in Amounts \cup {0, NoOverride} :
           extra' = [extra EXCEPT ![t] = n]
    BY <1>2 DEF UpdateOverride, DeleteOverride
  <2>2. n \in Nat \cup {NoOverride}
    BY OverrideAssumption
  <2>3. OverrideType' /\ \A u \in Tests \ {t} : extra'[u] = extra[u]
    BY <2>1, <2>2 DEF OverrideType
  <2> QED BY <2>3 DEF ExtraAttempts
<1> QED BY <1>1, <1>2 DEF Administer

-----------------------------------------------------------------------------
(* Types of a start. *)

LEMMA SessionFacts ==
  ASSUME CreationType
  PROVE  /\ Len(sessions) \in Nat
         /\ DOMAIN sessions = 1 .. Len(sessions)
         /\ \A i \in DOMAIN sessions : sessions[i] \in Session
         /\ IsFiniteSet(DOMAIN sessions)
         /\ Active \subseteq DOMAIN sessions
         /\ \A t : Of(t) \subseteq DOMAIN sessions
<1>1. Len(sessions) \in Nat /\ DOMAIN sessions = 1 .. Len(sessions)
  BY DEF CreationType
<1>2. IsFiniteSet(1 .. Len(sessions))
  BY <1>1, FS_Interval
<1> QED BY <1>1, <1>2 DEF CreationType, Active, Of

LEMMA CountFacts ==
  ASSUME CreationType, NEW t
  PROVE  /\ IsFiniteSet(Of(t)) /\ Cardinality(Of(t)) \in Nat
         /\ IsFiniteSet(Counted(t)) /\ Cardinality(Counted(t)) \in Nat
<1>1. IsFiniteSet(Of(t))
  BY SessionFacts, FS_Subset
<1>2. IsFiniteSet(Counted(t))
  BY <1>1, FS_Subset DEF Counted
<1> QED BY <1>1, <1>2, FS_CardinalityType

(* A call that is not idle has a record of its progress.                     *)
LEMMA InProgress ==
  ASSUME CreationType, NEW c \in Starts, starts[c].pc # "idle"
  PROVE  starts[c] \in Progress
BY DEF CreationType, NotStarting

(* The numbers of the attempts on a test have a highest one.  They are not  *)
(* counted here, only bounded by an upper bound that every start respects.   *)
Bounded == \E b \in Nat : \A i \in DOMAIN sessions : sessions[i].number <= b

LEMMA Highest ==
  ASSUME NEW S, S \subseteq Nat, 0 \in S, NEW b \in Nat, \A n \in S : n <= b
  PROVE  Max(S) \in S /\ \A n \in S : n <= Max(S)
<1> DEFINE U == {u \in Nat : \A n \in S : n <= u}
<1>1. PICK m \in U : \A u \in U : ~(<<u, m>> \in OpToRel(<, Nat))
  <2>1. U # {} /\ U \subseteq Nat
    OBVIOUS
  <2> HIDE DEF U
  <2> QED BY <2>1, WFMin, NatLessThanWellFounded
<1>2. m \in S
  <2> SUFFICES ASSUME m \notin S PROVE FALSE
    OBVIOUS
  <2>1. m \in Nat /\ \A n \in S : n <= m /\ n # m
    OBVIOUS
  <2>2. m # 0 /\ m - 1 \in Nat
    BY <2>1
  <2>3. \A n \in S : n <= m - 1
    BY <2>1, <2>2
  <2>4. m - 1 \in U
    BY <2>2, <2>3
  <2>5. <<m - 1, m>> \in OpToRel(<, Nat)
    BY <2>1, <2>2 DEF OpToRel
  <2> QED BY <2>4, <2>5, <1>1
<1>3. \E x \in S : \A y \in S : x >= y
  BY <1>2
<1> QED BY <1>3 DEF Max

LEMMA NextNumber ==
  ASSUME CreationType, Bounded, NEW t,
         NEW S, S = {0} \cup {sessions[i].number : i \in Of(t)}
  PROVE  Max(S) + 1 \in Nat \ {0} /\ \A i \in Of(t) : sessions[i].number < Max(S) + 1
<1>1. PICK b \in Nat : \A i \in DOMAIN sessions : sessions[i].number <= b
  BY DEF Bounded
<1>2. S \subseteq Nat /\ 0 \in S /\ \A n \in S : n <= b
  BY <1>1, SessionFacts DEF Session
<1>3. Max(S) \in S /\ \A n \in S : n <= Max(S)
  BY <1>2, Highest
<1>4. \A i \in Of(t) : sessions[i].number \in S
  OBVIOUS
<1>5. \A i \in Of(t) : sessions[i].number \in Nat /\ sessions[i].number <= Max(S)
  BY <1>2, <1>3, <1>4
<1>6. PICK m \in Nat : m = Max(S)
  BY <1>2, <1>3
<1>7. m + 1 \in Nat \ {0} /\ \A i \in Of(t) : sessions[i].number < m + 1
  BY <1>5, <1>6
<1> QED BY <1>6, <1>7

-----------------------------------------------------------------------------
(* What a step makes of the sessions. *)

(* A session gets another status. *)
Relabelled(i, status) ==
  /\ sessions' = [sessions EXCEPT ![i].status = status]
  /\ i \in DOMAIN sessions
  /\ status \in Closed

LEMMA RelabelledEffect ==
  ASSUME CreationType, NEW i, NEW status, Relabelled(i, status)
  PROVE  /\ sessions' \in Seq(Session)
         /\ DOMAIN sessions' = DOMAIN sessions
         /\ \A j \in DOMAIN sessions : /\ sessions'[j].test = sessions[j].test
                                       /\ sessions'[j].number = sessions[j].number
         /\ Active' = Active \ {i}
         /\ \A t : Of(t)' = Of(t)
<1>1. /\ sessions[i] \in Session
      /\ \A j \in DOMAIN sessions : sessions[j] \in Session
      /\ sessions \in Seq(Session)
  BY SessionFacts DEF CreationType, Relabelled
<1> DEFINE s == [sessions[i] EXCEPT !.status = status]
<1>2. s \in Session /\ s.test = sessions[i].test /\ s.number = sessions[i].number
      /\ s.status = status
  BY <1>1 DEF Session, Relabelled
<1>3. sessions' = [sessions EXCEPT ![i] = s]
  BY DEF Relabelled
<1> HIDE DEF s
<1>4. /\ sessions' \in Seq(Session)
      /\ DOMAIN sessions' = DOMAIN sessions
      /\ sessions'[i] = s
      /\ \A j \in DOMAIN sessions \ {i} : sessions'[j] = sessions[j]
  BY <1>1, <1>2, <1>3 DEF Relabelled
<1>5. status # "inProgress"
  BY DEF Relabelled, Closed
<1>6. Active' = Active \ {i}
  BY <1>2, <1>4, <1>5 DEF Active, Relabelled
<1>7. \A t : Of(t)' = Of(t)
  BY <1>2, <1>4 DEF Of
<1> QED BY <1>2, <1>4, <1>6, <1>7

(* A session is added. *)
LEMMA InsertEffect ==
  ASSUME CreationType, NEW c \in Starts, InsertSession(c), starts[c].number # 0,
         NEW n, n = Len(sessions) + 1
  PROVE  /\ starts[c] \in Progress
         /\ sessions' \in Seq(Session)
         /\ n \notin DOMAIN sessions
         /\ DOMAIN sessions' = DOMAIN sessions \cup {n}
         /\ \A j \in DOMAIN sessions : sessions'[j] = sessions[j]
         /\ sessions'[n].test = starts[c].test
         /\ sessions'[n].number = starts[c].number
         /\ Active' = Active \cup {n}
         /\ \A t \in Tests : /\ t = starts[c].test => Of(t)' = Of(t) \cup {n}
                             /\ t # starts[c].test => Of(t)' = Of(t)
<1> DEFINE s == [test |-> starts[c].test, status |-> "inProgress",
                 number |-> starts[c].number]
<1>1. starts[c] \in Progress
  BY InProgress DEF InsertSession, At
<1>2. s \in Session
  BY <1>1 DEF Session, Progress
<1>3. sessions' = Append(sessions, s) /\ sessions \in Seq(Session)
  BY DEF InsertSession, CreationType
<1>4. s.test = starts[c].test /\ s.status = "inProgress" /\ s.number = starts[c].number
  OBVIOUS
<1> HIDE DEF s
<1>5. /\ sessions' \in Seq(Session)
      /\ DOMAIN sessions' = DOMAIN sessions \cup {n}
      /\ n \notin DOMAIN sessions
      /\ \A j \in DOMAIN sessions : sessions'[j] = sessions[j]
      /\ sessions'[n] = s
  BY <1>2, <1>3
<1>6. Active' = Active \cup {n}
  BY <1>4, <1>5 DEF Active
<1>7. \A t \in Tests : /\ t = starts[c].test => Of(t)' = Of(t) \cup {n}
                       /\ t # starts[c].test => Of(t)' = Of(t)
  BY <1>4, <1>5 DEF Of
<1> QED BY <1>1, <1>4, <1>5, <1>6, <1>7

-----------------------------------------------------------------------------
(* Types of the starts, however many are in progress. *)

(* What a call relies on: the session it closes exists, and an attempt it    *)
(* inserts has a number.                                                     *)
Sound(p) == /\ p.pc = "close" => p.found \in DOMAIN sessions
            /\ p.pc = "insert" => p.number # 0

CreationInv == CreationType /\ Bounded /\ \A c \in Starts : Sound(starts[c])

LEMMA Advance ==
  ASSUME CreationInv, UNCHANGED sessions, NEW c \in Starts,
         NEW p \in Progress \cup {NotStarting}, Sound(p),
         starts' = [starts EXCEPT ![c] = p]
  PROVE  CreationInv' /\ starts'[c] = p
<1>1. /\ starts' \in [Starts -> Progress \cup {NotStarting}]
      /\ starts'[c] = p
      /\ \A d \in Starts \ {c} : starts'[d] = starts[d]
  BY DEF CreationInv, CreationType
<1>2. CreationType' /\ Bounded'
  BY <1>1 DEF CreationInv, CreationType, Bounded
<1>3. \A d \in Starts : Sound(starts[d])'
  BY <1>1 DEF CreationInv, Sound
<1> QED BY <1>1, <1>2, <1>3 DEF CreationInv

LEMMA RelabelledTypes ==
  ASSUME CreationInv, NEW i, NEW status, Relabelled(i, status)
  PROVE  /\ sessions' \in Seq(Session)
         /\ Bounded'
         /\ DOMAIN sessions' = DOMAIN sessions
BY RelabelledEffect DEF CreationInv, Bounded

(* The steps of a start that leave the sessions alone, and what each writes. *)
LEMMA FindTypes ==
  ASSUME CreationInv, NEW c \in Starts, FindSession(c)
  PROVE  CreationInv'
<1>1. starts[c] \in Progress /\ UNCHANGED sessions
  BY InProgress DEF CreationInv, FindSession, At
<1>2. CASE Goto(c, "count")
  <2> DEFINE p == [starts[c] EXCEPT !.pc = "count"]
  <2>1. p \in Progress /\ Sound(p)
    BY <1>1 DEF Progress, Sound
  <2>2. starts' = [starts EXCEPT ![c] = p]
    BY <1>2 DEF Goto
  <2> QED BY <1>1, <2>1, <2>2, Advance
<1>3. CASE Refuse(c)
  <2>1. Sound(NotStarting)
    BY DEF Sound, NotStarting
  <2> QED BY <1>1, <1>3, <2>1, Advance DEF Refuse
<1>4. ASSUME NEW i \in Active,
             starts' = [starts EXCEPT ![c].pc = "close", ![c].found = i]
      PROVE  CreationInv'
  <2> DEFINE p == [starts[c] EXCEPT !.pc = "close", !.found = i]
  <2>1. i \in DOMAIN sessions /\ i \in Nat
    BY SessionFacts DEF CreationInv
  <2>2. p \in Progress /\ Sound(p)
    BY <1>1, <2>1 DEF Progress, Sound
  <2>3. starts' = [starts EXCEPT ![c] = p]
    BY <1>4, <1>1 DEF CreationInv, CreationType
  <2> QED BY <1>1, <2>2, <2>3, Advance
<1> QED BY <1>2, <1>3, <1>4 DEF FindSession

LEMMA CountTypes ==
  ASSUME CreationInv, NEW c \in Starts, CountAttempts(c)
  PROVE  /\ CreationInv'
         /\ starts[c] \in Progress
         /\ starts'[c] = [starts[c] EXCEPT !.pc = "limit",
                                           !.used = Cardinality(Counted(starts[c].test))]
<1>1. starts[c] \in Progress /\ UNCHANGED sessions
  BY InProgress DEF CreationInv, CountAttempts, At
<1> DEFINE p == [starts[c] EXCEPT !.pc = "limit",
                                  !.used = Cardinality(Counted(starts[c].test))]
<1>2. Cardinality(Counted(starts[c].test)) \in Nat
  BY CountFacts DEF CreationInv
<1>3. p \in Progress /\ Sound(p)
  BY <1>1, <1>2 DEF Progress, Sound
<1>4. starts' = [starts EXCEPT ![c] = p]
  BY <1>1 DEF CountAttempts, CreationInv, CreationType
<1> QED BY <1>1, <1>3, <1>4, Advance

LEMMA LimitTypes ==
  ASSUME CreationInv, OverrideType, NEW c \in Starts, CheckLimit(c)
  PROVE  /\ CreationInv'
         /\ starts[c] \in Progress
         /\ \/ starts'[c] = NotStarting
            \/ \E total \in Nat :
                  /\ starts[c].used < total
                  /\ starts'[c] = [starts[c] EXCEPT !.pc = "number", !.allowed = total]
<1>1. starts[c] \in Progress /\ UNCHANGED sessions
  BY InProgress DEF CreationInv, CheckLimit, At
<1> DEFINE total == AttemptsAllowed[starts[c].test] + ExtraAttempts(starts[c].test)
           p == [starts[c] EXCEPT !.pc = "number", !.allowed = total]
<1>2. total \in Nat
  BY <1>1, ExtraType, CreationAssumption DEF Progress
<1>3. starts[c].used \in Nat
  BY <1>1 DEF Progress
<1>4. CASE starts[c].used >= total
  <2>1. Sound(NotStarting)
    BY DEF Sound, NotStarting
  <2>2. starts' = [starts EXCEPT ![c] = NotStarting]
    BY <1>4 DEF CheckLimit, Refuse
  <2> QED BY <1>1, <2>1, <2>2, Advance
<1>5. CASE ~(starts[c].used >= total)
  <2>1. starts' = [starts EXCEPT ![c] = p]
    BY <1>1, <1>5 DEF CheckLimit, CreationInv, CreationType
  <2> HIDE DEF total
  <2>2. p \in Progress /\ Sound(p)
    BY <1>1, <1>2 DEF Progress, Sound
  <2>3. starts[c].used < total
    BY <1>2, <1>3, <1>5
  <2> QED BY <1>1, <1>2, <2>1, <2>2, <2>3, Advance
<1> QED BY <1>4, <1>5

LEMMA NumberTypes ==
  ASSUME CreationInv, NEW c \in Starts, NumberAttempt(c)
  PROVE  /\ CreationInv'
         /\ starts[c] \in Progress
         /\ \E n \in Nat \ {0} :
               /\ \A i \in Of(starts[c].test) : sessions[i].number < n
               /\ starts'[c] = [starts[c] EXCEPT !.pc = "insert", !.number = n]
<1>1. starts[c] \in Progress /\ UNCHANGED sessions
  BY InProgress DEF CreationInv, NumberAttempt, At
<1> DEFINE S == {0} \cup {sessions[i].number : i \in Of(starts[c].test)}
<1>2. PICK n \in Nat \ {0} : /\ n = Max(S) + 1
                             /\ \A i \in Of(starts[c].test) : sessions[i].number < n
  BY NextNumber DEF CreationInv
<1> DEFINE p == [starts[c] EXCEPT !.pc = "insert", !.number = n]
<1>3. starts' = [starts EXCEPT ![c] = p]
  BY <1>1, <1>2 DEF NumberAttempt, CreationInv, CreationType
<1>4. p \in Progress /\ Sound(p)
  BY <1>1 DEF Progress, Sound
<1> QED BY <1>1, <1>2, <1>3, <1>4, Advance

LEMMA CloseTypes ==
  ASSUME CreationInv, NEW c \in Starts, CloseSession(c)
  PROVE  /\ CreationInv'
         /\ starts[c] \in Progress
         /\ starts'[c] = [starts[c] EXCEPT !.pc = "count"]
         /\ \E status \in Closed : Relabelled(starts[c].found, status)
<1>1. starts[c] \in Progress
  BY InProgress DEF CreationInv, CloseSession, At
<1>2. starts[c].found \in DOMAIN sessions
  BY DEF CreationInv, Sound, CloseSession, At
<1>3. PICK status \in Closed : Relabelled(starts[c].found, status)
  BY <1>2 DEF CloseSession, Relabelled, Closed
<1> DEFINE p == [starts[c] EXCEPT !.pc = "count"]
<1>4. p \in Progress /\ p.pc = "count"
  BY <1>1 DEF Progress
<1>5. starts' = [starts EXCEPT ![c] = p]
  BY DEF CloseSession, Goto
<1> HIDE DEF p
<1>6. /\ starts' \in [Starts -> Progress \cup {NotStarting}]
      /\ starts'[c] = p
      /\ \A d \in Starts \ {c} : starts'[d] = starts[d]
  BY <1>4, <1>5 DEF CreationInv, CreationType
<1>7. \A d \in Starts : Sound(starts[d])'
  BY <1>3, <1>4, <1>6, RelabelledTypes DEF CreationInv, Sound
<1>8. CreationInv'
  BY <1>3, <1>6, <1>7, RelabelledTypes DEF CreationInv, CreationType
<1> QED BY <1>1, <1>3, <1>6, <1>8 DEF p

LEMMA InsertTypes ==
  ASSUME CreationInv, NEW c \in Starts, InsertSession(c)
  PROVE  CreationInv' /\ starts'[c] = NotStarting
<1>1. starts[c].number # 0
  BY DEF InsertSession, At, CreationInv, Sound
<1> DEFINE n == Len(sessions) + 1
<1>2. /\ starts[c] \in Progress
      /\ sessions' \in Seq(Session)
      /\ DOMAIN sessions' = DOMAIN sessions \cup {n}
      /\ \A j \in DOMAIN sessions : sessions'[j] = sessions[j]
      /\ sessions'[n].number = starts[c].number
  BY <1>1, InsertEffect DEF CreationInv
<1> HIDE DEF n
<1>3. starts[c].number \in Nat
  BY <1>2 DEF Progress
<1>4. Bounded'
  <2>1. PICK b \in Nat : \A i \in DOMAIN sessions : sessions[i].number <= b
    BY DEF CreationInv, Bounded
  <2>2. PICK a \in Nat : a >= b /\ a >= starts[c].number
    BY <1>3
  <2>3. \A i \in DOMAIN sessions : sessions[i].number \in Nat
    BY SessionFacts DEF CreationInv, Session
  <2>4. \A i \in DOMAIN sessions' : sessions'[i].number <= a
    BY <1>2, <1>3, <2>1, <2>2, <2>3
  <2> QED BY <2>4 DEF Bounded
<1>5. /\ starts' \in [Starts -> Progress \cup {NotStarting}]
      /\ starts'[c] = NotStarting
      /\ \A d \in Starts \ {c} : starts'[d] = starts[d]
  BY DEF CreationInv, CreationType, InsertSession
<1>6. \A d \in Starts : Sound(starts[d])'
  BY <1>2, <1>5 DEF CreationInv, Sound, NotStarting
<1> QED BY <1>2, <1>4, <1>5, <1>6 DEF CreationInv, CreationType

LEMMA EndTypes ==
  ASSUME CreationInv, SessionEnds
  PROVE  CreationInv' /\ \E i \in Active, status \in Closed : Relabelled(i, status)
<1>1. PICK i \in Active, status \in Closed : Relabelled(i, status)
  BY SessionFacts DEF CreationInv, SessionEnds, Relabelled
<1>2. \A d \in Starts : Sound(starts[d])'
  BY <1>1, RelabelledTypes DEF CreationInv, Sound, SessionEnds
<1>3. CreationType' /\ Bounded'
  BY <1>1, RelabelledTypes DEF CreationInv, CreationType, SessionEnds
<1> QED BY <1>1, <1>2, <1>3 DEF CreationInv

LEMMA StartTypes ==
  ASSUME CreationInv, OverrideType, CreationNext
  PROVE  CreationInv' /\ OverrideType'
<1>1. OverrideType'
  BY DEF CreationNext, StartStep, CreateSession, FindSession, CloseSession, CountAttempts,
         CheckLimit, NumberAttempt, InsertSession, StartFails, SessionEnds, OverrideType
<1>2. ASSUME NEW c \in Starts, NEW t \in Tests, NEW forceNew \in BOOLEAN,
             CreateSession(c, t, forceNew)
      PROVE  CreationInv'
  <2> DEFINE p == [pc |-> "find", test |-> t, forceNew |-> forceNew,
                   found |-> 0, used |-> 0, allowed |-> 0, number |-> 0]
  <2>1. p \in Progress /\ Sound(p)
    BY DEF Progress, Sound
  <2> QED BY <1>2, <2>1, Advance DEF CreateSession
<1>3. ASSUME NEW c \in Starts, StartFails(c)
      PROVE  CreationInv'
  <2>1. Sound(NotStarting)
    BY DEF Sound, NotStarting
  <2> QED BY <1>3, <2>1, Advance DEF StartFails, Refuse
<1> QED BY <1>1, <1>2, <1>3, FindTypes, CloseTypes, CountTypes, LimitTypes, NumberTypes,
           InsertTypes, EndTypes DEF CreationNext, StartStep

-----------------------------------------------------------------------------
(* Types of the requests, however many calls are in progress. *)

(* A call relies on the request it reviews being stored.                     *)
RequestInv == /\ RequestsType
              /\ \A k \in Clerks : clerks[k].pc \in {"save", "grant"}
                                      => request[clerks[k].about] \in Stored

LEMMA Kinds ==
  ASSUME RequestInv, NEW k \in Clerks
  PROVE  /\ clerks[k].pc = "create" => clerks[k] \in Asking
         /\ clerks[k].pc \in {"save", "grant"} => /\ clerks[k] \in Reviewing
                                                  /\ clerks[k].about \in Requests
                                                  /\ request[clerks[k].about] \in Stored
BY DEF RequestInv, RequestsType, Asking, Reviewing, Free

(* A call gets on, and requests that are stored stay so.                     *)
LEMMA GetsOn ==
  ASSUME RequestInv, NEW k \in Clerks, NEW p \in Asking \cup Reviewing \cup {Free},
         clerks' = [clerks EXCEPT ![k] = p],
         request' \in [Requests -> Stored \cup {NoRequest}],
         granted' \in [Requests -> Nat],
         \A r \in Requests : request[r] \in Stored => request'[r] \in Stored,
         p.pc \in {"save", "grant"} => request'[p.about] \in Stored
  PROVE  RequestInv' /\ clerks'[k] = p
<1>1. /\ clerks' \in [Clerks -> Asking \cup Reviewing \cup {Free}]
      /\ clerks'[k] = p
      /\ \A d \in Clerks \ {k} : clerks'[d] = clerks[d]
  BY DEF RequestInv, RequestsType
<1>2. \A d \in Clerks : clerks'[d].pc \in {"save", "grant"}
                           => request'[clerks'[d].about] \in Stored
  BY <1>1, Kinds
<1> QED BY <1>1, <1>2 DEF RequestInv, RequestsType

LEMMA FindPendingTypes ==
  ASSUME RequestInv, NEW k \in Clerks, FindPending(k)
  PROVE  /\ RequestInv' /\ UNCHANGED <<request, granted, extra>>
         /\ clerks[k].pc = "idle"
         /\ clerks'[k].pc = "create" /\ Pending(clerks'[k].test) = {}
<1>1. PICK t \in Tests, n \in Amounts :
         /\ Pending(t) = {}
         /\ clerks' = [clerks EXCEPT ![k] = [pc |-> "create", test |-> t, asked |-> n]]
  BY DEF FindPending
<1> DEFINE p == [pc |-> "create", test |-> t, asked |-> n]
<1>2. p \in Asking /\ p.pc = "create" /\ p.test = t
  BY DEF Asking
<1>3. clerks[k].pc = "idle" /\ UNCHANGED <<request, granted, extra>>
  BY DEF FindPending, Is
<1>4. RequestInv' /\ clerks'[k] = p
  <2> HIDE DEF p
  <2> QED BY <1>1, <1>2, <1>3, GetsOn DEF RequestInv, RequestsType, p
<1> QED BY <1>1, <1>2, <1>3, <1>4

LEMMA CreateTypes ==
  ASSUME RequestInv, NEW k \in Clerks, CreateRequest(k)
  PROVE  /\ RequestInv' /\ UNCHANGED <<granted, extra>>
         /\ clerks[k] \in Asking /\ clerks'[k] = Free
         /\ \E r \in Requests :
               /\ request[r].status = "none"
               /\ request' = [request EXCEPT ![r] = [status |-> "pending",
                                                     test |-> clerks[k].test,
                                                     asked |-> clerks[k].asked]]
<1>1. clerks[k] \in Asking
  BY Kinds DEF CreateRequest, Is
<1>2. PICK r \in Requests :
         /\ request[r].status = "none"
         /\ request' = [request EXCEPT ![r] = [status |-> "pending",
                                               test |-> clerks[k].test,
                                               asked |-> clerks[k].asked]]
  BY DEF CreateRequest
<1>3. [status |-> "pending", test |-> clerks[k].test, asked |-> clerks[k].asked] \in Stored
  BY <1>1 DEF Asking, Stored
<1>4. /\ request' \in [Requests -> Stored \cup {NoRequest}]
      /\ \A q \in Requests : request[q] \in Stored => request'[q] \in Stored
  BY <1>2, <1>3 DEF RequestInv, RequestsType
<1>5. clerks' = [clerks EXCEPT ![k] = Free] /\ UNCHANGED <<granted, extra>>
  BY DEF CreateRequest, Done
<1>6. RequestInv' /\ clerks'[k] = Free
  BY <1>4, <1>5, GetsOn DEF RequestInv, RequestsType, Free
<1> QED BY <1>1, <1>2, <1>5, <1>6

LEMMA FindRequestTypes ==
  ASSUME RequestInv, NEW k \in Clerks, FindRequest(k)
  PROVE  /\ RequestInv' /\ UNCHANGED <<request, granted, extra>>
         /\ clerks'[k].pc = "save" /\ request[clerks'[k].about].status = "pending"
         /\ clerks'[k].about \in Requests
<1>1. PICK r \in Requests, decision \in {"approved", "rejected"} :
         /\ request[r].status = "pending"
         /\ clerks' = [clerks EXCEPT ![k] = [pc |-> "save", about |-> r,
                                             decision |-> decision]]
  BY DEF FindRequest
<1> DEFINE p == [pc |-> "save", about |-> r, decision |-> decision]
<1>2. p \in Reviewing /\ p.pc = "save" /\ p.about = r
  BY DEF Reviewing
<1>3. request[r] \in Stored
  BY <1>1 DEF RequestInv, RequestsType, NoRequest
<1>4. UNCHANGED <<request, granted, extra>>
  BY DEF FindRequest
<1>5. RequestInv' /\ clerks'[k] = p
  <2> HIDE DEF p
  <2> QED BY <1>1, <1>2, <1>3, <1>4, GetsOn DEF RequestInv, RequestsType, p
<1> QED BY <1>1, <1>2, <1>4, <1>5

LEMMA SaveTypes ==
  ASSUME RequestInv, NEW k \in Clerks, SaveDecision(k)
  PROVE  /\ RequestInv' /\ UNCHANGED <<granted, extra>>
         /\ clerks[k] \in Reviewing /\ clerks[k].pc = "save"
         /\ request' = [request EXCEPT ![clerks[k].about].status = clerks[k].decision]
         /\ \/ clerks'[k] = Free
            \/ /\ clerks[k].decision = "approved"
               /\ clerks'[k] = [clerks[k] EXCEPT !.pc = "grant"]
<1>1. clerks[k].pc = "save" /\ UNCHANGED <<granted, extra>>
  BY DEF SaveDecision, Is
<1>2. clerks[k] \in Reviewing /\ request[clerks[k].about] \in Stored
  BY <1>1, Kinds
<1>3. request' = [request EXCEPT ![clerks[k].about].status = clerks[k].decision]
  BY DEF SaveDecision
<1> DEFINE s == [request[clerks[k].about] EXCEPT !.status = clerks[k].decision]
<1>4. s \in Stored
  BY <1>2 DEF Stored, Reviewing
<1>5. request' = [request EXCEPT ![clerks[k].about] = s]
  BY <1>3
<1> HIDE DEF s
<1>6. /\ request' \in [Requests -> Stored \cup {NoRequest}]
      /\ \A q \in Requests : request[q] \in Stored => request'[q] \in Stored
  BY <1>4, <1>5 DEF RequestInv, RequestsType
<1>7. CASE clerks[k].decision = "approved"
  <2> DEFINE p == [clerks[k] EXCEPT !.pc = "grant"]
  <2>1. p \in Reviewing /\ p.about = clerks[k].about
    BY <1>2 DEF Reviewing
  <2>2. clerks' = [clerks EXCEPT ![k] = p]
    BY <1>7 DEF SaveDecision
  <2>3. request'[p.about] \in Stored
    BY <1>2, <1>6, <2>1 DEF Reviewing
  <2> HIDE DEF p
  <2>4. RequestInv' /\ clerks'[k] = p
    BY <1>1, <1>6, <2>1, <2>2, <2>3, GetsOn DEF RequestInv, RequestsType
  <2> QED BY <1>1, <1>2, <1>3, <1>7, <2>4 DEF p
<1>8. CASE clerks[k].decision # "approved"
  <2>1. clerks' = [clerks EXCEPT ![k] = Free]
    BY <1>8 DEF SaveDecision, Done
  <2>2. RequestInv' /\ clerks'[k] = Free
    BY <1>1, <1>6, <2>1, GetsOn DEF RequestInv, RequestsType, Free
  <2> QED BY <1>1, <1>2, <1>3, <2>2
<1> QED BY <1>7, <1>8

LEMMA GrantTypes ==
  ASSUME RequestInv, OverrideType, NEW k \in Clerks, GrantRequest(k),
         NEW r, r = clerks[k].about
  PROVE  /\ RequestInv' /\ OverrideType' /\ UNCHANGED request
         /\ clerks[k] \in Reviewing /\ clerks[k].pc = "grant" /\ clerks'[k] = Free
         /\ r \in Requests /\ request[r] \in Stored
         /\ granted' = [granted EXCEPT ![r] = granted[r] + 1]
         /\ \E t \in Tests : /\ t = request[r].test
                             /\ ExtraAttempts(t)' = ExtraAttempts(t) + request[r].asked
                             /\ \A u \in Tests \ {t} : ExtraAttempts(u)' = ExtraAttempts(u)
<1>1. clerks[k].pc = "grant" /\ UNCHANGED request
  BY DEF GrantRequest, Is
<1>2. clerks[k] \in Reviewing /\ r \in Requests /\ request[r] \in Stored
  BY <1>1, Kinds
<1>3. /\ Increment(request[r].test, request[r].asked)
      /\ granted' = [granted EXCEPT ![r] = granted[r] + 1]
      /\ clerks' = [clerks EXCEPT ![k] = Free]
  BY DEF GrantRequest, Done
<1>4. granted' \in [Requests -> Nat]
  BY <1>2, <1>3 DEF RequestInv, RequestsType
<1>5. RequestInv' /\ clerks'[k] = Free
  BY <1>1, <1>3, <1>4, GetsOn DEF RequestInv, RequestsType, Free
<1>6. PICK t \in Tests, n \in Nat : t = request[r].test /\ n = request[r].asked
  BY <1>2, OverrideAssumption DEF Stored
<1>7. Increment(t, n)
  BY <1>3, <1>6
<1> QED BY <1>1, <1>2, <1>3, <1>5, <1>6, <1>7, IncrementEffect

LEMMA FailTypes ==
  ASSUME RequestInv, NEW k \in Clerks, ClerkFails(k)
  PROVE  RequestInv' /\ UNCHANGED <<request, granted, extra>> /\ clerks'[k] = Free
<1>1. clerks' = [clerks EXCEPT ![k] = Free] /\ UNCHANGED <<request, granted, extra>>
  BY DEF ClerkFails, Done
<1> QED BY <1>1, GetsOn DEF RequestInv, RequestsType, Free

LEMMA RequestTypes ==
  ASSUME RequestInv, OverrideType, RequestsNext
  PROVE  RequestInv' /\ OverrideType'
<1>1. PICK k \in Clerks : \/ FindPending(k) \/ CreateRequest(k) \/ FindRequest(k)
                          \/ SaveDecision(k) \/ GrantRequest(k) \/ ClerkFails(k)
  BY DEF RequestsNext
<1>2. CASE GrantRequest(k)
  BY <1>2, GrantTypes
<1>3. UNCHANGED extra => OverrideType'
  BY DEF OverrideType
<1> QED BY <1>1, <1>2, <1>3, FindPendingTypes, CreateTypes, FindRequestTypes, SaveTypes,
           FailTypes

-----------------------------------------------------------------------------
(* TypeOK, strengthened by what the calls in progress rely on: a session that *)
(* is to be closed and a request that is being reviewed exist, and numbers   *)
(* have a bound.                                                             *)
TypeInv == OverrideType /\ CreationInv /\ RequestInv

LEMMA TypeInvInit == Init => TypeInv
<1> SUFFICES ASSUME Init PROVE TypeInv
  OBVIOUS
<1>1. OverrideType
  BY DEF Init, OverrideInit, OverrideType
<1>2. CreationInv
  <2>1. sessions \in Seq(Session) /\ DOMAIN sessions = {}
    BY DEF Init, CreationInit
  <2>2. Bounded
    BY <2>1 DEF Bounded
  <2> QED BY <2>1, <2>2 DEF Init, CreationInit, CreationInv, CreationType, Sound, NotStarting
<1>3. RequestInv
  BY DEF Init, RequestsInit, RequestInv, RequestsType, Free
<1> QED BY <1>1, <1>2, <1>3 DEF TypeInv

LEMMA TypeInvStep == TypeInv /\ [Next]_vars => TypeInv'
<1> SUFFICES ASSUME TypeInv, [Next]_vars PROVE TypeInv'
  OBVIOUS
<1>1. UNCHANGED <<sessions, starts>> => CreationInv'
  BY DEF TypeInv, CreationInv, CreationType, Bounded, Sound
<1>2. UNCHANGED requestVars => RequestInv'
  BY DEF TypeInv, RequestInv, RequestsType, requestVars
<1>3. CASE CreationNext /\ UNCHANGED requestVars
  BY <1>2, <1>3, StartTypes DEF TypeInv
<1>4. CASE RequestsNext /\ UNCHANGED <<sessions, starts>>
  BY <1>1, <1>4, RequestTypes DEF TypeInv
<1>5. CASE Administer /\ UNCHANGED <<sessions, starts, requestVars>>
  BY <1>1, <1>2, <1>5, AdministerEffect DEF TypeInv
<1>6. CASE UNCHANGED vars
  BY <1>1, <1>2, <1>6 DEF TypeInv, OverrideType, vars
<1> QED BY <1>3, <1>4, <1>5, <1>6 DEF Next

(* createSession, the reviews and the administrator leave sessions, requests *)
(* and overrides well formed, however their steps mix.                       *)
THEOREM Types == Spec => []TypeOK
<1>1. TypeInv => TypeOK
  BY DEF TypeInv, TypeOK, CreationInv, RequestInv
<1> QED BY <1>1, TypeInvInit, TypeInvStep, PTL DEF Spec

-----------------------------------------------------------------------------
(* Reviews that do not overlap. *)

(* What the call in progress has read is still so.                           *)
StillTrue(p) ==
  /\ p.pc = "create" => Pending(p.test) = {}
  /\ p.pc = "save" => request[p.about].status = "pending"
  /\ p.pc = "grant" => request[p.about].status = "approved" /\ granted[p.about] = 0

ReviewInv ==
  /\ \A k \in Clerks : StillTrue(clerks[k])
  /\ \A r \in Requests : /\ granted[r] \in {0, 1}
                         /\ request[r].status \in {"none", "pending"} => granted[r] = 0
  /\ \A r, q \in Requests :
        /\ request[r].status = "pending" /\ request[q].status = "pending"
        /\ request[r].test = request[q].test
        => r = q

LEMMA CreateStep ==
  ASSUME TypeInv, ReviewInv, NEW k \in Clerks, CreateRequest(k)
  PROVE  /\ StillTrue(clerks[k])'
         /\ \A r \in Requests : /\ granted'[r] \in {0, 1}
                                /\ request'[r].status \in {"none", "pending"} => granted'[r] = 0
         /\ \A r, q \in Requests :
               /\ request'[r].status = "pending" /\ request'[q].status = "pending"
               /\ request'[r].test = request'[q].test
               => r = q
         /\ \E r \in Requests : Account!Ask(r)
         /\ UNCHANGED extra
<1>1. /\ clerks[k] \in Asking /\ clerks'[k] = Free /\ UNCHANGED <<granted, extra>>
      /\ request \in [Requests -> Stored \cup {NoRequest}]
  BY CreateTypes DEF TypeInv, RequestInv, RequestsType
<1> DEFINE s == [status |-> "pending", test |-> clerks[k].test, asked |-> clerks[k].asked]
<1>2. PICK r \in Requests : request[r].status = "none" /\ request' = [request EXCEPT ![r] = s]
  BY CreateTypes DEF TypeInv
<1>3. s.status = "pending" /\ s.test = clerks[k].test
  OBVIOUS
<1>4. clerks[k].pc = "create" /\ clerks[k].test \in Tests /\ clerks[k].asked \in Amounts
  BY <1>1 DEF Asking
<1>5. \A q \in Requests : ~(request[q].status = "pending" /\ request[q].test = clerks[k].test)
  BY <1>4 DEF ReviewInv, StillTrue, Pending
<1>6. Account!Ask(r)
  BY <1>1, <1>2, <1>4 DEF Account!Ask, ExtraAttempts
<1> HIDE DEF s
<1>7. request'[r] = s /\ \A q \in Requests \ {r} : request'[q] = request[q]
  BY <1>1, <1>2
<1>8. StillTrue(clerks[k])'
  BY <1>1 DEF StillTrue, Free
<1>9. \A q \in Requests : /\ granted'[q] \in {0, 1}
                          /\ request'[q].status \in {"none", "pending"} => granted'[q] = 0
  BY <1>1, <1>2, <1>7 DEF ReviewInv
<1>10. \A p, q \in Requests :
          /\ request'[p].status = "pending" /\ request'[q].status = "pending"
          /\ request'[p].test = request'[q].test
          => p = q
  BY <1>3, <1>5, <1>7 DEF ReviewInv
<1> QED BY <1>1, <1>6, <1>8, <1>9, <1>10

LEMMA SaveStep ==
  ASSUME TypeInv, ReviewInv, NEW k \in Clerks, SaveDecision(k)
  PROVE  /\ StillTrue(clerks[k])'
         /\ \A r \in Requests : /\ granted'[r] \in {0, 1}
                                /\ request'[r].status \in {"none", "pending"} => granted'[r] = 0
         /\ \A r, q \in Requests :
               /\ request'[r].status = "pending" /\ request'[q].status = "pending"
               /\ request'[r].test = request'[q].test
               => r = q
         /\ \E r \in Requests : Account!Decide(r)
         /\ UNCHANGED extra
<1>1. /\ clerks[k] \in Reviewing /\ clerks[k].pc = "save" /\ UNCHANGED <<granted, extra>>
      /\ request' = [request EXCEPT ![clerks[k].about].status = clerks[k].decision]
      /\ request[clerks[k].about] \in Stored
      /\ request \in [Requests -> Stored \cup {NoRequest}]
  BY SaveTypes, Kinds DEF TypeInv, RequestInv, RequestsType
<1> DEFINE r == clerks[k].about
           s == [request[r] EXCEPT !.status = clerks[k].decision]
<1>2. r \in Requests /\ clerks[k].decision \in {"approved", "rejected"}
  BY <1>1 DEF Reviewing
<1>3. request[r].status = "pending"
  BY <1>1 DEF ReviewInv, StillTrue
<1>4. Account!Decide(r)
  BY <1>1, <1>2, <1>3 DEF Account!Decide, ExtraAttempts
<1>5. s.status = clerks[k].decision
  BY <1>1 DEF Stored
<1>6. request'[r] = s /\ \A q \in Requests \ {r} : request'[q] = request[q]
  BY <1>1, <1>2
<1>7. granted[r] = 0
  BY <1>2, <1>3 DEF ReviewInv
<1>8. StillTrue(clerks[k])'
  <2>1. CASE clerks'[k] = Free
    BY <2>1 DEF StillTrue, Free
  <2>2. CASE /\ clerks[k].decision = "approved"
             /\ clerks'[k] = [clerks[k] EXCEPT !.pc = "grant"]
    <3>1. clerks'[k].pc = "grant" /\ clerks'[k].about = r
      BY <1>1, <2>2 DEF Reviewing
    <3> HIDE DEF r, s
    <3>2. request'[clerks'[k].about].status = "approved" /\ granted'[clerks'[k].about] = 0
      BY <1>1, <1>5, <1>6, <1>7, <2>2, <3>1
    <3> QED BY <3>1, <3>2 DEF StillTrue
  <2> QED BY <2>1, <2>2, SaveTypes DEF TypeInv
<1> HIDE DEF r, s
<1>9. \A q \in Requests : /\ granted'[q] \in {0, 1}
                          /\ request'[q].status \in {"none", "pending"} => granted'[q] = 0
  BY <1>1, <1>2, <1>5, <1>6 DEF ReviewInv
<1>10. \A p, q \in Requests :
          /\ request'[p].status = "pending" /\ request'[q].status = "pending"
          /\ request'[p].test = request'[q].test
          => p = q
  BY <1>2, <1>5, <1>6 DEF ReviewInv
<1> QED BY <1>1, <1>2, <1>4, <1>8, <1>9, <1>10

LEMMA GrantStep ==
  ASSUME TypeInv, ReviewInv, NEW k \in Clerks, GrantRequest(k)
  PROVE  /\ StillTrue(clerks[k])'
         /\ \A r \in Requests : /\ granted'[r] \in {0, 1}
                                /\ request'[r].status \in {"none", "pending"} => granted'[r] = 0
         /\ UNCHANGED request
         /\ \E r \in Requests : Account!Grant(r)
<1>0. PICK r : r = clerks[k].about
  OBVIOUS
<1>1. /\ UNCHANGED request
      /\ clerks[k].pc = "grant" /\ clerks'[k] = Free
      /\ r \in Requests /\ request[r] \in Stored
      /\ granted' = [granted EXCEPT ![r] = granted[r] + 1]
      /\ granted \in [Requests -> Nat]
  BY <1>0, GrantTypes DEF TypeInv, RequestInv, RequestsType
<1>2. request[r].status = "approved" /\ granted[r] = 0
  BY <1>0, <1>1 DEF ReviewInv, StillTrue
<1>3. PICK t \in Tests : /\ t = request[r].test
                        /\ ExtraAttempts(t)' = ExtraAttempts(t) + request[r].asked
                        /\ \A u \in Tests \ {t} : ExtraAttempts(u)' = ExtraAttempts(u)
  BY <1>0, GrantTypes DEF TypeInv
<1>4. StillTrue(clerks[k])'
  BY <1>1 DEF StillTrue, Free
<1>5. \A q \in Requests : /\ granted'[q] \in {0, 1}
                          /\ request'[q].status \in {"none", "pending"} => granted'[q] = 0
  BY <1>1, <1>2 DEF ReviewInv
<1>6. [u \in Tests |-> ExtraAttempts(u)]'
         = [[u \in Tests |-> ExtraAttempts(u)] EXCEPT ![t] = @ + request[r].asked]
  BY <1>3
<1>7. Account!Grant(r)
  BY <1>1, <1>2, <1>3, <1>6 DEF Account!Grant
<1> QED BY <1>1, <1>4, <1>5, <1>7

LEMMA ReviewStep ==
  ASSUME OneClerk, TypeInv, ReviewInv, [Next]_vars
  PROVE  ReviewInv' /\ [Account!Next]_Account!vars
<1> DEFINE Same == UNCHANGED <<request, granted, extra>>
<1>1. Same => UNCHANGED Account!vars
  BY DEF Account!vars, ExtraAttempts
<1>2. CASE UNCHANGED requestVars
  <2>1. ReviewInv'
    BY <1>2 DEF ReviewInv, StillTrue, Pending, requestVars
  <2>2. CASE UNCHANGED extra
    BY <1>1, <1>2, <2>1, <2>2 DEF requestVars
  <2>3. CASE Administer
    <3>1. PICK t \in Tests : \A u \in Tests \ {t} : ExtraAttempts(u)' = ExtraAttempts(u)
      BY <2>3, AdministerEffect DEF TypeInv
    <3>2. Account!Administer
      BY <1>2, <3>1 DEF Account!Administer, requestVars
    <3> QED BY <2>1, <3>2 DEF Account!Next
  <2>4. CreationNext => UNCHANGED extra
    BY DEF CreationNext, StartStep, CreateSession, FindSession, CloseSession, CountAttempts,
           CheckLimit, NumberAttempt, InsertSession, StartFails, SessionEnds
  <2>5. RequestsNext => UNCHANGED extra
    <3>1. ASSUME NEW k \in Clerks, GrantRequest(k) PROVE FALSE
      BY <1>2, <3>1, GrantTypes DEF TypeInv, Free, requestVars
    <3> QED BY <3>1 DEF RequestsNext, FindPending, CreateRequest, FindRequest,
                        SaveDecision, ClerkFails
  <2> QED BY <2>2, <2>3, <2>4, <2>5 DEF Next, vars
<1>3. ASSUME NEW k \in Clerks, StillTrue(clerks[k])',
             \A r \in Requests : /\ granted'[r] \in {0, 1}
                                 /\ request'[r].status \in {"none", "pending"}
                                       => granted'[r] = 0,
             \A r, q \in Requests :
               /\ request'[r].status = "pending" /\ request'[q].status = "pending"
               /\ request'[r].test = request'[q].test
               => r = q
      PROVE  ReviewInv'
  <2>1. \A d \in Clerks : StillTrue(clerks[d])'
    BY <1>3 DEF OneClerk
  <2> QED BY <1>3, <2>1 DEF ReviewInv
<1>4. ASSUME NEW k \in Clerks,
             \/ FindPending(k) \/ CreateRequest(k) \/ FindRequest(k)
             \/ SaveDecision(k) \/ GrantRequest(k) \/ ClerkFails(k)
      PROVE  ReviewInv' /\ [Account!Next]_Account!vars
  <2>1. ASSUME Same, StillTrue(clerks[k])'
        PROVE  ReviewInv' /\ UNCHANGED Account!vars
    BY <1>1, <1>3, <2>1 DEF ReviewInv
  <2>2. CASE FindPending(k)
    <3>1. Same /\ StillTrue(clerks[k])'
      BY <2>2, FindPendingTypes DEF TypeInv, StillTrue, Pending
    <3> QED BY <2>1, <3>1
  <2>3. CASE FindRequest(k)
    <3>1. Same /\ StillTrue(clerks[k])'
      BY <2>3, FindRequestTypes DEF TypeInv, StillTrue
    <3> QED BY <2>1, <3>1
  <2>4. CASE ClerkFails(k)
    <3>1. Same /\ StillTrue(clerks[k])'
      BY <2>4, FailTypes DEF TypeInv, StillTrue, Free
    <3> QED BY <2>1, <3>1
  <2>5. CASE CreateRequest(k)
    BY <2>5, CreateStep, <1>3 DEF Account!Next
  <2>6. CASE SaveDecision(k)
    BY <2>6, SaveStep, <1>3 DEF Account!Next
  <2>7. CASE GrantRequest(k)
    BY <2>7, GrantStep, <1>3 DEF Account!Next, ReviewInv
  <2> QED BY <1>4, <2>2, <2>3, <2>4, <2>5, <2>6, <2>7
<1> QED BY <1>2, <1>4 DEF Next, RequestsNext, vars

LEMMA ReviewInvInit == Init => ReviewInv
BY DEF Init, RequestsInit, ReviewInv, StillTrue, Free, NoRequest

LEMMA ReviewInvariant ==
  ASSUME OneClerk
  PROVE  Spec => [](TypeInv /\ ReviewInv)
<1>1. TypeInv /\ ReviewInv /\ [Next]_vars => (TypeInv /\ ReviewInv)'
  BY ReviewStep, TypeInvStep
<1> QED BY <1>1, TypeInvInit, ReviewInvInit, PTL DEF Spec

(* Reviews one at a time: a student never has two pending requests for a     *)
(* test.                                                                    *)
THEOREM RequestsAreFew ==
  ASSUME OneClerk
  PROVE  Spec => []OnePendingRequest
<1>1. ReviewInv => OnePendingRequest
  <2> SUFFICES ASSUME ReviewInv, NEW t \in Tests
               PROVE  Cardinality(Pending(t)) <= 1
    BY DEF OnePendingRequest
  <2>1. CASE Pending(t) = {}
    BY <2>1, FS_EmptySet
  <2>2. CASE Pending(t) # {}
    <3>1. PICK r \in Requests : r \in Pending(t)
      BY <2>2 DEF Pending
    <3>2. Pending(t) = {r}
      BY <3>1 DEF ReviewInv, Pending
    <3>3. Cardinality({r}) = 1
      BY FS_Singleton
    <3> QED BY <3>2, <3>3
  <2> QED BY <2>1, <2>2
<1> QED BY <1>1, ReviewInvariant, PTL

(* Reviews one at a time: whatever starts and administrators do, every       *)
(* request is decided once, and granted once and in full when it is approved *)
(* or, after a failure, not at all.                                          *)
THEOREM RequestsAreAnAccount ==
  ASSUME OneClerk
  PROVE  Spec => IsAccount
<1>1. Init => Account!Init
  BY DEF Init, RequestsInit, OverrideInit, Account!Init, ExtraAttempts, NoRequest
<1>2. TypeInv /\ ReviewInv /\ [Next]_vars => [Account!Next]_Account!vars
  BY ReviewStep
<1> QED BY <1>1, <1>2, ReviewInvariant, PTL DEF Spec, IsAccount, Account!Spec

-----------------------------------------------------------------------------
(* Starts that do not overlap. *)

(* What the start in progress has found out is still so: no session but the  *)
(* one it closes is in progress, and no attempt has been added since.        *)
Holds(p) ==
  /\ p.pc = "close" => Active \subseteq {p.found}
  /\ p.pc \in {"count", "limit", "number", "insert"} => Active = {}
  /\ p.pc = "limit" => p.used = Cardinality(Of(p.test))
  /\ p.pc \in {"number", "insert"} => Cardinality(Of(p.test)) < p.allowed
  /\ p.pc = "insert" => \A i \in Of(p.test) : sessions[i].number < p.number

LimitInv == /\ \A c \in Starts : Holds(starts[c])
            /\ \A i, j \in Active : i = j
            /\ AttemptNumbersDiffer

LEMMA AloneHolds ==
  ASSUME OneStart, LimitInv, UNCHANGED sessions, NEW c \in Starts, Holds(starts'[c])
  PROVE  LimitInv'
<1>1. \A d \in Starts : Holds(starts[d])'
  BY DEF OneStart, Holds, Active, Of
<1>2. (\A i, j \in Active : i = j)' /\ AttemptNumbersDiffer'
  BY DEF LimitInv, Active, AttemptNumbersDiffer
<1> QED BY <1>1, <1>2 DEF LimitInv

(* A session that gets another status ends, and attempts stay attempts.      *)
LEMMA EndHolds ==
  ASSUME CreationType, LimitInv, NEW i, NEW status, Relabelled(i, status)
  PROVE  /\ (\A j, k \in Active : j = k)' /\ AttemptNumbersDiffer'
         /\ \A p : Holds(p) => Holds(p)'
<1>1. /\ DOMAIN sessions' = DOMAIN sessions
      /\ \A j \in DOMAIN sessions : /\ sessions'[j].test = sessions[j].test
                                    /\ sessions'[j].number = sessions[j].number
      /\ Active' = Active \ {i}
      /\ \A t : Of(t)' = Of(t)
      /\ \A t : Of(t) \subseteq DOMAIN sessions
  BY RelabelledEffect, SessionFacts
<1>2. (\A j, k \in Active : j = k)'
  BY <1>1 DEF LimitInv
<1>3. AttemptNumbersDiffer'
  BY <1>1 DEF LimitInv, AttemptNumbersDiffer
<1>4. ASSUME NEW p, Holds(p) PROVE Holds(p)'
  BY <1>1, <1>4 DEF Holds
<1> QED BY <1>2, <1>3, <1>4

LEMMA FindHolds ==
  ASSUME CreationInv, LimitInv, NEW c \in Starts, FindSession(c)
  PROVE  Holds(starts'[c])
<1>1. starts[c] \in Progress
  BY InProgress DEF CreationInv, FindSession, At
<1>2. starts \in [Starts -> Progress \cup {NotStarting}]
  BY DEF CreationInv, CreationType
<1>3. CASE Active = {} /\ Goto(c, "count")
  <2>1. starts'[c] = [starts[c] EXCEPT !.pc = "count"]
    BY <1>2, <1>3 DEF Goto
  <2>2. starts'[c].pc = "count"
    BY <1>1, <2>1 DEF Progress
  <2> QED BY <1>3, <2>2 DEF Holds
<1>4. CASE Refuse(c)
  BY <1>2, <1>4 DEF Refuse, NotStarting, Holds
<1>5. ASSUME NEW i \in Active,
             starts' = [starts EXCEPT ![c].pc = "close", ![c].found = i]
      PROVE  Holds(starts'[c])
  <2>1. starts'[c] = [starts[c] EXCEPT !.pc = "close", !.found = i]
    BY <1>2, <1>5
  <2>2. starts'[c].pc = "close" /\ starts'[c].found = i
    BY <1>1, <2>1 DEF Progress
  <2>3. Active \subseteq {i}
    BY DEF LimitInv
  <2> QED BY <2>2, <2>3 DEF Holds
<1> QED BY <1>3, <1>4, <1>5 DEF FindSession

LEMMA CloseHolds ==
  ASSUME CreationInv, LimitInv, NEW c \in Starts, CloseSession(c)
  PROVE  Holds(starts[c])' /\ (\A i, j \in Active : i = j)' /\ AttemptNumbersDiffer'
<1>1. PICK status \in Closed : Relabelled(starts[c].found, status)
  BY CloseTypes
<1>2. Active \subseteq {starts[c].found}
  BY DEF LimitInv, Holds, CloseSession, At
<1>3. Active' = {}
  BY <1>1, <1>2, RelabelledEffect DEF CreationInv
<1>4. starts'[c].pc = "count"
  BY CloseTypes DEF Progress
<1> QED BY <1>1, <1>3, <1>4, EndHolds DEF CreationInv, Holds

LEMMA CountHolds ==
  ASSUME CreationInv, LimitInv, NEW c \in Starts, CountAttempts(c)
  PROVE  Holds(starts'[c])
<1>1. Active = {}
  BY DEF LimitInv, Holds, CountAttempts, At
<1>2. Counted(starts[c].test) = Of(starts[c].test)
  BY <1>1, SessionFacts DEF Counted, Of, Active, Session, CreationInv
<1>3. /\ starts'[c].pc = "limit"
      /\ starts'[c].test = starts[c].test
      /\ starts'[c].used = Cardinality(Counted(starts[c].test))
  BY CountTypes DEF Progress
<1> QED BY <1>1, <1>2, <1>3 DEF Holds

LEMMA LimitHolds ==
  ASSUME CreationInv, OverrideType, LimitInv, NEW c \in Starts, CheckLimit(c)
  PROVE  Holds(starts'[c])
<1>1. CASE starts'[c] = NotStarting
  BY <1>1 DEF Holds, NotStarting
<1>2. ASSUME NEW total \in Nat, starts[c].used < total,
             starts'[c] = [starts[c] EXCEPT !.pc = "number", !.allowed = total]
      PROVE  Holds(starts'[c])
  <2>1. Active = {} /\ starts[c].used = Cardinality(Of(starts[c].test))
    BY DEF LimitInv, Holds, CheckLimit, At
  <2>2. /\ starts'[c].pc = "number" /\ starts'[c].test = starts[c].test
        /\ starts'[c].allowed = total
    BY <1>2, LimitTypes DEF Progress
  <2> QED BY <1>2, <2>1, <2>2 DEF Holds
<1> QED BY <1>1, <1>2, LimitTypes

LEMMA NumberHolds ==
  ASSUME CreationInv, LimitInv, NEW c \in Starts, NumberAttempt(c)
  PROVE  Holds(starts'[c])
<1>1. PICK n \in Nat \ {0} :
         /\ \A i \in Of(starts[c].test) : sessions[i].number < n
         /\ starts'[c] = [starts[c] EXCEPT !.pc = "insert", !.number = n]
  BY NumberTypes
<1>2. Active = {} /\ Cardinality(Of(starts[c].test)) < starts[c].allowed
  BY DEF LimitInv, Holds, NumberAttempt, At
<1>3. /\ starts'[c].pc = "insert" /\ starts'[c].test = starts[c].test
      /\ starts'[c].number = n /\ starts'[c].allowed = starts[c].allowed
  BY <1>1, NumberTypes DEF Progress
<1> QED BY <1>1, <1>2, <1>3 DEF Holds

(* The session inserted is the only one in progress, its number is new, and  *)
(* it is within the limit.                                                   *)
LEMMA InsertHolds ==
  ASSUME CreationInv, LimitInv, NEW c \in Starts, InsertSession(c)
  PROVE  /\ Holds(starts[c])'
         /\ (\A i, j \in Active : i = j)' /\ AttemptNumbersDiffer'
         /\ \A t \in Tests : starts[c].test = t => Cardinality(Of(t)') <= starts[c].allowed
<1>1. starts[c].number # 0
  BY DEF InsertSession, At, CreationInv, Sound
<1>2. PICK n : n = Len(sessions) + 1
  OBVIOUS
<1>3. /\ starts[c] \in Progress
      /\ n \notin DOMAIN sessions
      /\ DOMAIN sessions' = DOMAIN sessions \cup {n}
      /\ \A j \in DOMAIN sessions : sessions'[j] = sessions[j]
      /\ sessions'[n].test = starts[c].test
      /\ sessions'[n].number = starts[c].number
      /\ Active' = Active \cup {n}
      /\ \A t \in Tests : t = starts[c].test => Of(t)' = Of(t) \cup {n}
  BY <1>1, <1>2, InsertEffect DEF CreationInv
<1>4. /\ Active = {}
      /\ Cardinality(Of(starts[c].test)) < starts[c].allowed
      /\ \A i \in Of(starts[c].test) : sessions[i].number < starts[c].number
  BY DEF LimitInv, Holds, InsertSession, At
<1>5. Holds(starts[c])'
  BY InsertTypes DEF Holds, NotStarting
<1>6. (\A i, j \in Active : i = j)'
  BY <1>3, <1>4
<1>7. AttemptNumbersDiffer'
  <2>1. \A i \in DOMAIN sessions : /\ sessions[i].number \in Nat
                                   /\ sessions[i].test = starts[c].test
                                         => sessions[i].number < starts[c].number
    BY <1>4, SessionFacts DEF CreationInv, Session, Of
  <2>2. \A i \in DOMAIN sessions : sessions[i].test = starts[c].test
                                      => sessions[i].number # starts[c].number
    BY <2>1
  <2> QED BY <1>3, <2>2 DEF LimitInv, AttemptNumbersDiffer
<1>8. ASSUME NEW t \in Tests, starts[c].test = t
      PROVE  Cardinality(Of(t)') <= starts[c].allowed
  <2>1. n \notin Of(t) /\ Of(t)' = Of(t) \cup {n}
    BY <1>3, <1>8, SessionFacts DEF CreationInv
  <2>2. IsFiniteSet(Of(t)) /\ Cardinality(Of(t)) \in Nat
    BY CountFacts DEF CreationInv
  <2>3. Cardinality(Of(t) \cup {n}) = Cardinality(Of(t)) + 1
    BY <2>1, <2>2, FS_AddElement
  <2>4. Cardinality(Of(t)) < starts[c].allowed /\ starts[c].allowed \in Nat
    BY <1>3, <1>4, <1>8 DEF Progress
  <2> QED BY <2>1, <2>2, <2>3, <2>4
<1> QED BY <1>5, <1>6, <1>7, <1>8

LEMMA LimitStep ==
  ASSUME OneStart, TypeInv, LimitInv, [Next]_vars
  PROVE  LimitInv'
<1> USE DEF TypeInv
<1>1. CASE UNCHANGED <<sessions, starts>>
  BY <1>1 DEF LimitInv, Holds, Active, Of, AttemptNumbersDiffer
<1>2. CASE SessionEnds
  <2>1. PICK i \in Active, status \in Closed : Relabelled(i, status)
    BY <1>2, EndTypes
  <2>2. UNCHANGED starts
    BY <1>2 DEF SessionEnds
  <2> QED BY <2>1, <2>2, EndHolds DEF LimitInv, CreationInv
<1>3. ASSUME NEW c \in Starts, Holds(starts[c])',
             (\A i, j \in Active : i = j)', AttemptNumbersDiffer'
      PROVE  LimitInv'
  BY <1>3 DEF OneStart, LimitInv
<1>4. ASSUME NEW c \in Starts, StartStep(c)
      PROVE  LimitInv'
  <2>1. CASE CloseSession(c)
    BY <1>3, <2>1, CloseHolds
  <2>2. CASE InsertSession(c)
    BY <1>3, <2>2, InsertHolds
  <2>3. ASSUME NEW t \in Tests, NEW forceNew \in BOOLEAN, CreateSession(c, t, forceNew)
        PROVE  LimitInv'
    <3>1. starts'[c].pc = "find" /\ UNCHANGED sessions
      BY <2>3 DEF CreateSession, CreationInv, CreationType
    <3> QED BY <3>1, AloneHolds DEF Holds
  <2>4. CASE StartFails(c)
    <3>1. starts'[c] = NotStarting /\ UNCHANGED sessions
      BY <2>4 DEF StartFails, Refuse, CreationInv, CreationType
    <3> QED BY <3>1, AloneHolds DEF Holds, NotStarting
  <2>5. CASE FindSession(c) \/ CountAttempts(c) \/ CheckLimit(c) \/ NumberAttempt(c)
    <3>1. UNCHANGED sessions
      BY <2>5 DEF FindSession, CountAttempts, CheckLimit, NumberAttempt
    <3> QED BY <2>5, <3>1, AloneHolds, FindHolds, CountHolds, LimitHolds, NumberHolds
  <2> QED BY <1>4, <2>1, <2>2, <2>3, <2>4, <2>5 DEF StartStep
<1> QED BY <1>1, <1>2, <1>4 DEF Next, CreationNext, vars

LEMMA LimitInvariant ==
  ASSUME OneStart
  PROVE  Spec => [](TypeInv /\ LimitInv)
<1>1. Init => LimitInv
  BY DEF Init, CreationInit, LimitInv, Holds, Active, AttemptNumbersDiffer, NotStarting
<1>2. TypeInv /\ LimitInv /\ [Next]_vars => (TypeInv /\ LimitInv)'
  BY LimitStep, TypeInvStep
<1> QED BY <1>1, <1>2, TypeInvInit, PTL DEF Spec

(* Starts one at a time: a student has one session in progress, though       *)
(* sessions end, and calls fail half-way, at any moment.                     *)
THEOREM OneSessionAtATime ==
  ASSUME OneStart
  PROVE  Spec => []OneActiveSession
<1>1. LimitInv => OneActiveSession
  <2> SUFFICES ASSUME LimitInv PROVE Cardinality(Active) <= 1
    BY DEF OneActiveSession
  <2>1. CASE Active = {}
    BY <2>1, FS_EmptySet
  <2>2. CASE Active # {}
    <3>1. PICK i : Active = {i}
      BY <2>2 DEF LimitInv
    <3>2. Cardinality({i}) = 1
      BY FS_Singleton
    <3> QED BY <3>1, <3>2
  <2> QED BY <2>1, <2>2
<1> QED BY <1>1, LimitInvariant, PTL

(* Starts one at a time: no two attempts on a test have the same number.     *)
THEOREM AttemptsAreTold ==
  ASSUME OneStart
  PROVE  Spec => []AttemptNumbersDiffer
<1>1. LimitInv => AttemptNumbersDiffer
  BY DEF LimitInv
<1> QED BY <1>1, LimitInvariant, PTL

(* Starts one at a time: every session that is inserted is within the limit  *)
(* its start was checked against, however many have ended or been abandoned  *)
(* since, and whatever administrators and reviews did to the override.        *)
THEOREM AttemptsAreLimited ==
  ASSUME OneStart
  PROVE  Spec => StartsWithinAllowance
<1> DEFINE Within == \A c \in Starts, t \in Tests :
                        InsertSession(c) /\ starts[c].test = t
                           => Cardinality(Of(t)') <= starts[c].allowed
<1>1. TypeInv /\ LimitInv => Within
  BY InsertHolds DEF TypeInv
<1>2. TypeInv /\ LimitInv => [Within]_sessions
  BY <1>1
<1> QED BY <1>2, LimitInvariant, PTL DEF StartsWithinAllowance
==============================================================================

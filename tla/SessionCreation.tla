--------------------------- MODULE SessionCreation ---------------------------
(***************************************************************************)
(* createSession for one student: every database operation on the way from *)
(* the request to the new session is a step.  What else happens to a        *)
(* session is TestSession's affair: here it may end at any time.            *)
(* Accounts with unlimitedAttempts, which skip the check, are left out.     *)
(***************************************************************************)
EXTENDS TestOverride, Sequences, FiniteSetsExt

CONSTANTS AttemptsAllowed,  \* test.settings.attemptsAllowed of each test
          Starts,           \* calls of createSession in progress at once
          MaxSessions       \* bound on the sessions of the student

ASSUME CreationAssumption == /\ AttemptsAllowed \in [Tests -> Nat]
                             /\ MaxSessions \in Nat

VARIABLES sessions,  \* the student's sessions in the order of their creation
          starts     \* the progress of each call

Closed == {"completed", "expired", "abandoned"}

Session == [test : Tests, status : Closed \cup {"inProgress"}, number : Nat \ {0}]

(* A call in progress: its parameters, the session it found, the attempts    *)
(* it counted, totalAllowed and the number of the new attempt.               *)
Progress == [pc : {"find", "close", "count", "limit", "number", "insert"},
             test : Tests, forceNew : BOOLEAN, found : Nat, used : Nat,
             allowed : Nat, number : Nat]

NotStarting == [pc |-> "idle"]

CreationType == /\ sessions \in Seq(Session)
                /\ starts \in [Starts -> Progress \cup {NotStarting}]

CreationInit == /\ sessions = << >>
                /\ starts = [c \in Starts |-> NotStarting]

Active == {i \in DOMAIN sessions : sessions[i].status = "inProgress"}
Of(t) == {i \in DOMAIN sessions : sessions[i].test = t}
Counted(t) == {i \in Of(t) : sessions[i].status \in Closed}

-----------------------------------------------------------------------------
At(c, pc) == starts[c].pc = pc

Goto(c, pc) == starts' = [starts EXCEPT ![c].pc = pc]

Refuse(c) == starts' = [starts EXCEPT ![c] = NotStarting]

CreateSession(c, t, forceNew) ==
    /\ At(c, "idle")
    /\ starts' = [starts EXCEPT ![c] =
                     [pc |-> "find", test |-> t, forceNew |-> forceNew,
                      found |-> 0, used |-> 0, allowed |-> 0, number |-> 0]]
    /\ UNCHANGED <<sessions, extra>>

BugFindSession(c) ==
    /\ At(c, "find")
    /\ \/ /\ Active \cap Of(starts[c].test) = {}
          /\ Goto(c, "count")
       \/ \E i \in Active \cap Of(starts[c].test) :
             starts' = [starts EXCEPT ![c].pc = "close", ![c].found = i]
       \/ /\ ~starts[c].forceNew
          /\ Active \cap Of(starts[c].test) # {}
          /\ Refuse(c)
    /\ UNCHANGED <<sessions, extra>>

(* The session found is abandoned by forceNew; without it, the session is   *)
(* expired if its time is up, and otherwise the call is refused.            *)
FindSession(c) ==
    /\ At(c, "find")
    /\ \/ /\ Active = {}
          /\ Goto(c, "count")
       \/ \E i \in Active :
             starts' = [starts EXCEPT ![c].pc = "close", ![c].found = i]
       \/ /\ ~starts[c].forceNew
          /\ Active # {}
          /\ Refuse(c)
    /\ UNCHANGED <<sessions, extra>>

BugCloseSession(c) ==
    /\ At(c, "close")
    /\ sessions' = [sessions EXCEPT ![starts[c].found].status =
                       IF starts[c].forceNew THEN "abandoned" ELSE "failed"]
    /\ Goto(c, "count")
    /\ UNCHANGED extra

(* The save, over whatever the session has become since it was found.       *)
CloseSession(c) ==
    /\ At(c, "close")
    /\ sessions' = [sessions EXCEPT ![starts[c].found].status =
                       IF starts[c].forceNew THEN "abandoned" ELSE "expired"]
    /\ Goto(c, "count")
    /\ UNCHANGED extra

BugCountAttempts(c) ==
    /\ At(c, "count")
    /\ starts' = [starts EXCEPT ![c].pc = "limit",
                     ![c].used = Cardinality({i \in Of(starts[c].test) :
                                                sessions[i].status = "completed"})]
    /\ UNCHANGED <<sessions, extra>>

CountAttempts(c) ==
    /\ At(c, "count")
    /\ starts' = [starts EXCEPT ![c].pc = "limit",
                                ![c].used = Cardinality(Counted(starts[c].test))]
    /\ UNCHANGED <<sessions, extra>>

CheckLimit(c) ==
    LET total == AttemptsAllowed[starts[c].test] + ExtraAttempts(starts[c].test)
    IN  /\ At(c, "limit")
        /\ IF starts[c].used >= total
           THEN Refuse(c)
           ELSE starts' = [starts EXCEPT ![c].pc = "number", ![c].allowed = total]
        /\ UNCHANGED <<sessions, extra>>

BugNumberAttempt(c) ==
    /\ At(c, "number")
    /\ starts' = [starts EXCEPT ![c].pc = "insert",
                     ![c].number = Max({0} \cup {sessions[i].number :
                        i \in {j \in Of(starts[c].test) :
                                  sessions[j].status = "completed"}}) + 1]
    /\ UNCHANGED <<sessions, extra>>

(* The highest attemptNumber on this test, whatever the status, and one.     *)
NumberAttempt(c) ==
    /\ At(c, "number")
    /\ starts' = [starts EXCEPT ![c].pc = "insert",
                     ![c].number = Max({0} \cup {sessions[i].number :
                                                 i \in Of(starts[c].test)}) + 1]
    /\ UNCHANGED <<sessions, extra>>

InsertSession(c) ==
    /\ At(c, "insert")
    /\ Len(sessions) < MaxSessions
    /\ sessions' = Append(sessions, [test |-> starts[c].test, status |-> "inProgress",
                                     number |-> starts[c].number])
    /\ starts' = [starts EXCEPT ![c] = NotStarting]
    /\ UNCHANGED extra

(* A database operation fails, or the server restarts.                      *)
StartFails(c) == /\ ~At(c, "idle")
                 /\ Refuse(c)
                 /\ UNCHANGED <<sessions, extra>>

(* A session in progress is submitted, abandoned or expires.                *)
SessionEnds == /\ \E i \in Active, status \in Closed :
                     sessions' = [sessions EXCEPT ![i].status = status]
               /\ UNCHANGED <<starts, extra>>

StartStep(c) == \/ \E t \in Tests, forceNew \in BOOLEAN : CreateSession(c, t, forceNew)
                \/ FindSession(c) \/ CloseSession(c) \/ CountAttempts(c)
                \/ CheckLimit(c) \/ NumberAttempt(c) \/ InsertSession(c)
                \/ StartFails(c)

CreationNext == (\E c \in Starts : StartStep(c)) \/ SessionEnds

-----------------------------------------------------------------------------
(* When starts do not overlap: a student has one session in progress at a   *)
(* time, on whatever test.                                                  *)
OneActiveSession == Cardinality(Active) <= 1

(* When starts do not overlap: the attempts on a test are told apart by     *)
(* their numbers.                                                           *)
AttemptNumbersDiffer ==
    \A i, j \in DOMAIN sessions :
       i # j /\ sessions[i].test = sessions[j].test
          => sessions[i].number # sessions[j].number

(* When starts do not overlap: a new session, counted with all others on     *)
(* its test in whatever state, is within the limit its start was checked    *)
(* against, whatever happened to sessions and overrides in between.         *)
StartsWithinAllowance ==
    [][\A c \in Starts, t \in Tests :
          InsertSession(c) /\ starts[c].test = t
             => Cardinality(Of(t)') <= starts[c].allowed]_sessions
=============================================================================

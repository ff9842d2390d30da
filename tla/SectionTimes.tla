----------------------------- MODULE SectionTimes -----------------------------
(***************************************************************************)
(* The time of a test with sections.  Each section has its own limit and   *)
(* its own start, there is one timer for the session, and submitSection    *)
(* moves on: it saves the session in the next section and then arms the    *)
(* timer anew, while the old one may fire at any moment.                   *)
(*                                                                         *)
(* The rest is TestSession: elapsed and TimeLimit are those of the section *)
(* in progress, all sections having the same limit, and sectionTimeUsed is *)
(* never written by the code, so that no other time counts.  Operations of *)
(* the other handlers that fail are left to TestSession.                   *)
(***************************************************************************)
EXTENDS TestSession, FiniteSets

CONSTANT NumSections   \* testSnapshot.sections.length

ASSUME SectionAssumption == NumSections \in Nat \ {0} /\ UseSections

Sections == 0..NumSections - 1

VARIABLES section,    \* currentSectionIndex
          completed,  \* completedSections
          from,       \* the section each submitSection has read
          shown,      \* the time since the section the student was last told of began
          ranOut      \* whether such a section has run out of time

sectionVars == <<section, completed, from, shown, ranOut>>
allVars == <<vars, sectionVars>>

SectionInit == /\ Init
               /\ section = 0
               /\ completed = {}
               /\ from = [c \in Calls |-> 0]
               /\ shown = 0
               /\ ranOut = FALSE

-----------------------------------------------------------------------------
(* submitSection. *)

BeginSection(c) == \E q \in Questions : Begin(c, "submitSection", q)

(* A section that is submitted already, which can only be the last one, is  *)
(* refused.  The code accepts it when it has been reviewed since, and then  *)
(* changes nothing that appears here.                                       *)
CheckSection(c) ==
    /\ Read(c, {"submitSection"})
    /\ UNCHANGED <<section, completed, shown, ranOut>>
    /\ IF section \in completed
       THEN calls' = Return(c) /\ UNCHANGED from
       ELSE /\ calls' = [calls EXCEPT ![c].pc = "section", ![c].sees = connected]
            /\ from' = [from EXCEPT ![c] = section]

(* The save, which the version check of arrays or the database may refuse.  *)
(* Without a next section the time goes on.                                 *)
SaveSection(c) ==
    /\ calls[c].pc = "section"
    /\ UNCHANGED <<document, results, timer, from, shown, ranOut, crashes, faults>>
    /\ \/ calls' = Return(c) /\ UNCHANGED <<elapsed, section, completed>>
       \/ /\ completed' = completed \cup {from[c]}
          /\ \E bumped \in BOOLEAN :
                IF from[c] + 1 \in Sections
                THEN /\ section' = from[c] + 1
                     /\ elapsed' = 0
                     /\ calls' = Invalidate(Goto(c, "next"), bumped)
                ELSE /\ calls' = Invalidate(Return(c), bumped)
                     /\ UNCHANGED <<section, elapsed>>

(* calculateSectionTimeRemaining of the copy that has been saved.           *)
LeftInCopy(c) == IF calls[c].sees THEN Left ELSE TimeLimit

BugKeepsTimer(c) ==
    /\ calls[c].pc = "next"
    /\ timer' = IF LeftInCopy(c) > 0 /\ timer = {} THEN {LeftInCopy(c)} ELSE timer
    /\ calls' = Return(c)
    /\ shown' = elapsed
    /\ UNCHANGED <<document, results, elapsed, crashes, faults>>
    /\ UNCHANGED <<section, completed, from, ranOut>>

(* startServerTimer for the next section, in place of any other timer, and  *)
(* the reply.                                                               *)
ArmSection(c) ==
    /\ calls[c].pc = "next"
    /\ timer' = IF LeftInCopy(c) > 0 THEN {LeftInCopy(c)} ELSE timer
    /\ calls' = Return(c)
    /\ shown' = elapsed
    /\ UNCHANGED <<document, results, elapsed, crashes, faults>>
    /\ UNCHANGED <<section, completed, from, ranOut>>

-----------------------------------------------------------------------------
(* The end of the test is refused before the last section, the timer being  *)
(* cleared by then, unless the student forces it.  What a submission that   *)
(* is not refused adds to completedSections is left out: nothing reads it   *)
(* once the session is completed.                                           *)
AtTheEnd ==
    \/ Cardinality(completed) >= NumSections
    \/ section = NumSections - 1 /\ Cardinality(completed) = NumSections - 1

RefuseSubmission(c) ==
    /\ calls[c].pc = "txnRead"
    /\ calls[c].op = "submit"
    /\ Active /\ ~AtTheEnd
    /\ calls' = Return(c)
    /\ UNCHANGED <<document, results, timer, elapsed, crashes, faults>>

(* An answer in a test with sections is never test_complete.                *)
SaveActivityInSection(c) == SaveActivity(c) /\ calls'[c].pc = "idle"

SectionStep(c) ==
    \/ /\ \/ ReadStep(c) \/ SaveExpired(c) \/ SaveAbandoned(c) \/ SaveConnected(c)
          \/ SaveDisconnected(c) \/ SaveActivityInSection(c)
          \/ SubmissionStep(c) \/ RefuseSubmission(c) \/ ArmTimer(c) \/ DisarmTimer(c)
       /\ UNCHANGED sectionVars
    \/ CheckSection(c) \/ SaveSection(c) \/ ArmSection(c)

SectionTimerFires == TimerFires /\ UNCHANGED sectionVars
SectionCronStarts == CronStarts /\ UNCHANGED sectionVars

SectionTick == /\ Tick
               /\ shown' = IF shown < TimeLimit THEN shown + 1 ELSE shown
               /\ ranOut' = (ranOut \/ shown' = TimeLimit)
               /\ UNCHANGED <<section, completed, from>>

SectionNext ==
    \/ \E c \in Calls : SectionStep(c)
    \/ SectionTimerFires \/ SectionCronStarts \/ SectionTick
    \/ /\ \/ \E c \in Requests, op \in Handlers, q \in Questions : Begin(c, op, q)
          \/ \E c \in Requests : BeginSection(c)
          \/ RefusedCall
       /\ UNCHANGED sectionVars
    \/ Crash /\ shown' = elapsed /\ UNCHANGED <<section, completed, from, ranOut>>

SectionSpec == SectionInit /\ [][SectionNext]_allVars

(* As in TestSession.                                                       *)
SectionFairness ==
    /\ \A c \in Calls : WF_allVars(SectionStep(c))
    /\ WF_allVars(SectionTimerFires)
    /\ WF_allVars(SectionCronStarts)
    /\ SF_allVars(SectionTick)

FairSectionSpec == SectionSpec /\ SectionFairness

-----------------------------------------------------------------------------
(* For a student who makes one call at a time, no section is cut short: the *)
(* timer has no less left than the section in progress, except while        *)
(* submitSection, which has moved on, is about to replace it; and the       *)
(* session is not ended by time unless a section it was in, as far as the   *)
(* student was told, has run out of it.                                     *)
NoSectionCutShort ==
    /\ (\A c \in Calls : calls[c].pc # "next") =>
          \A t \in timer : t >= TimeLimit - elapsed
    /\ status = "expired" \/ calls["expiry"].pc # "idle" => ranOut

(* A test with sections ends when its student stays connected from some     *)
(* time on, whatever sections are submitted, also when a restart or a call  *)
(* that clears the timer has lost it.                                       *)
SectionsEnd == <>[]connected => <>~Active
=============================================================================

--------------------------- MODULE AttemptRequests ---------------------------
(***************************************************************************)
(* The requests of one student for more attempts: submitAttemptRequest and  *)
(* reviewAttemptRequest, a step for each database operation.  Notifications *)
(* are sent after the last of these steps and left out.  No operation ever  *)
(* stores the status cancelled.                                            *)
(***************************************************************************)
EXTENDS TestOverride, FiniteSets

CONSTANTS Requests,  \* the requests that may be made
          Clerks     \* calls of the two operations in progress at once

VARIABLES request,   \* the stored requests
          granted,   \* how often each request was added to an override (history)
          clerks     \* the progress of each call

requestVars == <<request, granted, clerks>>

(* A call in progress: a request about to be created, or one under review.   *)
Asking == [pc : {"create"}, test : Tests, asked : Amounts]
Reviewing == [pc : {"save", "grant"}, about : Requests,
              decision : {"approved", "rejected"}]

Stored == [status : {"pending", "approved", "rejected"}, test : Tests, asked : Amounts]
NoRequest == [status |-> "none"]

Free == [pc |-> "idle"]

RequestsType ==
    /\ request \in [Requests -> Stored \cup {NoRequest}]
    /\ granted \in [Requests -> Nat]
    /\ clerks \in [Clerks -> Asking \cup Reviewing \cup {Free}]

RequestsInit ==
    /\ request = [r \in Requests |-> NoRequest]
    /\ granted = [r \in Requests |-> 0]
    /\ clerks = [c \in Clerks |-> Free]

Pending(t) == {r \in Requests : request[r].status = "pending" /\ request[r].test = t}

-----------------------------------------------------------------------------
Is(c, pc) == clerks[c].pc = pc

Done(c) == clerks' = [clerks EXCEPT ![c] = Free]

BugFindPending(c) ==
    \E t \in Tests, n \in Amounts :
       /\ Is(c, "idle")
       /\ clerks' = [clerks EXCEPT ![c] = [pc |-> "create", test |-> t, asked |-> n]]
       /\ UNCHANGED <<request, granted, extra>>

(* submitAttemptRequest refuses a second pending request for a test.        *)
FindPending(c) ==
    \E t \in Tests, n \in Amounts :
       /\ Is(c, "idle")
       /\ Pending(t) = {}
       /\ clerks' = [clerks EXCEPT ![c] = [pc |-> "create", test |-> t, asked |-> n]]
       /\ UNCHANGED <<request, granted, extra>>

CreateRequest(c) ==
    /\ Is(c, "create")
    /\ \E r \in Requests :
          /\ request[r].status = "none"
          /\ request' = [request EXCEPT ![r] = [status |-> "pending",
                                                test |-> clerks[c].test,
                                                asked |-> clerks[c].asked]]
    /\ Done(c)
    /\ UNCHANGED <<granted, extra>>

BugFindRequest(c) ==
    \E r \in Requests, decision \in {"approved", "rejected"} :
       /\ Is(c, "idle")
       /\ request[r].status # "none"
       /\ clerks' = [clerks EXCEPT ![c] = [pc |-> "save", about |-> r,
                                           decision |-> decision]]
       /\ UNCHANGED <<request, granted, extra>>

(* reviewAttemptRequest refuses a request that is not pending.              *)
FindRequest(c) ==
    \E r \in Requests, decision \in {"approved", "rejected"} :
       /\ Is(c, "idle")
       /\ request[r].status = "pending"
       /\ clerks' = [clerks EXCEPT ![c] = [pc |-> "save", about |-> r,
                                           decision |-> decision]]
       /\ UNCHANGED <<request, granted, extra>>

SaveDecision(c) ==
    /\ Is(c, "save")
    /\ request' = [request EXCEPT ![clerks[c].about].status = clerks[c].decision]
    /\ IF clerks[c].decision = "approved"
       THEN clerks' = [clerks EXCEPT ![c].pc = "grant"]
       ELSE Done(c)
    /\ UNCHANGED <<granted, extra>>

GrantRequest(c) ==
    /\ Is(c, "grant")
    /\ LET r == clerks[c].about
       IN  /\ Increment(request[r].test, request[r].asked)
           /\ granted' = [granted EXCEPT ![r] = @ + 1]
    /\ Done(c)
    /\ UNCHANGED request

(* A database operation fails, or the server restarts: what is saved stays. *)
ClerkFails(c) == /\ ~Is(c, "idle")
                 /\ Done(c)
                 /\ UNCHANGED <<request, granted, extra>>

RequestsNext == \E c \in Clerks : \/ FindPending(c) \/ CreateRequest(c)
                                  \/ FindRequest(c) \/ SaveDecision(c)
                                  \/ GrantRequest(c) \/ ClerkFails(c)

-----------------------------------------------------------------------------
(* When the calls do not overlap: a student has at most one pending request  *)
(* for a test.                                                              *)
OnePendingRequest == \A t \in Tests : Cardinality(Pending(t)) <= 1
=============================================================================

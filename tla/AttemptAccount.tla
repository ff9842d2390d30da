---------------------------- MODULE AttemptAccount ----------------------------
(* What attempt requests promise: a request is decided once, and one that is *)
(* approved is granted at most once, with the attempts it asked for.  The     *)
(* administrator may set the extra attempts to anything at any time.          *)
EXTENDS Naturals

CONSTANTS Requests, Tests, Amounts

VARIABLES request,  \* each request: its state, test and number of attempts
          granted,  \* how often each request has been granted
          account   \* the extra attempts on each test

vars == <<request, granted, account>>

Init == /\ request = [r \in Requests |-> [status |-> "none"]]
        /\ granted = [r \in Requests |-> 0]
        /\ account = [t \in Tests |-> 0]

Ask(r) == /\ request[r].status = "none"
          /\ \E t \in Tests, n \in Amounts :
                request' = [request EXCEPT ![r] = [status |-> "pending", test |-> t,
                                                   asked |-> n]]
          /\ UNCHANGED <<granted, account>>

Decide(r) == /\ request[r].status = "pending"
             /\ \E decision \in {"approved", "rejected"} :
                   request' = [request EXCEPT ![r].status = decision]
             /\ UNCHANGED <<granted, account>>

Grant(r) == /\ request[r].status = "approved"
            /\ granted[r] = 0
            /\ granted' = [granted EXCEPT ![r] = 1]
            /\ account' = [account EXCEPT ![request[r].test] = @ + request[r].asked]
            /\ UNCHANGED request

Administer == /\ \E t \in Tests : \A u \in Tests \ {t} : account'[u] = account[u]
              /\ UNCHANGED <<request, granted>>

Next == \/ \E r \in Requests : Ask(r) \/ Decide(r) \/ Grant(r)
        \/ Administer

Spec == Init /\ [][Next]_vars
=============================================================================

---------------------------- MODULE MCAttemptLimit ----------------------------
(* Values for AttemptLimit. *)
EXTENDS AttemptLimit, TLC

OneEach == [t \in Tests |-> 1]

(* The tests are alike, and so are the requests and the calls.               *)
Alike == Permutations(Tests) \cup Permutations(Requests)
           \cup Permutations(Starts) \cup Permutations(Clerks)
=============================================================================

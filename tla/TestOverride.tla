----------------------------- MODULE TestOverride -----------------------------
(***************************************************************************)
(* The extra attempts of one student on each test (StudentTestOverride) and *)
(* what AdminService does to them.  Each operation changes the document in *)
(* one write.  An updateOverride that assigns the value it has read writes *)
(* nothing, and one whose override is deleted meanwhile fails: both are     *)
(* steps that change nothing.                                              *)
(***************************************************************************)
EXTENDS Naturals

CONSTANTS Tests,       \* the tests the student may take
          Amounts,     \* how many attempts may be granted at once
          NoOverride,  \* the student has no override on a test
          MaxExtra     \* bound on extraAttempts

ASSUME OverrideAssumption == /\ Amounts \subseteq Nat \ {0}
                             /\ NoOverride \notin Nat
                             /\ MaxExtra \in Nat

VARIABLE extra  \* extraAttempts of the override on each test

OverrideType == extra \in [Tests -> Nat \cup {NoOverride}]

OverrideInit == extra = [t \in Tests |-> NoOverride]

(* override?.extraAttempts ?? 0                                             *)
ExtraAttempts(t) == IF extra[t] = NoOverride THEN 0 ELSE extra[t]

(* findOneAndUpdate with $inc and upsert.                                   *)
Increment(t, n) == /\ ExtraAttempts(t) + n <= MaxExtra
                   /\ extra' = [extra EXCEPT ![t] = ExtraAttempts(t) + n]

GrantAttempts == \E t \in Tests, n \in Amounts : Increment(t, n)

UpdateOverride == \E t \in Tests, n \in Amounts \cup {0} :
                     /\ extra[t] # NoOverride
                     /\ extra' = [extra EXCEPT ![t] = n]

DeleteOverride == \E t \in Tests :
                     /\ extra[t] # NoOverride
                     /\ extra' = [extra EXCEPT ![t] = NoOverride]

Administer == GrantAttempts \/ UpdateOverride \/ DeleteOverride
=============================================================================

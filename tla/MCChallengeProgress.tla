-------------------------- MODULE MCChallengeProgress --------------------------
(* Values for ChallengeProgress: one student waits for each answer, the      *)
(* other submits from two places at a time.                                 *)
EXTENDS ChallengeProgress, TLC

CONSTANTS careful, hasty, js, py, c1, c2, h1, h2

MCStudentOf == (c1 :> careful) @@ (c2 :> careful) @@ (h1 :> hasty) @@ (h2 :> hasty)

MCLanguageOf == (c1 :> js) @@ (c2 :> js) @@ (h1 :> js) @@ (h2 :> py)

(* The two calls of the careful student are alike.                           *)
AlikeCalls == Permutations({c1, c2})
=============================================================================

---------------------------- MODULE MCSectionTimes ----------------------------
(* Values for SectionTimes.                                                  *)
EXTENDS SectionTimes

CONSTANTS r1, q1

OneRequest == {r1}
OneQuestion == {q1}

(* One handler of each kind: connecting, disconnecting, working on a         *)
(* question.  What an answer does to the timer, to clear it, RefusedCall     *)
(* does; the clean-up looks at the time, and the expiry callback submits.    *)
SomeHandlers == {"rejoin", "leave", "view", "submit"}

NoStep == {}
=============================================================================

---------------------------- MODULE MCSessionTimers ----------------------------
(* SessionTimers with the values of its configurations: three units of time  *)
(* with warnings at one and two.                                            *)
EXTENDS SessionTimers

MCDurations == {0, 3}

MCWarningPoints == {1, 2}
=============================================================================

---------------------------- MODULE MCTestSession ----------------------------
(* Instances of TestSession for TLC. *)
EXTENDS TestSession

CONSTANTS r1, q1

OneRequest == {r1}
OneQuestion == {q1}

AllHandlers == ClientHandlers

(* Any step may take any time, or every step takes less than a tick.         *)
NoStep == {}
AnyStep == Steps \ {"idle"}
=============================================================================

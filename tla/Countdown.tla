------------------------------- MODULE Countdown -------------------------------
(***************************************************************************)
(* What the timer of a session promises: it counts down while it runs and  *)
(* keeps its time while it is paused, its callback comes once, when no      *)
(* time is left, and a timer that has been cleared does not call.           *)
(***************************************************************************)
EXTENDS Naturals

CONSTANT Durations

VARIABLES phase,  \* "off", "running" or "paused"
          left,   \* the time left
          due,    \* callbacks of timers that had no time left to begin with
          rings   \* callbacks made

countdownVars == <<phase, left, due, rings>>

Init == phase = "off" /\ left = 0 /\ due = 0 /\ rings = 0

(* A start replaces the timer there was.                                    *)
Start == /\ \/ /\ phase' = "running"
               /\ left' \in Durations \ {0}
               /\ due' = due
            \/ phase' = "off" /\ left' = 0 /\ due' = due + 1
         /\ UNCHANGED rings

TimePasses == /\ phase = "running"
              /\ left > 0
              /\ left' = left - 1
              /\ UNCHANGED <<phase, due, rings>>

Pause == phase = "running" /\ phase' = "paused" /\ UNCHANGED <<left, due, rings>>

(* A timer that was paused with no time left has its callback due.          *)
Resume == /\ phase = "paused"
          /\ IF left > 0 THEN phase' = "running" /\ UNCHANGED <<left, due>>
             ELSE phase' = "off" /\ left' = 0 /\ due' = due + 1
          /\ UNCHANGED rings

Clear == phase' = "off" /\ left' = 0 /\ UNCHANGED <<due, rings>>

Ring == /\ \/ phase = "running" /\ left = 0 /\ phase' = "off" /\ UNCHANGED <<left, due>>
           \/ due > 0 /\ due' = due - 1 /\ UNCHANGED <<phase, left>>
        /\ rings' = rings + 1

Next == Start \/ TimePasses \/ Pause \/ Resume \/ Clear \/ Ring

Spec == Init /\ [][Next]_countdownVars
=============================================================================

---------------------------- MODULE ExecutionPool ----------------------------
(***************************************************************************)
(* What the execution service promises its callers, without queues or      *)
(* counters: a job that arrives starts at once when a slot is free and     *)
(* waits otherwise; a job that ends lets at most one waiting job start;    *)
(* the limits are kept and no slot a waiting job could use stays free.     *)
(***************************************************************************)
EXTENDS Naturals, FiniteSets

CONSTANTS Jobs, Runtimes, RuntimeOf, MaxTotal, MaxPerRuntime

VARIABLES waiting, inFlight

poolVars == <<waiting, inFlight>>

HasSlot(r, flight) ==
    /\ Cardinality(flight) < MaxTotal
    /\ Cardinality({j \in flight : RuntimeOf[j] = r}) < MaxPerRuntime

KeepsLimits(flight) ==
    /\ Cardinality(flight) <= MaxTotal
    /\ \A r \in Runtimes :
          Cardinality({j \in flight : RuntimeOf[j] = r}) <= MaxPerRuntime

WastesNoSlot(wait, flight) == \A j \in wait : ~HasSlot(RuntimeOf[j], flight)

Init == waiting = {} /\ inFlight = {}

Arrive(j) ==
    /\ j \notin waiting \cup inFlight
    /\ IF HasSlot(RuntimeOf[j], inFlight)
       THEN inFlight' = inFlight \cup {j} /\ UNCHANGED waiting
       ELSE waiting' = waiting \cup {j} /\ UNCHANGED inFlight

End(j) ==
    /\ j \in inFlight
    /\ \E next \in {{}} \cup {{w} : w \in waiting} :
          /\ inFlight' = (inFlight \ {j}) \cup next
          /\ waiting' = waiting \ next
    /\ KeepsLimits(inFlight')
    /\ WastesNoSlot(waiting', inFlight')

Next == \E j \in Jobs : Arrive(j) \/ End(j)

Spec == Init /\ [][Next]_poolVars
=============================================================================

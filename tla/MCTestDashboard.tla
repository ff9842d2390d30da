--------------------------- MODULE MCTestDashboard ---------------------------
(* Values for TestDashboard.                                                 *)
EXTENDS TestDashboard, TLC, Functions

LongShort == 0 :> 2 @@ 1 :> 1
ThreeSections == 0 :> 2 @@ 1 :> 1 @@ 2 :> 1

AllHandlers == {"answer", "view", "navigate", "skip", "submitSection", "review"}

Preceding == [s \in Sections |-> SumFunctionOnSet(Sizes, 0 .. s - 1)]
=============================================================================

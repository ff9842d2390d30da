--------------------------- MODULE MCQuestionFlow ---------------------------
(* Values for QuestionFlow.                                                  *)
EXTENDS QuestionFlow, TLC, Functions

LongShort == 0 :> 2 @@ 1 :> 1
ThreeSections == 0 :> 1 @@ 1 :> 2 @@ 2 :> 1

AllHandlers == {"answer", "view", "navigate", "skip", "submitSection", "review"}

Preceding == [s \in Sections |-> SumFunctionOnSet(Sizes, 0 .. s - 1)]
=============================================================================

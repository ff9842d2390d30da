--------------------------- MODULE MCCodeExecution ---------------------------
(* Instance of CodeExecution: two runtimes of which each can be saturated   *)
(* (2 slots) and a total (3) below their sum, so both limits bind.          *)
EXTENDS CodeExecution

CONSTANTS node, python, n1, n2, n3, n4, p1, p2, p3

MCJobs == {n1, n2, n3, n4, p1, p2, p3}
MCRuntimes == {node, python}
MCRuntimeOf == [j \in MCJobs |-> IF j \in {n1, n2, n3, n4} THEN node ELSE python]
MCHighPriority == {n1, n2, p1}
=============================================================================

------------------------------- MODULE MCCycle -------------------------------
(***************************************************************************)
(* Cycle for TLC: every graph on a few rows, and every edit of one of      *)
(* them.  Rows differ in nothing but their edges, so that one stands for   *)
(* all; and none depends on itself, which the store nowhere allows.        *)
(***************************************************************************)
EXTENDS Cycle

LooplessGraphs == {graph \in [Row -> SUBSET Row] : \A r \in Row : r \notin graph[r]}

MCInit == Init /\ taskID = CHOOSE r \in Row : TRUE

\* The search is one goroutine that nothing blocks.
MCSpec == MCInit /\ [][Next]_vars /\ WF_vars(Next)
=============================================================================

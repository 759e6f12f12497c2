-------------------------------- MODULE Cycle --------------------------------
(***************************************************************************)
(* The search behind the cycle check (internal/store/cycle.go), call by    *)
(* call.  The recursion of dfs is its stack of calls, and one set of       *)
(* visited rows serves a whole search and is never unwound.  Dependencies  *)
(* uses what the search computes.                                          *)
(***************************************************************************)
EXTENDS Naturals, Sequences, FiniteSets

CONSTANTS
    Row,    \* the rows of the table
    Graphs  \* the dependency graphs the table may hold

ASSUME GraphAssumption == IsFiniteSet(Row) /\ Graphs \subseteq [Row -> SUBSET Row]

VARIABLES
    edges,    \* the graph that was read, from each row to what it depends on
    taskID,   \* the row whose dependencies are to be replaced
    newDeps,  \* what by
    untried,  \* the new dependencies that the loop has not come to
    stack,    \* the calls of dfs under way, each with the neighbours it has left
    visited,
    answer

edit == <<edges, taskID, newDeps>>
vars == <<edit, untried, stack, visited, answer>>

Call == [current : Row, left : SUBSET Row]

\* Slip: the edges are followed against their direction.
Backwards(row) == [current |-> row, left |-> {r \in Row : row \in edges[r]}]

\* The SELECT gives the edges of a row in no particular order.
Calls(row) == [current |-> row, left |-> edges[row]]

Init ==
    /\ edges \in Graphs /\ taskID \in Row /\ newDeps \in SUBSET Row
    /\ untried = newDeps /\ stack = <<>> /\ visited = {} /\ answer = "none"

-----------------------------------------------------------------------------
(* wouldCreateCycle: the loop over the new dependencies.                   *)

Refuse(d) ==
    /\ answer = "none" /\ stack = <<>>
    /\ d \in untried /\ d = taskID
    /\ answer' = "refused"
    /\ untried' = untried \ {d}
    /\ UNCHANGED <<edit, stack, visited>>

\* Slip: the loop does not go on to the next dependency.
SearchAgain(d) ==
    /\ answer = "none" /\ stack = <<>>
    /\ d \in untried /\ d # taskID
    /\ stack' = <<Calls(d)>> /\ visited' = {d}
    /\ UNCHANGED <<edit, untried, answer>>

\* isReachable starts with nothing visited; the first call of dfs marks d.
Search(d) ==
    /\ answer = "none" /\ stack = <<>>
    /\ d \in untried /\ d # taskID
    /\ stack' = <<Calls(d)>> /\ visited' = {d}
    /\ untried' = untried \ {d}
    /\ UNCHANGED <<edit, answer>>

Accept ==
    /\ answer = "none" /\ stack = <<>> /\ untried = {}
    /\ answer' = "accepted"
    /\ UNCHANGED <<edit, untried, stack, visited>>

-----------------------------------------------------------------------------
(* dfs: the loop over the neighbours of the innermost call.                *)

Depth == Len(stack)
Innermost == stack[Depth]
Past(n) == [stack EXCEPT ![Depth].left = @ \ {n}]

\* The target is found: every call returns true, and so does the check.
Reach(n) ==
    /\ stack # <<>> /\ n \in Innermost.left
    /\ n = taskID
    /\ stack' = <<>> /\ answer' = "refused"
    /\ UNCHANGED <<edit, untried, visited>>

\* Slip: a row met twice is taken for the target, as a diamond is for a cycle.
RevisitFinds(n) ==
    /\ stack # <<>> /\ n \in Innermost.left
    /\ n # taskID /\ n \in visited
    /\ stack' = <<>> /\ answer' = "refused"
    /\ UNCHANGED <<edit, untried, visited>>

Revisit(n) ==
    /\ stack # <<>> /\ n \in Innermost.left
    /\ n # taskID /\ n \in visited
    /\ stack' = Past(n)
    /\ UNCHANGED <<edit, untried, visited, answer>>

\* Slip: rows are not marked.
DescendUnmarked(n) ==
    /\ stack # <<>> /\ n \in Innermost.left
    /\ n # taskID /\ n \notin visited
    /\ stack' = Append(Past(n), Calls(n))
    /\ UNCHANGED <<edit, untried, visited, answer>>

Descend(n) ==
    /\ stack # <<>> /\ n \in Innermost.left
    /\ n # taskID /\ n \notin visited
    /\ stack' = Append(Past(n), Calls(n)) /\ visited' = visited \cup {n}
    /\ UNCHANGED <<edit, untried, answer>>

\* No neighbour is left: the call returns false.
Return ==
    /\ stack # <<>> /\ Innermost.left = {}
    /\ stack' = SubSeq(stack, 1, Depth - 1)
    /\ UNCHANGED <<edit, untried, visited, answer>>

Next ==
    \/ \E d \in untried : Refuse(d) \/ Search(d)
    \/ Accept
    \/ \E n \in Row : Reach(n) \/ Revisit(n) \/ Descend(n)
    \/ Return

Spec == Init /\ [][Next]_vars

-----------------------------------------------------------------------------

TypeOK ==
    /\ edges \in Graphs /\ taskID \in Row /\ newDeps \subseteq Row
    /\ untried \subseteq newDeps /\ visited \subseteq Row
    /\ stack \in Seq(Call)
    /\ answer \in {"none", "refused", "accepted"}

Closed(graph, S) == \A r \in S : graph[r] \subseteq S

\* Reachability without a search: whatever is closed and holds the one holds the other.
Leads(graph, from, to) ==
    \A S \in SUBSET Row : from \in S /\ Closed(graph, S) => to \in S

Acyclic(graph) == \A r \in Row : \A d \in graph[r] : ~Leads(graph, d, r)

\* The answer is whether the row is reachable from a new dependency: the search, whose
\* visited set is shared by all its branches, misses no path and invents none, in
\* graphs with cycles and diamonds too.
SearchIsExact ==
    /\ answer = "refused" => \E d \in newDeps : Leads(edges, d, taskID)
    /\ answer = "accepted" => \A d \in newDeps : ~Leads(edges, d, taskID)

\* An edit of an acyclic graph is refused if and only if it would close a cycle: the
\* search runs on the graph with the row's old dependencies, which must neither hide
\* a cycle nor feign one.
RefusalIsExact ==
    Acyclic(edges) /\ answer # "none" =>
        (answer = "refused" <=> ~Acyclic([edges EXCEPT ![taskID] = newDeps]))

\* The recursion goes no deeper than there are rows, whatever cycles the graph has
\* already: edits that were checked on the same graph can have closed one.
RecursionIsBounded == Depth <= Cardinality(Row)

\* The search comes to an answer, in such a graph too.
SearchEnds == <>(answer # "none")
=============================================================================

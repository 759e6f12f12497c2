----------------------------- MODULE Dependencies -----------------------------
(***************************************************************************)
(* Edits of the dependency graph (UpdateTaskDependsOn), next to everything *)
(* else that happens on the task board.                                    *)
(*                                                                         *)
(* An edit is two database calls: it reads the whole graph and refuses an  *)
(* edge that would close a cycle, and then, in a transaction of its own,   *)
(* replaces the row's dependencies.  Whatever the board does in between,   *)
(* and other edits, the check knows nothing of.                            *)
(***************************************************************************)
EXTENDS TaskBoard

CONSTANT Editor  \* the clients that may have a PATCH of a task under way

\* The server checks no batch for cycles; whoever plans one has to
\* (skills/odonian-breakdown/SKILL.md).
DependsOnInput(batch, i, j) ==
    \E ref \in batch[i].dependsOn : Keyed(batch, ref) # {} /\ LastKeyed(batch, ref) = j

ASSUME PlannerAssumption ==
    \A batch \in Batches :
        \E rank \in [1..Len(batch) -> 1..Len(batch)] :
            \A i, j \in 1..Len(batch) :
                DependsOnInput(batch, i, j) => rank[j] < rank[i]

VARIABLE edits  \* the edits that passed the check and are not yet written

depvars == <<task, edits>>

-----------------------------------------------------------------------------

Closed(table, S) == \A i \in S : table[i].deps \subseteq S

\* The search of isReachable: along dependencies, from a row to another.
Reaches(table, from, to) ==
    \A S \in SUBSET (1..Len(table)) : from \in S /\ Closed(table, S) => to \in S

\* Slip: only the new dependencies themselves are looked at.
LooksOneStepAhead(table, t, deps) ==
    \E d \in deps : d = t \/ t \in table[d].deps

WouldCreateCycle(table, t, deps) == \E d \in deps : Reaches(table, d, t)

\* The first database call, and the verdict on what it read.
CheckEdit(e, t, deps) ==
    /\ \A edit \in edits : edit.editor # e
    /\ ~WouldCreateCycle(task, t, deps)
    /\ edits' = edits \cup {[editor |-> e, row |-> t, deps |-> deps]}
    /\ UNCHANGED task

\* The second.
WriteEdit(edit) ==
    /\ task' = [task EXCEPT ![edit.row].deps = edit.deps]
    /\ edits' = edits \ {edit}

\* The client goes away, or the server stops, between the two.
DropEdit(edit) ==
    /\ edits' = edits \ {edit}
    /\ UNCHANGED task

EditStep ==
    \/ \E e \in Editor, t \in Id, deps \in SUBSET Id : CheckEdit(e, t, deps)
    \/ \E edit \in edits : WriteEdit(edit) \/ DropEdit(edit)

DepInit == Init /\ edits = {}
DepNext == (Next /\ UNCHANGED edits) \/ EditStep
DepSpec == DepInit /\ [][DepNext]_depvars

-----------------------------------------------------------------------------

\* No row waits, however indirectly, for itself: such rows could never be claimed.
\* With one editor at a time the check is enough, whatever is planned, superseded or
\* escalated while an edit is between its check and its write; with two it is not.
Acyclic == \A t \in Id : \A d \in task[t].deps : ~Reaches(task, d, t)
=============================================================================

------------------------------- MODULE Merger -------------------------------
(***************************************************************************)
(* The merger agents (harness/agent.sh) and `odonian merge <id>`           *)
(* (executeMerge and bounceForRework in cmd/odonian/main.go).              *)
(*                                                                         *)
(* One run of the command is a sequence of calls to the board and GitHub.  *)
(* It may die, or a call may fail, between any two, and its lease may      *)
(* lapse under it: then another merger claims the merge row and runs the   *)
(* command again, while the first may still be going on.                   *)
(***************************************************************************)
EXTENDS Forge

VARIABLE merger  \* the run of each agent: the merge row, and the call it makes next

Call == {"none", "read", "merge", "mergeability", "comment", "bounce", "retire",
         "finish parent", "finish row"}
Run == [at : Call, row : Nat]
NoRun == [at |-> "none", row |-> NoTask]

MergerInit == merger = [a \in Agent |-> NoRun]

Parent(a) == task[merger[a].row].target

Goes(a, call) == merger' = [merger EXCEPT ![a].at = call]
Exits(a) == merger' = [merger EXCEPT ![a] = NoRun]

ClaimMerge(t, a) ==
    /\ merger[a].at = "none"
    /\ task[t].kind = "merge"
    /\ ClaimTask(t, a, task[t].model)
    /\ BoardWrite
    /\ merger' = [merger EXCEPT ![a] = [at |-> "read", row |-> t]]

UnderRework == {"backlog", "ready", "in_progress", "review"}

\* Slip: a parent that is under rework is no reason to retire the merge row.
RetryForever(row) ==
    IF row.state = "approved" THEN "merge"
    ELSE IF row.state = "done" THEN "finish row" ELSE "none"

\* What the parent's state calls for; any other state is an error.
CallFor(row) ==
    IF row.state = "approved" THEN "merge"
    ELSE IF row.state = "done" THEN "finish row"
    ELSE IF row.state \in UnderRework THEN "retire" ELSE "none"

\* A merge row that was replaced by hand has no parent, which is an error as well.
ReadRows(a) ==
    LET call == IF Parent(a) = NoTask THEN "none" ELSE CallFor(task[Parent(a)])
    IN  /\ merger[a].at = "read"
        /\ IF task[merger[a].row].state = "done" \/ call = "none" THEN Exits(a)
           ELSE Goes(a, call)
        /\ UNCHANGED <<task, pr>>

\* SquashMerge: what is already merged counts as success.
SquashMerge(a) ==
    LET p == Parent(a)
    IN  /\ merger[a].at = "merge"
        /\ \/ /\ IsOpen(p) /\ pr[p].clean
              /\ pr' = [pr EXCEPT ![p] = Merged(@)]
              /\ Goes(a, "finish parent")
           \/ /\ AlreadyMerged(p)
              /\ Goes(a, "finish parent") /\ UNCHANGED pr
           \/ /\ ~AlreadyMerged(p) /\ ~(IsOpen(p) /\ pr[p].clean)
              /\ Goes(a, "mergeability") /\ UNCHANGED pr
        /\ UNCHANGED task

\* The merge happens and the answer is lost; a merged PR needs no rework.
SquashMergeUnheard(a) ==
    LET p == Parent(a)
    IN  /\ merger[a].at = "merge"
        /\ IsOpen(p) /\ pr[p].clean
        /\ pr' = [pr EXCEPT ![p] = Merged(@)]
        /\ Exits(a)
        /\ UNCHANGED task

\* PRMergeability and NeedsRework.
PRMergeability(a) ==
    LET p == Parent(a)
    IN  /\ merger[a].at = "mergeability"
        /\ IF IsOpen(p) /\ ~pr[p].clean THEN Goes(a, "comment") ELSE Exits(a)
        /\ UNCHANGED <<task, pr>>

\* The comment carries no marker; failing to post it is ignored.
ConflictComment(a) ==
    /\ merger[a].at = "comment"
    /\ \/ pr' = [pr EXCEPT ![Parent(a)] = Commented(@, FALSE)]
       \/ UNCHANGED pr
    /\ Goes(a, "bounce")
    /\ UNCHANGED task

\* A transition of the run: refused, it ends the run.
Moves(a, t, to, call) ==
    \/ TransitionTask(t, to) /\ BoardWrite /\ Goes(a, call)
    \/ ~CanTransition(task[t], to) /\ UNCHANGED <<task, pr>> /\ Exits(a)

BounceParent(a) ==
    /\ merger[a].at = "bounce"
    /\ Moves(a, Parent(a), "ready", "retire")

\* The run's last call, on the merge row itself.
Closes(a, to) ==
    /\ \/ TransitionTask(merger[a].row, to) /\ BoardWrite
       \/ ~CanTransition(task[merger[a].row], to) /\ UNCHANGED <<task, pr>>
    /\ Exits(a)

Retire(a) == merger[a].at = "retire" /\ Closes(a, "failed")

FinishParent(a) ==
    /\ merger[a].at = "finish parent"
    /\ IF task[Parent(a)].state = "done"
       THEN Goes(a, "finish row") /\ UNCHANGED <<task, pr>>
       ELSE Moves(a, Parent(a), "done", "finish row")

\* A merge row that is done already is not done again: the transition is refused.
FinishRow(a) == merger[a].at = "finish row" /\ Closes(a, "done")

\* The run dies, or a call of it fails.
RunEnds(a) == merger[a].at # "none" /\ Exits(a) /\ UNCHANGED <<task, pr>>

RunGoesOn(a) ==
    \/ ReadRows(a) \/ SquashMerge(a) \/ PRMergeability(a) \/ ConflictComment(a)
    \/ BounceParent(a) \/ Retire(a) \/ FinishParent(a) \/ FinishRow(a)

MergerStep(a) ==
    \/ \E t \in Id : ClaimMerge(t, a)
    \/ RunGoesOn(a) \/ SquashMergeUnheard(a) \/ RunEnds(a)
=============================================================================

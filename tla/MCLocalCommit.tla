--------------------------- MODULE MCLocalCommit ---------------------------
(***************************************************************************)
(* LocalCommit for TLC: two items with the same title, the second waiting  *)
(* for the first.  What goes wrong or is taken back is paid for from a     *)
(* budget.                                                                 *)
(***************************************************************************)
EXTENDS LocalCommit

CONSTANTS
    Worker, Reviewer,  \* the agents that claim implement rows, and review rows
    MaxMishaps,        \* the budget
    MaxTasks           \* rows the table may grow to

VARIABLE mishaps

mclocalvars == <<localvars, mishaps>>

MCLocalInit == LocalInit /\ mishaps = 0

WorkerSymmetry == Permutations(Worker)

OneTier == <<"haiku">>
OneRework == [haiku |-> 1]

Item == [key |-> NoKey, dependsOn |-> {}, model |-> "haiku", reviewers |-> <<"haiku">>,
         agentMerge |-> FALSE, escalate |-> TRUE]
SameTitle == {<<[Item EXCEPT !.key = -1], [Item EXCEPT !.dependsOn = {-1}]>>}
Shared(t) == "feature"
CommitOrNoOp == {{}, {"no_op"}}

Routine == UNCHANGED mishaps /\ Len(task') <= MaxTasks
Mishap ==
    /\ mishaps' = mishaps + 1
    /\ mishaps' <= MaxMishaps
    /\ Len(task') <= MaxTasks

Plan ==
    /\ task = <<>> /\ \E batch \in Batches : CreateTasks(batch)
    /\ Elsewhere /\ Routine
Promote(t) == PromoteTask(t) /\ Elsewhere /\ Routine
Lapse(t) == task[t].kind = "implement" /\ LeaseLapses(t) /\ Elsewhere /\ Mishap
ClaimReview(t) ==
    /\ task[t].kind = "review" /\ \E r \in Reviewer : ClaimTask(t, r, task[t].model)
    /\ Elsewhere /\ Routine
Approved(t) == (\E r \in Reviewer : SubmitReview(t, r, "approve")) /\ Elsewhere /\ Routine
Rejected(t) == (\E r \in Reviewer : SubmitReview(t, r, "reject")) /\ Elsewhere /\ Mishap

\* The plan is promoted as a whole, before anybody polls.
ClaimItem(a) ==
    /\ \A t \in Id : task[t].state # "backlog"
    /\ \E t \in Id : ClaimWork(t, a, task[t].model)
    /\ Routine
Proceed(a) ==
    /\ \/ ResolveTip(a) \/ AddWorktree(a) \/ Edit(a) \/ CheckRework(a) \/ StageAll(a)
       \/ CommitStaged(a) \/ RevParse(a) \/ SubmitCommit(a)
    /\ Routine
NoOp(a) == SubmitNoOp(a) /\ Mishap
Crash(a) == SessionEnds(a) /\ Mishap

Approve(t) == ReadTask(t, "approve") /\ Routine
TakeBack(t) == (\E step \in {"reject", "abandon"} : ReadTask(t, step)) /\ Mishap
VerbGoesOn(t) ==
    /\ \/ Transition(t) \/ FreezeGuard(t) \/ FreezeAdvance(t) \/ FreezeRemove(t)
       \/ FreezeDelete(t) \/ CleanupRemove(t) \/ CleanupDelete(t)
    /\ Routine
Interrupt(t) == VerbEnds(t) /\ Mishap
\* The person retries a freeze of work that is done.
Retry(t) == task[t].state = "done" /\ t \in DOMAIN wip /\ FreezeOnly(t) /\ Routine
Look(s) == Checkout(s) /\ (IF s \in checkedOut THEN Routine ELSE Mishap)

MCLocalNext ==
    \/ Plan
    \/ \E t \in Id :
        \/ Promote(t) \/ Lapse(t) \/ ClaimReview(t) \/ Approved(t) \/ Rejected(t)
        \/ Approve(t) \/ TakeBack(t) \/ VerbGoesOn(t) \/ Interrupt(t) \/ Retry(t)
    \/ \E a \in Worker : ClaimItem(a) \/ Proceed(a) \/ NoOp(a) \/ Crash(a)
    \/ \E s \in DOMAIN mr : Look(s)

MCLocalSpec == MCLocalInit /\ [][MCLocalNext]_mclocalvars
=============================================================================

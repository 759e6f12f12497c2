----------------------------- MODULE MCLanding -----------------------------
(***************************************************************************)
(* Landing for TLC: one item, merged by an agent or by a person.  Calls    *)
(* that fail, runs that die or stall, and what people do out of turn are   *)
(* paid for from a budget; the rest of the loop is free, and fair.         *)
(***************************************************************************)
EXTENDS Landing

CONSTANTS
    Worker,      \* the agents that do implement and review rows
    MaxMishaps,  \* the budget
    MaxTasks     \* rows the table may grow to

VARIABLE mishaps

mclandingvars == <<landingvars, mishaps>>

MCLandingInit == LandingInit /\ mishaps = 0

MergerAgent == Agent \ Worker

OneTier == <<"haiku">>
OneRework == [haiku |-> 1]
Item(agentMerge) ==
    [key |-> NoKey, dependsOn |-> {}, model |-> "haiku", reviewers |-> <<"haiku">>,
     agentMerge |-> agentMerge, escalate |-> TRUE]
EitherMerge == {<<Item(TRUE)>>, <<Item(FALSE)>>}
PullRequestLink == {{"pr"}}

Routine == UNCHANGED mishaps /\ Len(task') <= MaxTasks
Mishap == mishaps' = mishaps + 1 /\ mishaps' <= MaxMishaps /\ Len(task') <= MaxTasks

-----------------------------------------------------------------------------
(* The loop.                                                               *)

Plan == task = <<>> /\ (\E batch \in Batches : CreateTasks(batch)) /\ BoardOnly /\ Routine
Promote(t) == PromoteTask(t) /\ BoardOnly /\ Routine

\* Reviewers are all alike, and so are workers without a session: one stands for any.
Reviewer == CHOOSE w \in Worker : TRUE
Free == {w \in Worker : working[w] = NoTask}

Claim(t) ==
    /\ t \in Id /\ task[t].kind = "review"
    /\ ClaimTask(t, Reviewer, task[t].model)
    /\ BoardOnly /\ Routine
Start(t) ==
    /\ t \in Id /\ Free # {}
    /\ StartWork(t, CHOOSE w \in Free : TRUE, task[t].model)
    /\ OnGitHub /\ Routine

\* A session that still has its row.
HasRow(w) == working[w] # NoTask /\ InProgressBy(working[w], w)

DoPush(t) ==
    /\ t \in Id /\ (t \in DOMAIN pr => pr[t].head # 0)
    /\ \E w \in Worker : HasRow(w) /\ Push(t, w)
    /\ OnGitHub /\ Routine
GivesUp(w) ==
    /\ working[w] # NoTask /\ ~HasRow(w)
    /\ SessionEnds(working[w], w) /\ OnGitHub /\ Routine
Ack(t) == t \in Id /\ (\E w \in Worker : Acknowledge(t, w)) /\ OnGitHub /\ Routine
HandInRow(t) == t \in Id /\ (\E w \in Worker : Submit(t, w)) /\ OnGitHub /\ Routine
Approved(t) ==
    t \in Id /\ (\E w \in Worker : SubmitReview(t, w, "approve")) /\ BoardOnly /\ Routine

\* Idle mergers are all alike: one of them stands for any.
Idle == {a \in MergerAgent : merger[a] = NoRun}

MergeClaim(t) ==
    /\ t \in Id /\ Idle # {} /\ ClaimMerge(t, CHOOSE a \in Idle : TRUE)
    /\ UNCHANGED <<working, watchvars>> /\ Routine
MergeRun(a) == RunGoesOn(a) /\ UNCHANGED <<working, watchvars>> /\ Routine

\* The lease of a merge row whose run is over.
Expire(t) ==
    /\ t \in Id /\ task[t].kind = "merge"
    /\ \A a \in Agent : merger[a].row # t
    /\ LeaseLapses(t) /\ BoardOnly /\ Routine

Watch == PassGoesOn /\ UNCHANGED <<working, merger>> /\ Routine
CommentsOnClose(t) ==
    t \in DOMAIN pr /\ pr'[t] # pr[t] => "comment" \in pr'[t].feedback

Close(t) ==
    /\ t \in Id
    /\ RetrofitLook(t) \/ CloseSupersededPR(t)
    /\ CommentsOnClose(t)
    /\ UNCHANGED <<working, merger>> /\ Routine

\* A person merges what PR-watch is waiting for.
MergedByPerson(t) == Watched(t) /\ MergeByHand(t) /\ OnGitHub /\ Routine

-----------------------------------------------------------------------------
(* Out of turn.                                                            *)

Rejected(t) == (\E w \in Worker : SubmitReview(t, w, "reject")) /\ BoardOnly /\ Mishap

\* The gate could not be checked.
Unchecked(t) ==
    /\ t \in DOMAIN pr /\ ~GatePasses(t)
    /\ \E w \in Worker : SubmitUnchecked(t, w)
    /\ OnGitHub /\ Mishap

\* A merger, or a worker, is so slow that its lease lapses; a worker that dies is one
\* that gives up once its row is claimed again.
Stall(t) ==
    /\ \E a \in Agent : (merger[a].row = t /\ merger[a].at # "none") \/ Works(t, a)
    /\ LeaseLapses(t) /\ BoardOnly /\ Mishap

\* A session that lost its row pushes.
LatePush(w) ==
    /\ working[w] # NoTask /\ ~HasRow(w)
    /\ Push(working[w], w) /\ OnGitHub /\ Mishap

MergerFails(a) == (RunEnds(a) \/ SquashMergeUnheard(a)) /\ UNCHANGED <<working, watchvars>> /\ Mishap
WatchFails ==
    /\ \/ SkipRow \/ ServerRestarts
       \/ \E t \in Id : CloseFails(t) \/ (CloseSupersededPR(t) /\ ~CommentsOnClose(t))
    /\ UNCHANGED <<working, merger>> /\ Mishap

OnPullRequest(t) ==
    /\ \/ task[t].state = "approved" /\ Review(t, "changes_requested")
       \/ Comment(t) \/ CloseByHand(t) \/ Reopen(t)
       \/ task[t].state = "approved" /\ (Conflict(t) \/ MergeByHand(t))
    /\ OnGitHub /\ Mishap

OnBoard(t) ==
    \/ /\ task[t].state = "approved"
       /\ TransitionTask(t, "ready") /\ BoardOnly /\ Mishap
    \/ /\ task[t].kind = "implement" /\ task[t].state \in Active
       /\ Supersede(t, task[t].model) /\ UNCHANGED <<working, merger>> /\ Mishap

MCLandingNext ==
    \/ Plan \/ Watch \/ WatchFails
    \/ \E t \in Id :
        \/ Promote(t) \/ Claim(t) \/ Start(t) \/ DoPush(t) \/ Ack(t) \/ HandInRow(t)
        \/ Approved(t) \/ MergeClaim(t) \/ Expire(t) \/ Close(t) \/ Rejected(t) \/ Stall(t) \/ OnBoard(t)
    \/ \E t \in DOMAIN pr : MergedByPerson(t) \/ Unchecked(t) \/ OnPullRequest(t)
    \/ \E w \in Worker : GivesUp(w) \/ LatePush(w)
    \/ \E a \in MergerAgent : MergeRun(a) \/ MergerFails(a)

MCLandingSpec == MCLandingInit /\ [][MCLandingNext]_mclandingvars

Worked ==
    \/ \E t \in Id : Claim(t) \/ Start(t) \/ DoPush(t) \/ Ack(t) \/ HandInRow(t) \/ Approved(t)
    \/ \E w \in Worker : GivesUp(w)

\* One worker, or reviewer, at least goes on; so do each merger, the clock, and the
\* two halves of the PR-watch loop.
MCLandingFairSpec ==
    /\ MCLandingSpec
    /\ WF_mclandingvars(Worked)
    /\ \A a \in MergerAgent : WF_mclandingvars(MergeRun(a))
    /\ \A t \in 3..MaxTasks : SF_mclandingvars(MergeClaim(t)) /\ WF_mclandingvars(Expire(t))
    /\ WF_mclandingvars(Watch)
    /\ WF_mclandingvars(\E t \in Id : Close(t))

-----------------------------------------------------------------------------

\* Approved work moves on: once its pull request is merged or closed PR-watch records
\* it, and an agent's merge is done or comes back for rework.
HasOutcome(t) ==
    /\ t \in DOMAIN pr /\ task[t].state = "approved"
    /\ IF task[t].agentMerge THEN pr[t].state # "closed" ELSE pr[t].state # "open"

ApprovalsAreActedOn == []<>(\A t \in Id : ~HasOutcome(t))

\* A merge row is settled, whatever its runs went through, unless its parent was taken
\* off by a person or its pull request was closed.
Unsettled(t) ==
    /\ task[t].kind = "merge" /\ task[t].state \in {"ready", "in_progress"}
    /\ task[task[t].target].state \in UnderRework \cup {"approved", "done"}
    /\ pr[task[t].target].state # "closed"

MergeRowsSettle == []<>(\A t \in Id : ~Unsettled(t))

\* No pull request of replaced or abandoned work stays open.
StalePRsClose ==
    <>[](\A t \in DOMAIN pr :
            task[t].state \in {"superseded", "abandoned"} => pr[t].state # "open")
=============================================================================

------------------------------ MODULE TaskBoard ------------------------------
(***************************************************************************)
(* The task table of the odonian server (internal/store/store.go).         *)
(*                                                                         *)
(* Every store method is one SQLite transaction on a pool of exactly one   *)
(* connection, so each is one atomic action here.  Workers, reviewers,     *)
(* mergers, the PR-watch reconciler and human operators all act through    *)
(* these methods; what is hard is how their calls interleave.              *)
(*                                                                         *)
(* A row is a record and its id is its position in insertion order (the    *)
(* code draws a random UUID; only identity and freshness matter).  A lease *)
(* deadline is abstracted to whether it is still in the future; the action *)
(* LeaseLapses is the clock passing it.  Titles, specs, results, tracks,   *)
(* timestamps, archiving and the event log are left out: no decision of    *)
(* the methods below reads them.                                           *)
(***************************************************************************)
EXTENDS Integers, Sequences, FiniteSets

CONSTANTS
    Agent,                 \* names that workers, reviewers and mergers claim under
    NoAgent,               \* SQL NULL in the assignee column
    Models,                \* ODONIAN_MODELS, the allowlist
    Ladder,                \* ODONIAN_ESCALATION_LADDER, lowest tier first
    EscalationThresholds,  \* ODONIAN_ESCALATION_THRESHOLDS, per model
    MaxReviewRounds,       \* the threshold of a model that has none of its own
    Batches,               \* the task lists a planner may post, see CreateTasks
    Submissions            \* the sets of link kinds a worker may submit with

\* Reviewers default to <<"opus">>, allowlisted or not, so a row may name it.
ModelName == Models \cup {"opus"}

NoKey == 0  \* the empty batch key; the other keys are the negative integers

Input == [key : Int, dependsOn : SUBSET Int, model : ModelName,
          reviewers : Seq(ModelName), agentMerge : BOOLEAN, escalate : BOOLEAN]

ASSUME AgentAssumption == NoAgent \notin Agent

\* parseEscalationLadder keeps allowlisted models only, each once, and an empty
\* ladder falls back to the (non-empty) allowlist.
ASSUME LadderAssumption ==
    /\ Ladder \in Seq(Models) /\ Ladder # <<>>
    /\ \A i, j \in 1..Len(Ladder) : Ladder[i] = Ladder[j] => i = j

ASSUME ThresholdAssumption ==
    /\ DOMAIN EscalationThresholds \subseteq ModelName
    /\ \A m \in DOMAIN EscalationThresholds : EscalationThresholds[m] \in Int
    /\ MaxReviewRounds \in Int

ASSUME BatchAssumption ==
    \A batch \in Batches :
        /\ batch \in Seq(Input)
        /\ \A i \in 1..Len(batch) : batch[i].key <= NoKey

ASSUME SubmissionAssumption == Submissions \subseteq SUBSET {"pr", "no_op"}

VARIABLE task  \* the task table, with each row's task_dep and task_link rows

vars == <<task>>

Id == 1..Len(task)
NoTask == 0  \* SQL NULL in target_task_id and superseded_by

State == {"backlog", "ready", "in_progress", "review", "approved", "done",
          "blocked", "failed", "superseded", "abandoned"}
Active == {"backlog", "ready", "in_progress", "review", "approved"}
Kind == {"implement", "review", "merge"}
Verdict == {"none", "approve", "reject"}
Lease == {"none", "live", "lapsed"}
Link == {"pr", "no_op"}  \* the link kinds some decision reads

Row == [kind : Kind, state : State, assignee : Agent \cup {NoAgent}, lease : Lease,
        model : ModelName, reviewers : Seq(ModelName), round : Nat, target : Nat,
        verdict : Verdict, held : BOOLEAN, agentMerge : BOOLEAN, escalate : BOOLEAN,
        links : SUBSET Link, supersededBy : Nat, deps : SUBSET Nat]

\* The columns an INSERT leaves to their defaults.
NewRow(kind, state, model) ==
    [kind |-> kind, state |-> state, assignee |-> NoAgent, lease |-> "none",
     model |-> model, reviewers |-> <<>>, round |-> 0, target |-> NoTask,
     verdict |-> "none", held |-> FALSE, agentMerge |-> FALSE, escalate |-> TRUE,
     links |-> {}, supersededBy |-> NoTask, deps |-> {}]

Init == task = <<>>

-----------------------------------------------------------------------------
(* Planning: a batch of tasks, its dependencies named by batch key or id.  *)

Keyed(batch, ref) == {i \in 1..Len(batch) : batch[i].key = ref}

\* Among the inputs that share a key the last one wins (keyToID is a map).
LastKeyed(batch, ref) ==
    CHOOSE i \in Keyed(batch, ref) : \A j \in Keyed(batch, ref) : j <= i

Resolved(batch, ref) ==
    IF Keyed(batch, ref) # {} THEN Len(task) + LastKeyed(batch, ref) ELSE ref

BatchIsValid(batch) ==
    /\ batch # <<>>
    /\ \A i \in 1..Len(batch) :
        /\ batch[i].model \in Models
        /\ \A k \in 1..Len(batch[i].reviewers) : batch[i].reviewers[k] \in Models
        /\ \A ref \in batch[i].dependsOn :
            /\ ref = batch[i].key => ref = NoKey
            /\ Keyed(batch, ref) # {} \/ ref \in Id

PlannedRow(batch, input) ==
    [NewRow("implement", "backlog", input.model) EXCEPT
        !.reviewers = input.reviewers, !.agentMerge = input.agentMerge,
        !.escalate = input.escalate,
        !.deps = {Resolved(batch, ref) : ref \in input.dependsOn}]

CreateTasks(batch) ==
    /\ BatchIsValid(batch)
    /\ task' = task \o [i \in 1..Len(batch) |-> PlannedRow(batch, batch[i])]

PromoteTask(t) ==
    /\ task[t].state = "backlog"
    /\ task' = [task EXCEPT ![t].state = "ready"]

-----------------------------------------------------------------------------
(* Claims and leases.                                                      *)

\* Slip: the lapsed-lease branch of claimableSQL is lost.
NeverReclaimed(t) ==
    /\ task[t].state = "ready" /\ ~task[t].held
    /\ \A d \in task[t].deps : task[d].state = "done"

\* Slip: the held = 0 filter of claimableSQL is lost.
ClaimableThoughHeld(t) ==
    /\ \/ task[t].state = "ready"
       \/ task[t].state = "in_progress" /\ task[t].lease = "lapsed"
    /\ \A d \in task[t].deps : task[d].state = "done"

\* Slip: approved work is taken for finished.
ClaimableOnApproval(t) ==
    /\ \/ task[t].state = "ready"
       \/ task[t].state = "in_progress" /\ task[t].lease = "lapsed"
    /\ ~task[t].held
    /\ \A d \in task[t].deps : task[d].state \in {"approved", "done"}

\* claimableSQL.  A ready row's lease is not looked at.
Claimable(t) ==
    /\ \/ task[t].state = "ready"
       \/ task[t].state = "in_progress" /\ task[t].lease = "lapsed"
    /\ ~task[t].held
    /\ \A d \in task[t].deps : task[d].state = "done"

\* model is what the agent declares; it must be the row's.
ClaimTask(t, agent, model) ==
    /\ task[t].model = model
    /\ Claimable(t)
    /\ task' = [task EXCEPT ![t] = [@ EXCEPT
                    !.state = "in_progress", !.assignee = agent, !.lease = "live"]]

InProgressBy(t, agent) ==
    task[t].state = "in_progress" /\ task[t].assignee = agent

\* A heartbeat that arrives after the lease lapsed, and before another agent
\* claimed the row, revives it.
HeartbeatTask(t, agent) ==
    /\ InProgressBy(t, agent)
    /\ task' = [task EXCEPT ![t].lease = "live"]

\* Time passes lease_expires_at, whatever state the row is in.
LeaseLapses(t) ==
    /\ task[t].lease = "live"
    /\ task' = [task EXCEPT ![t].lease = "lapsed"]

-----------------------------------------------------------------------------
(* Supersession, by an operator or by the escalation below: the work moves *)
(* to a fresh row, which takes over every dependency on the old one.       *)

\* Slip: superseded_by records an id other than the inserted row's.
MiscountedId(table) == Len(table) + 2

HeirId(table) == Len(table) + 1

\* Slip: the dependents are forgotten.
LeftBehind(row, t, heir) == row

Repointed(row, t, heir) ==
    [row EXCEPT !.deps = {IF d = t THEN heir ELSE d : d \in @}]

Retired(row, heir) == [row EXCEPT !.state = "superseded", !.supersededBy = heir]

\* The target of a review or merge row, the hold and the links are not copied.
Replacement(row, state, model) ==
    [NewRow(row.kind, state, model) EXCEPT
        !.reviewers = row.reviewers, !.agentMerge = row.agentMerge,
        !.escalate = row.escalate, !.deps = row.deps]

Supersession(table, t, model, state) ==
    LET heir == HeirId(table)
        repointed == [i \in 1..Len(table) |-> Repointed(table[i], t, heir)]
    IN  Append([repointed EXCEPT ![t] = Retired(@, heir)],
               Replacement(repointed[t], state, model))

\* Any row, in any state; no model override stands for the row's own model.
SupersedeTask(t, model) ==
    /\ model \in Models
    /\ task' = Supersession(task, t, model, "backlog")

-----------------------------------------------------------------------------
(* Submitting work: an implement row enters review and one review row per  *)
(* reviewer is spawned for the new round.                                  *)

\* Slip: the UPDATE no longer clears lease_expires_at.
SubmittedUnderLease(row, state, verdict, links) ==
    [row EXCEPT !.state = state, !.verdict = verdict, !.links = @ \cup links]

\* The lease is dropped, the assignee stays, links are only ever added.
Submitted(row, state, verdict, links) ==
    [row EXCEPT !.state = state, !.verdict = verdict, !.lease = "none",
                !.links = @ \cup links]

Reworked(row, links, round) ==
    [Submitted(row, "review", "none", links) EXCEPT !.round = round]

ReviewRow(model, round, p) ==
    [NewRow("review", "ready", model) EXCEPT !.round = round, !.target = p]

ReviewersOf(row) == IF row.reviewers = <<>> THEN <<"opus">> ELSE row.reviewers

SubmitWork(t, agent, links) ==
    LET round == task[t].round + 1
        reviewers == ReviewersOf(task[t])
    IN  /\ InProgressBy(t, agent)
        /\ task[t].kind = "implement"
        /\ task' = [task EXCEPT ![t] = Reworked(@, links, round)]
                   \o [i \in 1..Len(reviewers) |-> ReviewRow(reviewers[i], round, t)]

\* Nothing keeps a merge row from being submitted: it then sits in review.
SubmitMerge(t, agent, verdict) ==
    /\ InProgressBy(t, agent)
    /\ task[t].kind = "merge"
    /\ task' = [task EXCEPT ![t] = Submitted(@, "review", verdict, {})]

-----------------------------------------------------------------------------
(* Submitting a verdict, and what the tally of the round does to the row   *)
(* under review, all in the reviewer's own transaction.                    *)

TierDefaults == [haiku |-> 8, sonnet |-> 6, opus |-> 4]

ThresholdFor(model) ==
    IF model \in DOMAIN EscalationThresholds THEN EscalationThresholds[model]
    ELSE IF model \in DOMAIN TierDefaults THEN TierDefaults[model]
    ELSE MaxReviewRounds

IsTopTier(model) == model = Ladder[Len(Ladder)]
HasNextTier(model) == \E i \in 1..(Len(Ladder) - 1) : Ladder[i] = model
NextTier(model) ==
    Ladder[(CHOOSE i \in 1..(Len(Ladder) - 1) : Ladder[i] = model) + 1]

\* The rows the tally counts: those that target p with p's current round.
Tally(table, p) ==
    {i \in 1..Len(table) :
        table[i].target = p /\ table[i].round = table[p].round}

\* Slip: the first rejection decides the round.
DecidedEarly(table, p) ==
    \/ \A i \in Tally(table, p) : table[i].state = "done"
    \/ \E i \in Tally(table, p) : table[i].verdict = "reject"

AllDone(table, p) == \A i \in Tally(table, p) : table[i].state = "done"

\* Slip: a majority is enough.
MostApprove(table, p) ==
    2 * Cardinality({i \in Tally(table, p) : table[i].verdict = "approve"})
        >= Cardinality(Tally(table, p))

AllApprove(table, p) ==
    \A i \in Tally(table, p) :
        table[i].state = "done" /\ table[i].verdict = "approve"

\* Slip: blocked is forgotten among the off-ramps.
IsTerminalButBlocked(row) == row.state \in {"failed", "abandoned"}

\* The aggregator leaves a held row, and one on these off-ramps, alone.
IsTerminal(row) == row.state \in {"failed", "blocked", "abandoned"}

IsNoOp(row) == "no_op" \in row.links /\ "pr" \notin row.links

MergeRow(model, p) == [NewRow("merge", "ready", model) EXCEPT !.target = p]

Accept(table, p) ==
    LET row == table[p]
        state == IF row.agentMerge /\ IsNoOp(row) THEN "done" ELSE "approved"
        accepted == [table EXCEPT ![p].state = state]
    IN  IF row.agentMerge /\ "pr" \in row.links
        THEN Append(accepted, MergeRow(row.model, p))
        ELSE accepted

\* Slip: the breaker trips one round late.
OneRoundLate(row) == row.round > ThresholdFor(row.model) + 1

\* The circuit breaker trips on a rejected round beyond the model's threshold.
OverThreshold(row) == row.round > ThresholdFor(row.model)

Escalates(row) ==
    row.escalate /\ ~IsTopTier(row.model) /\ HasNextTier(row.model)

\* Slip: a row the ladder cannot take is left where it is.
RejectUnlessTopTier(table, p) ==
    IF ~OverThreshold(table[p])
    THEN [table EXCEPT ![p].state = "ready"]
    ELSE IF Escalates(table[p])
    THEN Supersession(table, p, NextTier(table[p].model), "ready")
    ELSE table

Reject(table, p) ==
    IF ~OverThreshold(table[p])
    THEN [table EXCEPT ![p].state = "ready"]
    ELSE IF Escalates(table[p])
    THEN Supersession(table, p, NextTier(table[p].model), "ready")
    ELSE [table EXCEPT ![p].state = "blocked"]

\* Slip: a hold does not put the verdict off.
AggregatedThoughHeld(table, p) ==
    IF IsTerminal(table[p]) \/ ~AllDone(table, p) THEN table
    ELSE IF AllApprove(table, p) THEN Accept(table, p)
    ELSE Reject(table, p)

Aggregated(table, p) ==
    IF table[p].held \/ IsTerminal(table[p]) \/ ~AllDone(table, p) THEN table
    ELSE IF AllApprove(table, p) THEN Accept(table, p)
    ELSE Reject(table, p)

SubmitReview(t, agent, verdict) ==
    LET recorded == [task EXCEPT ![t] = Submitted(@, "done", verdict, {})]
    IN  /\ InProgressBy(t, agent)
        /\ task[t].kind = "review"
        /\ verdict \in {"approve", "reject"}
        /\ task' = IF task[t].target = NoTask THEN recorded
                   ELSE Aggregated(recorded, task[t].target)

-----------------------------------------------------------------------------
(* Transitions asked for by people, the PR-watch reconciler and mergers.   *)

\* Slip: the states a row may fail from are not asked for.
FailsFromAnywhere(row, to) ==
    \/ to = "done" /\ row.state = "approved"
    \/ to = "ready" /\ row.state \in {"approved", "blocked"}
    \/ to = "failed"

CanTransition(row, to) ==
    \/ to = "done" /\ \/ row.state = "approved"
                      \/ row.state = "in_progress" /\ row.kind = "merge"
    \/ to = "ready" /\ row.state \in {"approved", "blocked"}
    \/ to \in {"blocked", "superseded"} /\ row.state \in Active
    \/ to = "failed" /\ row.state \in Active \cup {"blocked"}
    \/ to = "abandoned" /\ row.state = "approved"

\* Slip: unblocking starts the round count over.
MovedWithFreshRounds(row, to) ==
    IF row.state = "blocked"
    THEN [row EXCEPT !.state = to, !.assignee = NoAgent, !.lease = "none", !.round = 0]
    ELSE [row EXCEPT !.state = to]

\* Leaving blocked, a row loses its assignee and its lease.
Moved(row, to) ==
    IF row.state = "blocked"
    THEN [row EXCEPT !.state = to, !.assignee = NoAgent, !.lease = "none"]
    ELSE [row EXCEPT !.state = to]

TransitionTask(t, to) ==
    /\ CanTransition(task[t], to)
    /\ task' = [task EXCEPT ![t] = Moved(@, to)]

\* An operator's lock, in any state; releasing it re-examines nothing.
HoldTask(t) == task' = [task EXCEPT ![t].held = TRUE]
ReleaseTask(t) == task' = [task EXCEPT ![t].held = FALSE]

-----------------------------------------------------------------------------

AgentStep(t) ==
    \/ LeaseLapses(t)
    \/ \E agent \in Agent :
        \/ \E model \in ModelName : ClaimTask(t, agent, model)
        \/ HeartbeatTask(t, agent)
        \/ \E links \in Submissions : SubmitWork(t, agent, links)
        \/ \E verdict \in Verdict : SubmitReview(t, agent, verdict)

Next ==
    \/ \E batch \in Batches : CreateTasks(batch)
    \/ \E t \in Id :
        \/ PromoteTask(t)
        \/ AgentStep(t)
        \/ \E agent \in Agent, verdict \in Verdict : SubmitMerge(t, agent, verdict)
        \/ \E to \in State : TransitionTask(t, to)
        \/ \E model \in Models : SupersedeTask(t, model)
        \/ HoldTask(t)
        \/ ReleaseTask(t)

Spec == Init /\ [][Next]_vars

-----------------------------------------------------------------------------
(* The store lets a person take any row away from its reviewers, replace   *)
(* finished work, or build on a row that was replaced.  These are the      *)
(* steps in which nobody does; some properties below hold of them only.    *)

\* Some reviewer of p, in whatever round, has yet to hand in a verdict.
AwaitsVerdict(p) ==
    \E r \in Id :
        task[r].kind = "review" /\ task[r].target = p /\ task[r].state # "done"

NamesCurrentRows(batch) ==
    \A i \in 1..Len(batch) : \A d \in PlannedRow(batch, batch[i]).deps :
        d \in Id => task[d].supersededBy = NoTask

Final == {"done", "failed", "superseded", "abandoned"}

OrderlyNext ==
    \/ \E batch \in Batches : CreateTasks(batch) /\ NamesCurrentRows(batch)
    \/ \E t \in Id :
        \/ PromoteTask(t)
        \/ AgentStep(t)
        \/ \E agent \in Agent, verdict \in Verdict : SubmitMerge(t, agent, verdict)
        \/ \E to \in State :
            /\ TransitionTask(t, to)
            /\ to \in {"blocked", "superseded"} => ~AwaitsVerdict(t)
        \/ \E model \in Models :
            /\ ~AwaitsVerdict(t) /\ task[t].state \notin Final
            /\ SupersedeTask(t, model)
        \/ HoldTask(t)
        \/ /\ ReleaseTask(t)
           /\ task[t].kind = "implement" /\ task[t].state = "review" => AwaitsVerdict(t)

OrderlySpec == Init /\ [][OrderlyNext]_vars
-----------------------------------------------------------------------------
(* Safety.                                                                 *)

\* Every column holds a value of its domain, and every id that a row names,
\* the task under review, a replacement, a dependency, is a row of the table.
TypeOK ==
    /\ task \in Seq(Row)
    /\ \A t \in Id :
        /\ task[t].target \in Id \cup {NoTask}
        /\ task[t].supersededBy \in Id \cup {NoTask}
        /\ task[t].deps \subseteq Id

\* Review rows of the n-th round of p.
RoundOf(p, n) ==
    {i \in Id : task[i].kind = "review" /\ task[i].target = p /\ task[i].round = n}

\* The review gate: work that is approved, or done, has been through a review
\* round and every reviewer of its latest round approved it.  No order of late,
\* reclaimed or repeated verdicts, holds, unblocks and supersessions gets around
\* the wait-for-all aggregation of SubmitTask.
ApprovedIsUnanimous ==
    \A p \in Id :
        task[p].kind = "implement" /\ task[p].state \in {"approved", "done"} =>
            /\ RoundOf(p, task[p].round) # {}
            /\ \A r \in RoundOf(p, task[p].round) : task[r].verdict = "approve"

\* A round number is used for one submission only: the review rows of a round
\* number are one per requested reviewer, whatever was blocked, unblocked, bounced
\* and resubmitted in between, so a tally never mixes verdicts on two versions of
\* the work.
RoundsAreSeparate ==
    \A p \in Id : \A n \in 1..Len(task) :
        task[p].kind = "implement" /\ RoundOf(p, n) # {} =>
            /\ n <= task[p].round
            /\ Cardinality(RoundOf(p, n)) = Len(ReviewersOf(task[p]))

\* Some reviewer's verdict is recorded in this step.
VerdictRecorded == \E r \in Id : task'[r].verdict # task[r].verdict

\* A hold is a lock: while it is on, nobody claims the row and no verdict on its
\* work moves it, however long ago the reviewer started.
HoldFreezes ==
    [][\A p \in Id :
        task[p].held =>
            /\ task'[p].assignee # task[p].assignee => task'[p].assignee = NoAgent
            /\ VerdictRecorded /\ task[p].kind = "implement" =>
                    task'[p].state = task[p].state]_vars

\* Work that a person blocked, failed or abandoned is not brought back by a
\* verdict that was still on its way when they did.
OffRampsSurviveVerdicts ==
    [][\A p \in Id :
        VerdictRecorded /\ task[p].state \in {"blocked", "failed", "abandoned"} =>
            task'[p].state = task[p].state]_vars

\* What holds under OrderlyNext, as long as no person cuts a review round short.

\* A row back in the queue carries no lease, so claiming it cannot put two agents
\* on the same branch; claimableSQL relies on that, it reads no lease of a ready row.
ReadyRowIsFree == \A t \in Id : task[t].state = "ready" => task[t].lease = "none"

\* The circuit breaker: a row whose latest round was rejected goes back to a worker
\* only while that round is within the model's threshold.
ReworkWithinBudget ==
    \A p \in Id :
        /\ task[p].kind = "implement"
        /\ task[p].state \in {"ready", "in_progress"}
        /\ \E r \in RoundOf(p, task[p].round) : task[r].verdict = "reject"
        => task[p].round <= ThresholdFor(task[p].model)

\* Once the last reviewer of a round has spoken nothing is left waiting: a row in
\* review has a reviewer of its current round still to come.
VerdictsAreActedOn ==
    \A p \in Id :
        task[p].kind = "implement" /\ task[p].state = "review" /\ ~task[p].held =>
            \E r \in RoundOf(p, task[p].round) : task[r].state # "done"

\* A dependency is met when it is done, and nothing that was built on it is in
\* flight, or finished, before: supersession hands a row's dependents to its heir, so
\* work escalated out from under them is waited for again.
BuiltOnFinishedWork ==
    \A t \in Id :
        task[t].state \in {"in_progress", "review", "approved", "done"} =>
            \A d \in task[t].deps : task[d].state = "done"

\* Nobody waits for a row that was replaced, which will never be done.
DependentsFollow ==
    \A t \in Id : \A d \in task[t].deps : task[d].supersededBy = NoTask

\* Escalation hands work over once: a row never gets a second replacement, which
\* would set two workers on the same work.
OneHeir ==
    [][\A t \in Id :
        task[t].supersededBy # NoTask =>
            task'[t].supersededBy = task[t].supersededBy]_vars

-----------------------------------------------------------------------------
(* What the documentation promises and the interleavings do not keep.      *)

\* "done/failed are terminal" (AGENT-API.md): finished work is not put back in
\* flight.  A reviewer of an earlier round may still submit after it is done.
DoneIsTerminal ==
    [][\A p \in Id :
        task[p].state = "done" => task'[p].state \in {"done", "superseded"}]_vars

\* ClaimTask "ensures the task ... has no live lease": nobody is handed a row while
\* the lease of the agent that is working on it is still running.
ClaimNeedsNoLiveLease ==
    [][\A t \in Id :
        /\ task'[t].state = "in_progress"
        /\ task'[t].assignee # task[t].assignee
        => task[t].lease # "live"]_vars
=============================================================================

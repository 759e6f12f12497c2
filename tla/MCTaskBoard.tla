----------------------------- MODULE MCTaskBoard -----------------------------
(***************************************************************************)
(* TaskBoard for TLC.  Planner, agents and mergers act freely; the steps   *)
(* people and the PR-watch reconciler take out of turn are paid for from a *)
(* budget, and a run chooses which of them there are.                      *)
(***************************************************************************)
EXTENDS TaskBoard, TLC

CONSTANTS
    Interventions,     \* the out-of-turn steps of a run, by name
    MaxInterventions,  \* the budget a behaviour may spend on them
    MaxTasks           \* rows the table may grow to

VARIABLE interventions  \* how much of the budget is spent

mcvars == <<task, interventions>>

MCInit == Init /\ interventions = 0

AgentSymmetry == Permutations(Agent)

-----------------------------------------------------------------------------
(* The routine of the loop.                                                *)

Routine == UNCHANGED interventions /\ Len(task') <= MaxTasks

Plan == task = <<>> /\ (\E batch \in Batches : CreateTasks(batch)) /\ Routine
Promote(t) == PromoteTask(t) /\ Routine
Lapse(t) == LeaseLapses(t) /\ Routine
Heartbeat(t) == (\E agent \in Agent : HeartbeatTask(t, agent)) /\ Routine

Claim(t) ==
    /\ t \in Id
    /\ \E agent \in Agent, model \in ModelName : ClaimTask(t, agent, model)
    /\ Routine

Work(t) ==
    /\ \E agent \in Agent, links \in Submissions : SubmitWork(t, agent, links)
    /\ Routine

Review(t) ==
    /\ \E agent \in Agent, verdict \in Verdict : SubmitReview(t, agent, verdict)
    /\ Routine

\* A person, a merger or PR-watch records that the work was merged.
Finish(t) == TransitionTask(t, "done") /\ Routine

-----------------------------------------------------------------------------
(* Out of turn.  Stepping in on review and merge rows, and superseding, is *)
(* dearer: it widens the state space most.                                 *)

Price(t, name) ==
    (IF task[t].kind = "implement" THEN 1 ELSE 2)
    + (IF name = "supersede" THEN 1 ELSE 0)

OutOfTurn(t, name) ==
    /\ name \in Interventions
    /\ interventions' = interventions + Price(t, name)
    /\ interventions' <= MaxInterventions

Hold(t) == OutOfTurn(t, "hold") /\ ~task[t].held /\ HoldTask(t)
Release(t) == OutOfTurn(t, "release") /\ task[t].held /\ ReleaseTask(t)
Supersede(t) ==
    /\ OutOfTurn(t, "supersede")
    /\ \E model \in Models : SupersedeTask(t, model)
    /\ Len(task') <= MaxTasks
Unblock(t) ==
    OutOfTurn(t, "unblock") /\ task[t].state = "blocked" /\ TransitionTask(t, "ready")
Bounce(t) ==
    OutOfTurn(t, "bounce") /\ task[t].state = "approved" /\ TransitionTask(t, "ready")
OffRamp(t) ==
    \E to \in {"blocked", "failed", "superseded", "abandoned"} :
        OutOfTurn(t, to) /\ TransitionTask(t, to)
Misuse(t) ==
    /\ OutOfTurn(t, "misuse")
    /\ \E agent \in Agent, verdict \in Verdict : SubmitMerge(t, agent, verdict)

MCNext ==
    \/ Plan
    \/ \E t \in Id :
        \/ Promote(t) \/ Claim(t) \/ Heartbeat(t) \/ Lapse(t)
        \/ Work(t) \/ Review(t) \/ Finish(t)
        \/ Hold(t) \/ Release(t) \/ Supersede(t)
        \/ Unblock(t) \/ Bounce(t) \/ OffRamp(t) \/ Misuse(t)

MCSpec == MCInit /\ [][MCNext]_mcvars

\* The interventions that leave review rounds alone.
MCOrderlySpec == MCInit /\ [][MCNext /\ OrderlyNext]_mcvars

-----------------------------------------------------------------------------
(* The pollers of harness/agent.sh.  A row that stays claimable is claimed *)
(* sooner or later (weak fairness).  An agent may crash, and then never    *)
(* submits; but of the agents that claim a row over and over some agent    *)
(* submits before its lease lapses (strong fairness: the row's lease is    *)
(* live again and again).  Planning, promotion, heartbeats, the clock and  *)
(* every intervention are owed nothing.                                    *)

\* The claimant answers in time.
Complete(t) ==
    /\ t \in Id /\ task[t].lease = "live"
    /\ Work(t) \/ Review(t)

MCFairSpec ==
    /\ MCSpec
    /\ \A t \in 1..MaxTasks : WF_mcvars(Claim(t)) /\ SF_mcvars(Complete(t))

\* Work that was promoted gets somewhere: through any number of lapsed leases, and
\* as long as people step in finitely often, every row ends up approved, done,
\* handed up the ladder or blocked for a person, or waits for one that did.  Rework
\* loops are cut by the circuit breaker and escalation ends at the top tier.
WorkSettles ==
    <>[](\A t \in Id :
            /\ task[t].state \notin {"in_progress", "review"}
            /\ task[t].state = "ready" =>
                    \E d \in task[t].deps : task[d].state # "done")
=============================================================================

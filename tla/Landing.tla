------------------------------ MODULE Landing ------------------------------
(***************************************************************************)
(* From claim to the main branch: the board, the workers' sessions, the    *)
(* mergers, the PR-watch reconciler and people on GitHub, all at once.     *)
(***************************************************************************)
EXTENDS Merger, PRWatch

CONSTANT Work  \* the ids that implement rows may get

watchvars == <<listed, looking, closing>>
landingvars == <<task, pr, working, merger, watchvars>>

LandingInit == Init /\ ForgeInit /\ MergerInit /\ WatchInit

BoardOnly == BoardWrite /\ UNCHANGED <<working, merger, watchvars>>
OnGitHub == UNCHANGED <<merger, watchvars>>

\* What planner, reviewers, agents that heartbeat, and people on the board do.
BoardStep ==
    /\ BoardOnly
    /\ \/ \E batch \in Batches : CreateTasks(batch)
       \/ \E t \in Id :
            \/ PromoteTask(t) \/ LeaseLapses(t) \/ HoldTask(t) \/ ReleaseTask(t)
            \/ \E to \in State : TransitionTask(t, to)
            \/ \E a \in Agent :
                \/ HeartbeatTask(t, a)
                \/ \E model \in ModelName : task[t].kind = "review" /\ ClaimTask(t, a, model)
                \/ \E verdict \in Verdict : SubmitReview(t, a, verdict)

WorkerStep ==
    /\ OnGitHub
    /\ \E t \in Id, a \in Agent :
        \/ \E model \in ModelName : StartWork(t, a, model)
        \/ Push(t, a) \/ Acknowledge(t, a) \/ Submit(t, a) \/ SubmitUnchecked(t, a)
        \/ SessionEnds(t, a)

PersonStep ==
    /\ OnGitHub
    /\ \E t \in DOMAIN pr :
        \/ \E decision \in {"pending", "changes_requested"} : Review(t, decision)
        \/ Comment(t) \/ MergeByHand(t) \/ CloseByHand(t) \/ Reopen(t) \/ Conflict(t)

WatchStep ==
    /\ UNCHANGED <<working, merger>>
    /\ \/ PassGoesOn \/ SkipRow \/ ServerRestarts
       \/ \E t \in Id :
            \/ RetrofitLook(t) \/ CloseSupersededPR(t) \/ CloseFails(t)
            \/ \E model \in Models : Supersede(t, model)

LandingNext ==
    \/ BoardStep \/ WorkerStep \/ PersonStep \/ WatchStep
    \/ \E a \in Agent : MergerStep(a) /\ UNCHANGED <<working, watchvars>>

LandingSpec == LandingInit /\ [][LandingNext]_landingvars
-----------------------------------------------------------------------------
(* Safety.                                                                 *)

\* Pull requests, sessions and runs belong to rows of the board, a merge row has the row
\* it merges, and only what was merged has landed.
LandingTypeOK ==
    /\ DOMAIN pr \subseteq Id /\ pr \in [DOMAIN pr -> PullRequest]
    /\ \A t \in DOMAIN pr : pr[t].landed # {} <=> pr[t].state = "merged"
    /\ working \in [Agent -> Id \cup {NoTask}]
    /\ \A a \in Agent : working[a] # NoTask => task[working[a]].kind = "implement"
    /\ merger \in [Agent -> Run]
    /\ \A a \in Agent : merger[a].at # "none" =>
            /\ merger[a].row \in Id /\ task[merger[a].row].kind = "merge"
            /\ Parent(a) \in DOMAIN pr \/ (Parent(a) = NoTask /\ merger[a].at = "read")
    /\ listed \subseteq [row : DOMAIN pr, round : Nat]
    /\ looking \in Look /\ looking.row \in DOMAIN pr \cup {NoTask}
    /\ closing \subseteq Id

\* The merge call names no commit, and yet what is merged while the board has the work as
\* approved is what its reviewers approved: sessions of the row's assignee, and of agents
\* that had it before, push at any time until they are over, and a merge may come from a
\* run that stalled.  Two things can still put unseen work on the main branch, and are
\* left out here by name: a push, after the hand-in, of a session that lost the row
\* (stray); and a run that found the row approved and merges after it was taken back
\* (the row is not approved then).  (The run leaves blocking by hand out: after it a
\* verdict on the round that was cut short may approve what has been pushed since, which
\* is DoneIsTerminal's cause.)
ApprovedHeadLands ==
    [][\A t \in DOMAIN pr :
        task[t].state = "approved" /\ ~pr[t].stray =>
            \A head \in pr'[t].landed \ pr[t].landed :
                /\ RoundOf(t, head) # {}
                /\ \A r \in RoundOf(t, head) : task[r].verdict = "approve"]_landingvars

\* Asking for changes takes approved work back once: PR-watch bounces a row only for a
\* review later than its approval, or any later write to it, unless the row was taken
\* back and approved again under a pass that had listed it before.  (The run leaves holds
\* out: one that is put on the row during the pass is such a later write.)
RequestBouncesOnce ==
    [][\A t \in DOMAIN pr :
        /\ looking.at = "bounce" /\ looking.row = t
        /\ task[t].state = "approved" /\ task'[t].state = "ready"
        => "row" \in pr[t].newer \/ looking.round # task[t].round]_landingvars

-----------------------------------------------------------------------------
(* Landing implements Delivery, for the implement rows.                    *)

StageOf(t) ==
    IF t \notin Id THEN "building"
    ELSE IF task[t].kind # "implement" THEN "building"
    ELSE CASE task[t].state = "approved" -> "accepted"
           [] task[t].state = "done" -> "delivered"
           [] task[t].state \in {"failed", "abandoned"} -> "dropped"
           [] OTHER -> "building"

D == INSTANCE Delivery WITH
        stage <- [t \in Work |-> StageOf(t)],
        landed <- {t \in DOMAIN pr : pr[t].state = "merged"}

\* Work is recorded as done only when it was approved and its pull request is merged,
\* and is never put back in flight, whatever mergers crash or overlap, whatever call
\* fails, and whatever people do to the pull request meanwhile.  (A row that is blocked
\* in review and unblocked may be: that is DoneIsTerminal.)
DeliversWhatLanded == D!Spec
=============================================================================

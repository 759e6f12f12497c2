------------------------------- MODULE Forge -------------------------------
(***************************************************************************)
(* The pull requests of implement rows on GitHub, seen through the forge   *)
(* client (internal/forge), and what workers and people do to them.        *)
(*                                                                         *)
(* A worker's session starts with its claim and goes on until it submits,  *)
(* gives up or dies, whoever has the row by then: the board refuses what a *)
(* session that lost its row sends it, GitHub does not.                    *)
(*                                                                         *)
(* GitHub is modelled from how the client uses it.  A row has one pull     *)
(* request, opened by its first push; of what a push changes in the files  *)
(* only this is kept, whether it was handed in.  Timestamps are compared   *)
(* in two places only, a review's with the row's updated_at and with the   *)
(* updated_at a PR-watch pass listed, so "newer" holds which of the two    *)
(* the latest review is later than.                                        *)
(***************************************************************************)
EXTENDS TaskBoard

\* A worker may submit with the link to its pull request.
ASSUME PRSubmissions == {"pr"} \in Submissions

VARIABLES
    pr,      \* the pull request of each row that has one
    working  \* the row each agent has a session for, by agent

PullRequest ==
    [state : {"open", "merged", "closed"},
     clean : BOOLEAN,     \* mergeable_state is neither dirty nor behind
     head : Nat,          \* the round the head was handed in for, 0 if it is later
     landed : SUBSET Nat, \* the head that was merged
     stray : BOOLEAN,     \* somebody but the row's assignee pushed it, since then
     decision : {"pending", "changes_requested"},
     newer : SUBSET {"row", "listed"},
     feedback : SUBSET {"thread", "comment"}]  \* unaddressed feedback, by its two sources

Opened(stray) ==
    [state |-> "open", clean |-> TRUE, head |-> 0, landed |-> {}, stray |-> stray,
     decision |-> "pending", newer |-> {}, feedback |-> {}]

ForgeInit == pr = <<>> /\ working = [a \in Agent |-> NoTask]

IsOpen(t) == t \in DOMAIN pr /\ pr[t].state = "open"

\* A write to a row sets its updated_at.
Restamped(p) ==
    [t \in DOMAIN p |->
        IF task'[t] = task[t] THEN p[t] ELSE [p[t] EXCEPT !.newer = @ \ {"row"}]]

\* A step that writes the board and leaves GitHub alone.
BoardWrite == pr' = Restamped(pr)

-----------------------------------------------------------------------------
(* The worker: claim, push, acknowledge, submit.                           *)

Works(t, agent) == working[agent] = t
SessionOver(agent) == working' = [working EXCEPT ![agent] = NoTask]

\* The harness claims, and runs one session at a time.
StartWork(t, agent, model) ==
    /\ working[agent] = NoTask
    /\ task[t].kind = "implement"
    /\ ClaimTask(t, agent, model)
    /\ BoardWrite
    /\ working' = [working EXCEPT ![agent] = t]

\* The rework merges the base branch in; a push reopens nothing.
Pushed(p, t, stray) ==
    IF t \in DOMAIN p
    THEN [p EXCEPT ![t].head = 0, ![t].clean = TRUE, ![t].stray = @ \/ stray]
    ELSE [i \in DOMAIN p \cup {t} |-> IF i = t THEN Opened(stray) ELSE p[i]]

\* Nothing keeps a session that lost its row from pushing: git asks no board, and a
\* push that the other session's makes non-fast-forward goes through after a merge.
Push(t, agent) ==
    /\ Works(t, agent)
    /\ pr' = Pushed(pr, t, task[t].assignee # agent)
    /\ UNCHANGED <<task, working>>

\* The review threads, and the comments, that an agent has still to answer.
ListUnaddressedFeedback(t) == pr[t].feedback

\* pr-feedback ack: the reply alone takes the item off the list, an agent having
\* the thread's last word, or having commented after every comment there is.
Acknowledge(t, agent) ==
    /\ Works(t, agent) /\ t \in DOMAIN pr
    /\ \E item \in ListUnaddressedFeedback(t) : pr' = [pr EXCEPT ![t].feedback = @ \ {item}]
    /\ UNCHANGED <<task, working>>

\* enforceFeedbackGate.  A check that cannot run lets the submission pass; that is
\* SubmitUnchecked.
GatePasses(t) == task[t].round <= 0 \/ ListUnaddressedFeedback(t) = {}

\* What is on the branch when the row is handed in is what its reviewers get to see.
WithHead(p, t, round) == [p EXCEPT ![t].head = round, ![t].stray = FALSE]

\* Slip: the worker submits first and commits what is left afterwards.
HandInFirst(t, agent) ==
    /\ Works(t, agent) /\ t \in DOMAIN pr
    /\ SubmitWork(t, agent, {"pr"})
    /\ pr' = WithHead(Restamped(pr), t, task[t].round + 1)
    /\ UNCHANGED working

\* The session submits last, and stops.
HandIn(t, agent) ==
    /\ Works(t, agent) /\ t \in DOMAIN pr
    /\ SubmitWork(t, agent, {"pr"})
    /\ pr' = WithHead(Restamped(pr), t, task[t].round + 1)
    /\ SessionOver(agent)

Submit(t, agent) == t \in DOMAIN pr /\ GatePasses(t) /\ HandIn(t, agent)
SubmitUnchecked(t, agent) == HandIn(t, agent)

\* The session dies, gives up, or finds its submission refused.
SessionEnds(t, agent) ==
    /\ Works(t, agent)
    /\ SessionOver(agent)
    /\ UNCHANGED <<task, pr>>

-----------------------------------------------------------------------------
(* The forge client's writes.                                              *)

\* Slip: what was merged is not recorded.
MergedUnnamed(p) == [p EXCEPT !.state = "merged"]

Merged(p) == [p EXCEPT !.state = "merged", !.landed = {p.head}]

\* Slip: a closed pull request passes for merged.
NoLongerOpen(t) == pr[t].state # "open"

\* Slip: a merge is recognised only by the answer to the call that made it.
NeverMerged(t) == FALSE

AlreadyMerged(t) == pr[t].state = "merged"

\* An agent's comment, told by its marker, acknowledges every comment before it; one
\* without a marker is feedback like any other.
Commented(p, marked) ==
    [p EXCEPT !.feedback = IF marked THEN @ \ {"comment"} ELSE @ \cup {"comment"}]

\* GitHub refuses to close what is merged.
ClosePR(t) == IsOpen(t) /\ pr' = [pr EXCEPT ![t].state = "closed"]

-----------------------------------------------------------------------------
(* People on GitHub.                                                       *)

\* A review may come with threads to answer.
Reviewed(p, decision, items) ==
    [p EXCEPT !.decision = decision, !.newer = {"row", "listed"},
              !.feedback = @ \cup items]

Review(t, decision) ==
    /\ IsOpen(t)
    /\ \E items \in {{}, {"thread"}} : pr' = [pr EXCEPT ![t] = Reviewed(@, decision, items)]
    /\ UNCHANGED <<task, working>>

Comment(t) ==
    /\ IsOpen(t)
    /\ pr' = [pr EXCEPT ![t] = Commented(@, FALSE)]
    /\ UNCHANGED <<task, working>>

MergeByHand(t) ==
    /\ IsOpen(t) /\ pr[t].clean
    /\ pr' = [pr EXCEPT ![t] = Merged(@)]
    /\ UNCHANGED <<task, working>>

CloseByHand(t) == ClosePR(t) /\ UNCHANGED <<task, working>>

Reopen(t) ==
    /\ t \in DOMAIN pr /\ pr[t].state = "closed"
    /\ pr' = [pr EXCEPT ![t].state = "open"]
    /\ UNCHANGED <<task, working>>

\* Somebody else's work lands and this branch no longer merges.
Conflict(t) ==
    /\ IsOpen(t) /\ pr[t].clean
    /\ pr' = [pr EXCEPT ![t].clean = FALSE]
    /\ UNCHANGED <<task, working>>
=============================================================================

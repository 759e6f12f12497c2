------------------------------ MODULE PRWatch ------------------------------
(***************************************************************************)
(* The PR-watch reconciler of the server (internal/prwatch): each pass     *)
(* lists the approved rows that a person merges, looks at their pull       *)
(* requests one by one, and records what it sees on the board.  Then it    *)
(* closes the open pull requests of rows that were replaced or abandoned.  *)
(*                                                                         *)
(* The list, the two looks at GitHub and the write are separate calls;     *)
(* each may fail, which skips the row until the next pass.  A restart of   *)
(* the server drops the pass.                                              *)
(***************************************************************************)
EXTENDS Forge

VARIABLES
    listed,   \* the rows the pass has still to look at, with their round at the list
    looking,  \* the row being looked at, what was seen and what is to be done
    closing   \* replaced and abandoned rows whose pull request the server is about to close

Look == [at : {"none", "state", "decision", "act", "bounce"}, row : Nat, round : Nat,
         saw : {"none", "open", "merged", "closed"},
         action : {"noop", "done", "abandon", "bounce"}]
NoLook == [at |-> "none", row |-> NoTask, round |-> 0, saw |-> "none", action |-> "noop"]

WatchInit == listed = {} /\ looking = NoLook /\ closing = {}

Watched(t) == task[t].state = "approved" /\ ~task[t].agentMerge /\ t \in DOMAIN pr

ListApproved ==
    /\ looking = NoLook /\ listed = {}
    /\ listed' = {[row |-> t, round |-> task[t].round] : t \in {t \in Id : Watched(t)}}
    /\ listed' # {}
    /\ pr' = [t \in DOMAIN pr |->
                [pr[t] EXCEPT !.newer = IF "row" \in @ THEN @ \cup {"listed"}
                                        ELSE @ \ {"listed"}]]
    /\ UNCHANGED <<task, looking, closing>>

\* reconcileTask, for the next row of the list.
LookAt(entry) ==
    /\ looking = NoLook
    /\ listed' = listed \ {entry}
    /\ looking' = [NoLook EXCEPT !.at = "state", !.row = entry.row, !.round = entry.round]
    /\ UNCHANGED <<task, pr, closing>>

GetPRState ==
    /\ looking.at = "state"
    /\ looking' = [looking EXCEPT !.at = "decision", !.saw = pr[looking.row].state]
    /\ UNCHANGED <<task, pr, listed, closing>>

\* Slip: the time of the review is not compared with the row's.
AnyChangeRequest(state, p) ==
    IF state = "merged" THEN "done"
    ELSE IF state = "closed" THEN "abandon"
    ELSE IF p.decision = "changes_requested" THEN "bounce" ELSE "noop"

\* decideAction: a change request counts if the latest review of the pull request,
\* whatever it says, is later than the updated_at of the row as it was listed.
DecideAction(state, p) ==
    IF state = "merged" THEN "done"
    ELSE IF state = "closed" THEN "abandon"
    ELSE IF p.decision = "changes_requested" /\ "listed" \in p.newer THEN "bounce"
    ELSE "noop"

GetReviewDecision ==
    LET action == DecideAction(looking.saw, pr[looking.row])
    IN  /\ looking.at = "decision"
        /\ looking' = IF action = "noop" THEN NoLook
                      ELSE [looking EXCEPT !.at = "act", !.action = action]
        /\ UNCHANGED <<task, pr, listed, closing>>

\* The last step for a row: the board may refuse the transition.
Records(to) ==
    /\ \/ TransitionTask(looking.row, to) /\ BoardWrite
       \/ ~CanTransition(task[looking.row], to) /\ UNCHANGED <<task, pr>>
    /\ looking' = NoLook
    /\ UNCHANGED <<listed, closing>>

ApplyMerged == looking.at = "act" /\ looking.action = "done" /\ Records("done")
ApplyAbandoned == looking.at = "act" /\ looking.action = "abandon" /\ Records("abandoned")

\* applyBounce: the comment first, which bears the reconciler's marker.
BounceComment ==
    /\ looking.at = "act" /\ looking.action = "bounce"
    /\ pr' = [pr EXCEPT ![looking.row] = Commented(@, TRUE)]
    /\ looking' = [looking EXCEPT !.at = "bounce"]
    /\ UNCHANGED <<task, listed, closing>>

ApplyBounce == looking.at = "bounce" /\ Records("ready")

\* A call fails: the row is skipped.
SkipRow ==
    /\ looking # NoLook
    /\ looking' = NoLook
    /\ UNCHANGED <<task, pr, listed, closing>>

ServerRestarts ==
    /\ listed # {} \/ looking # NoLook \/ closing # {}
    /\ listed' = {} /\ looking' = NoLook /\ closing' = {}
    /\ UNCHANGED <<task, pr>>

\* Slip: abandoned rows are forgotten.
OnlySuperseded == {"superseded"}

terminalPRCleanupStates == {"superseded", "abandoned"}

\* Retrofit: a replaced or abandoned row whose pull request is open.
RetrofitLook(t) ==
    /\ task[t].state \in terminalPRCleanupStates
    /\ IsOpen(t) /\ t \notin closing
    /\ closing' = closing \cup {t}
    /\ UNCHANGED <<task, pr, listed, looking>>

\* SupersedeTask starts closeSupersededPR in the background; escalation does not.
Supersede(t, model) ==
    /\ SupersedeTask(t, model)
    /\ BoardWrite
    /\ closing' = closing \cup {t}
    /\ UNCHANGED <<listed, looking>>

\* The server's comment on a pull request it is to close; it bears no marker, and
\* failing to post it is ignored.
ClosingComment(p, posted) == IF posted THEN Commented(p, FALSE) ELSE p

\* Retrofit or closeSupersededPR: by now the row may have been brought back.
CloseSupersededPR(t) ==
    /\ t \in closing
    /\ closing' = closing \ {t}
    /\ \/ IsOpen(t) /\ \E posted \in BOOLEAN :
            pr' = [pr EXCEPT ![t] = [ClosingComment(@, posted) EXCEPT !.state = "closed"]]
       \/ ~IsOpen(t) /\ UNCHANGED pr
    /\ UNCHANGED <<task, listed, looking>>

CloseFails(t) ==
    /\ t \in closing
    /\ closing' = closing \ {t}
    /\ \/ UNCHANGED pr
       \/ IsOpen(t) /\ pr' = [pr EXCEPT ![t] = ClosingComment(@, TRUE)]
    /\ UNCHANGED <<task, listed, looking>>

PassGoesOn ==
    \/ ListApproved \/ \E entry \in listed : LookAt(entry)
    \/ GetPRState \/ GetReviewDecision
    \/ ApplyMerged \/ ApplyAbandoned \/ BounceComment \/ ApplyBounce
=============================================================================

---------------------------- MODULE LocalCommit ----------------------------
(***************************************************************************)
(* Local commit mode (ODONIAN_DELIVERY_MODE=local_commit): no pull request *)
(* and no push.  A worker edits in a git worktree of its own, the CLI      *)
(* commits it on wip/<task id> when the worker submits, and when a person  *)
(* approves the work the MR branch wi/<slug> is moved onto that commit     *)
(* ("freeze") and worktree and wip branch are removed.                     *)
(*                                                                         *)
(* Each CLI verb is several git commands and calls to the board, one       *)
(* process each, that can stop or be overtaken between any two.  One git   *)
(* command is one step.  The board is the module extended.                 *)
(*                                                                         *)
(* A branch is its history from the head of origin/main on, oldest commit  *)
(* first; a commit is the row it was made for and a number that orders the *)
(* commits made for that row.  What the files contain is left out.         *)
(***************************************************************************)
EXTENDS TaskBoard, SequencesExt

CONSTANT SlugOf(_)  \* the slug of a row's title: rows may well share one

\* A submission carries a commit, which has no bearing on the board, or is a no-op.
ASSUME LocalSubmissions == Submissions = {{}, {"no_op"}}

VARIABLES
    mr,          \* wi/<slug>, for the slugs that have one
    wip,         \* wip/<id>, for the rows that have one
    worktree,    \* the registered worktrees, by row: which changes are in them
    checkedOut,  \* the slugs whose MR branch is checked out in some worktree
    objects,     \* the commits git ever made
    linked,      \* the commit links of the rows: the commits whose submission was accepted
    session,     \* what each agent's working session is up to
    verb         \* the approve and reject verbs that are running, by row, with their step

\* History variables, which no step reads.
VARIABLES
    base,        \* where each wip branch last met its MR branch: where it was branched,
                 \* then wherever its freezes put the MR branch
    rewritten,   \* the commits that replace one that was on an MR branch or on main
    lost         \* where MR branches were, or main where there was none yet, when they
                 \* were moved elsewhere than ahead

branches == <<mr, wip, worktree, objects, base, rewritten, lost>>
localvars == <<task, branches, checkedOut, linked, session, verb>>

Commit == [row : Nat, n : Nat]
MainHead == [row |-> NoTask, n |-> 0]
OriginMain == <<MainHead>>
History == Seq(Commit) \ {<<>>}

\* Changes in a worktree that differ from what is staged, and staged ones that differ
\* from its head.
Changes == SUBSET {"edited", "staged"}

Session == [at : {"idle", "claimed", "resolved", "working",
                  "submitting", "checked", "staged", "committed", "named"},
            row : Nat, tip : {"mr", "origin/main"}, rework : BOOLEAN, sha : Commit]
Idle == [at |-> "idle", row |-> NoTask, tip |-> "origin/main", rework |-> FALSE,
         sha |-> MainHead]

Step == {"approve", "reject", "abandon",                \* the task was read, its state checked
         "guard", "advance", "remove worktree", "delete wip",  \* Freeze
         "force remove", "force delete"}                \* CleanupAbandon

\* f with v at k, whether or not k was in its domain.
With(f, k, v) == [x \in DOMAIN f \cup {k} |-> IF x = k THEN v ELSE f[x]]
Without(f, k) == Restrict(f, DOMAIN f \ {k})

LocalInit ==
    /\ Init
    /\ mr = <<>> /\ wip = <<>> /\ worktree = <<>> /\ verb = <<>> /\ base = <<>>
    /\ checkedOut = {} /\ linked = {} /\ rewritten = {} /\ lost = {}
    /\ objects = Range(OriginMain)
    /\ session = [a \in Agent |-> Idle]

\* A step of the board alone.
Elsewhere == UNCHANGED <<branches, checkedOut, linked, session, verb>>

-----------------------------------------------------------------------------
(* A worker's session: claim, wt-ensure, edit, submit.  Nothing tells it   *)
(* that its lease lapsed and the row was claimed by another, nor that its  *)
(* row has been approved, frozen or given up meanwhile.                    *)

\* The session is at its next step, on the same row.
OnRow(a, at) == [Idle EXCEPT !.at = at, !.row = session[a].row]

ClaimWork(t, a, model) ==
    /\ session[a].at = "idle"
    /\ task[t].kind = "implement"
    /\ ClaimTask(t, a, model)
    /\ session' = [session EXCEPT ![a] = [Idle EXCEPT !.at = "claimed", !.row = t]]
    /\ UNCHANGED <<branches, checkedOut, linked, verb>>

\* The MR branch of a row, or origin/main as long as it has none: as a name, and as the
\* history the name stands for.
TipName(t) == IF SlugOf(t) \in DOMAIN mr THEN "mr" ELSE "origin/main"
Named(t, tip) == IF tip = "mr" THEN mr[SlugOf(t)] ELSE OriginMain
Tip(t) == Named(t, TipName(t))

\* ResolveTip, which wt-ensure calls first and submit before its rework check: the name
\* of the branch, which is all that is kept.
ResolveTip(a) ==
    /\ \E step \in {<<"claimed", "resolved">>, <<"working", "submitting">>} :
        /\ session[a].at = step[1]
        /\ session' = [session EXCEPT ![a] =
                [OnRow(a, step[2]) EXCEPT !.tip = TipName(session[a].row)]]
    /\ UNCHANGED <<task, branches, checkedOut, linked, verb>>

\* wt-ensure: a registered worktree is taken as it is; git makes no branch twice.
AddWorktree(a) ==
    LET t == session[a].row
        tip == Named(t, session[a].tip)
    IN  /\ session[a].at = "resolved"
        /\ session' = [session EXCEPT ![a] = OnRow(a, "working")]
        /\ \/ t \in DOMAIN worktree /\ UNCHANGED branches
           \/ /\ t \notin DOMAIN worktree /\ t \notin DOMAIN wip
              /\ wip' = With(wip, t, tip)
              /\ base' = With(base, t, tip)
              /\ worktree' = With(worktree, t, {})
              /\ UNCHANGED <<mr, objects, rewritten, lost>>
        /\ UNCHANGED <<task, checkedOut, linked, verb>>

Edit(a) ==
    LET t == session[a].row
    IN  /\ session[a].at = "working"
        /\ t \in DOMAIN worktree
        /\ worktree' = [worktree EXCEPT ![t] = @ \cup {"edited"}]
        /\ UNCHANGED <<task, mr, wip, objects, base, rewritten, lost,
                       checkedOut, linked, session, verb>>

\* Slip: a rework is told by whether the branch has any commit that main has not.
AnyCommitIsRework(t, tip) == ~IsPrefix(wip[t], OriginMain)

\* rev-list tip..HEAD lists a commit.
IsRework(t, tip) == ~IsPrefix(wip[t], Named(t, tip))

\* submit: rev-list, which decides between the two kinds of commit.  Where it fails,
\* for want of the worktree, the work is taken for a first submission.
CheckRework(a) ==
    LET t == session[a].row
        rework == t \in DOMAIN worktree /\ IsRework(t, session[a].tip)
    IN  /\ session[a].at = "submitting"
        /\ session' = [session EXCEPT ![a] = [OnRow(a, "checked") EXCEPT !.rework = rework]]
        /\ UNCHANGED <<task, branches, checkedOut, linked, verb>>

\* CommitAll and AmendAll: git add -A.
StageAll(a) ==
    LET t == session[a].row
    IN  /\ session[a].at = "checked"
        /\ t \in DOMAIN worktree
        /\ worktree' = [worktree EXCEPT ![t] = IF @ = {} THEN {} ELSE {"staged"}]
        /\ session' = [session EXCEPT ![a] =
                [OnRow(a, "staged") EXCEPT !.rework = session[a].rework]]
        /\ UNCHANGED <<task, mr, wip, objects, base, rewritten, lost, checkedOut, linked, verb>>

\* Slip: a rework is squashed onto main.
SquashedOnMain(h, sha) == Append(OriginMain, sha)

\* commit --amend: the new commit in place of the head, whichever that is by now.
Amended(h, sha) == Append(Front(h), sha)

\* The next commit made for a row.
NewCommit(t) == [row |-> t, n |-> Cardinality({c \in objects : c.row = t}) + 1]

\* CommitAll: git commit, which needs a change; AmendAll: git commit --amend, which
\* does not.
CommitStaged(a) ==
    LET t == session[a].row
        amend == session[a].rework
        sha == NewCommit(t)
        published == Last(wip[t]) \in Range(Tip(t)) \cup rewritten
    IN  /\ session[a].at = "staged"
        /\ t \in DOMAIN worktree
        /\ amend \/ "staged" \in worktree[t]
        /\ wip' = [wip EXCEPT ![t] = IF amend THEN Amended(@, sha) ELSE Append(@, sha)]
        /\ objects' = objects \cup {sha}
        /\ rewritten' = IF amend /\ published THEN rewritten \cup {sha} ELSE rewritten
        /\ worktree' = [worktree EXCEPT ![t] = @ \ {"staged"}]
        /\ session' = [session EXCEPT ![a] = OnRow(a, "committed")]
        /\ UNCHANGED <<task, mr, base, lost, checkedOut, linked, verb>>

\* Both: rev-parse HEAD, whoever moved it last.
RevParse(a) ==
    LET t == session[a].row
    IN  /\ session[a].at = "committed"
        /\ t \in DOMAIN worktree
        /\ session' = [session EXCEPT ![a] = [OnRow(a, "named") EXCEPT !.sha = Last(wip[t])]]
        /\ UNCHANGED <<task, branches, checkedOut, linked, verb>>

Ended(a) == session' = [session EXCEPT ![a] = Idle]

\* submit: the call to the board, which takes it from the row's assignee only.
\* The commit was made before, and stays when the board refuses.
SubmitCommit(a) ==
    LET t == session[a].row
    IN  /\ session[a].at = "named"
        /\ \/ /\ SubmitWork(t, a, {})
              /\ linked' = linked \cup {[row |-> t, sha |-> session[a].sha]}
           \/ ~InProgressBy(t, a) /\ UNCHANGED <<task, linked>>
        /\ Ended(a)
        /\ UNCHANGED <<branches, checkedOut, verb>>

\* submit --no-op touches no branch.
SubmitNoOp(a) ==
    LET t == session[a].row
    IN  /\ session[a].at = "working"
        /\ \/ SubmitWork(t, a, {"no_op"})
           \/ ~InProgressBy(t, a) /\ UNCHANGED task
        /\ Ended(a)
        /\ UNCHANGED <<branches, checkedOut, linked, verb>>

\* The session crashes, or a command of its fails and it gives up.
SessionEnds(a) ==
    /\ session[a].at # "idle"
    /\ Ended(a)
    /\ UNCHANGED <<task, branches, checkedOut, linked, verb>>

-----------------------------------------------------------------------------
(* The verbs of the person: approve, reject, reject --abandon.             *)

Goes(t, step) == verb' = With(verb, t, step)
Exits(t) == verb' = Without(verb, t)
At(t, step) == t \in DOMAIN verb /\ verb[t] = step

\* GetTask and the check of the state it was in.
ReadTask(t, step) ==
    /\ t \notin DOMAIN verb
    /\ \/ step = "approve" /\ task[t].state = "approved"
       \/ step \in {"reject", "abandon"} /\ task[t].state \in {"review", "approved"}
    /\ Goes(t, step)
    /\ UNCHANGED <<task, branches, checkedOut, linked, session>>

\* approve --freeze-only looks at no state.
FreezeOnly(t) ==
    /\ t \notin DOMAIN verb
    /\ Goes(t, "guard")
    /\ UNCHANGED <<task, branches, checkedOut, linked, session>>

\* Slip: a plain reject cleans up as well.
CleansUpAlways(t, to) ==
    IF to = "done" THEN Goes(t, "guard") ELSE Goes(t, "force remove")

\* What an accepted transition goes on to: the freeze, the cleanup, or, for a plain
\* reject, nothing: the worker amends in the same worktree.
Follows(t, to) ==
    \/ to = "done" /\ Goes(t, "guard")
    \/ to = "ready" /\ Exits(t)
    \/ to = "failed" /\ Goes(t, "force remove")

\* A refused transition ends the verb.
Transition(t) ==
    LET to == IF At(t, "approve") THEN "done"
              ELSE IF At(t, "reject") THEN "ready" ELSE "failed"
    IN  /\ t \in DOMAIN verb /\ verb[t] \in {"approve", "reject", "abandon"}
        /\ \/ /\ TransitionTask(t, to)
              /\ Follows(t, to)
           \/ ~CanTransition(task[t], to) /\ UNCHANGED task /\ Exits(t)
        /\ UNCHANGED <<branches, checkedOut, linked, session>>

\* Freeze, step 1: nothing is done to an MR branch somebody has checked out.
FreezeGuard(t) ==
    /\ At(t, "guard")
    /\ IF SlugOf(t) \in checkedOut THEN Exits(t) ELSE Goes(t, "advance")
    /\ UNCHANGED <<task, branches, checkedOut, linked, session>>

\* Freeze, step 2: branch -f, which moves the branch wherever it was before.
FreezeAdvance(t) ==
    LET s == SlugOf(t)
    IN  /\ At(t, "advance")
        /\ \/ /\ t \in DOMAIN wip /\ s \notin checkedOut
              /\ mr' = With(mr, s, wip[t])
              /\ lost' = IF IsPrefix(Tip(t), wip[t]) THEN lost ELSE lost \cup {Tip(t)}
              /\ base' = [base EXCEPT ![t] = wip[t]]
              /\ Goes(t, "remove worktree")
              /\ UNCHANGED <<wip, worktree, objects, rewritten>>
           \/ /\ t \notin DOMAIN wip \/ s \in checkedOut
              /\ Exits(t)
              /\ UNCHANGED branches
        /\ UNCHANGED <<task, checkedOut, linked, session>>

\* Freeze, step 3: git keeps a worktree with changes in it, and that is ignored.
FreezeRemove(t) ==
    /\ At(t, "remove worktree")
    /\ worktree' = IF t \in DOMAIN worktree /\ worktree[t] = {}
                   THEN Without(worktree, t) ELSE worktree
    /\ Goes(t, "delete wip")
    /\ UNCHANGED <<task, mr, wip, objects, base, rewritten, lost, checkedOut, linked, session>>

\* Slip: the branch goes whether or not its worktree could be removed.
DeletedInUse(t) ==
    /\ wip' = Without(wip, t) /\ base' = Without(base, t)
    /\ UNCHANGED <<task, mr, worktree, objects, rewritten, lost, checkedOut, linked, session>>

\* branch -D: git refuses while a worktree has the branch checked out.
WipDeleted(t) ==
    /\ IF t \in DOMAIN worktree THEN UNCHANGED <<wip, base>>
       ELSE wip' = Without(wip, t) /\ base' = Without(base, t)
    /\ UNCHANGED <<task, mr, worktree, objects, rewritten, lost, checkedOut, linked, session>>

\* Freeze, step 4.
FreezeDelete(t) == At(t, "delete wip") /\ Exits(t) /\ WipDeleted(t)

\* CleanupAbandon: the worktree goes, changes or not, then the branch.
CleanupRemove(t) ==
    /\ At(t, "force remove")
    /\ worktree' = Without(worktree, t)
    /\ Goes(t, "force delete")
    /\ UNCHANGED <<task, mr, wip, objects, base, rewritten, lost, checkedOut, linked, session>>

CleanupDelete(t) == At(t, "force delete") /\ Exits(t) /\ WipDeleted(t)

\* The verb is interrupted; there is no record of how far it got.
VerbEnds(t) ==
    /\ t \in DOMAIN verb
    /\ Exits(t)
    /\ UNCHANGED <<task, branches, checkedOut, linked, session>>

\* The person checks an MR branch out to look at it, or leaves it.
Checkout(s) ==
    /\ checkedOut' = IF s \in checkedOut THEN checkedOut \ {s} ELSE checkedOut \cup {s}
    /\ UNCHANGED <<task, branches, linked, session, verb>>

-----------------------------------------------------------------------------

\* What others do to the board; nobody else hands in or claims implement rows.
BoardStep ==
    /\ Elsewhere
    /\ \/ \E batch \in Batches : CreateTasks(batch)
       \/ \E t \in Id :
            \/ PromoteTask(t) \/ LeaseLapses(t) \/ HoldTask(t) \/ ReleaseTask(t)
            \/ \E to \in State : TransitionTask(t, to)
            \/ \E model \in Models : SupersedeTask(t, model)
            \/ \E a \in Agent :
                \/ HeartbeatTask(t, a)
                \/ \E verdict \in Verdict : SubmitReview(t, a, verdict) \/ SubmitMerge(t, a, verdict)
                \/ \E model \in ModelName : task[t].kind # "implement" /\ ClaimTask(t, a, model)

SessionStep(a) ==
    \/ \E t \in Id, model \in ModelName : ClaimWork(t, a, model)
    \/ ResolveTip(a) \/ AddWorktree(a) \/ Edit(a) \/ CheckRework(a) \/ StageAll(a)
    \/ CommitStaged(a) \/ RevParse(a) \/ SubmitCommit(a) \/ SubmitNoOp(a) \/ SessionEnds(a)

VerbStep(t) ==
    \/ \E step \in Step : ReadTask(t, step)
    \/ FreezeOnly(t) \/ Transition(t)
    \/ FreezeGuard(t) \/ FreezeAdvance(t) \/ FreezeRemove(t) \/ FreezeDelete(t)
    \/ CleanupRemove(t) \/ CleanupDelete(t) \/ VerbEnds(t)

LocalNext ==
    \/ BoardStep
    \/ \E a \in Agent : SessionStep(a)
    \/ \E t \in Id : VerbStep(t)
    \/ \E s \in DOMAIN mr : Checkout(s)

LocalSpec == LocalInit /\ [][LocalNext]_localvars
-----------------------------------------------------------------------------
(* Safety.                                                                 *)

\* Every branch, worktree, link and running verb belongs to a row of the table, git
\* checks out no branch that is not there, and links name commits that were made.
LocalTypeOK ==
    /\ mr \in [DOMAIN mr -> History]
    /\ wip \in [DOMAIN wip -> History] /\ DOMAIN wip \subseteq Id
    /\ base \in [DOMAIN wip -> History]
    /\ worktree \in [DOMAIN worktree -> Changes]
    /\ DOMAIN worktree \subseteq DOMAIN wip
    /\ verb \in [DOMAIN verb -> Step] /\ DOMAIN verb \subseteq Id
    /\ session \in [Agent -> Session]
    /\ \A a \in Agent : session[a].row \in Id \cup {NoTask}
    /\ checkedOut \subseteq DOMAIN mr
    /\ objects \subseteq Commit /\ rewritten \subseteq objects /\ lost \subseteq History
    /\ linked \subseteq [row : Id, sha : objects]

Holds(h, t, n) == \E i \in 1..Len(h) : h[i].row = t /\ h[i].n >= n

\* Accepted work is not lost: whatever sessions crash, overlap or submit late, and
\* wherever approve is interrupted and taken up again, the commit of a row that was
\* not given up is on its wip branch or on the MR branch, or has been amended there.
AcceptedWorkIsKept ==
    \A l \in linked :
        \/ task[l.row].state = "failed"
        \/ l.row \in DOMAIN wip /\ Holds(wip[l.row], l.sha.row, l.sha.n)
        \/ Holds(Tip(l.row), l.sha.row, l.sha.n)
        \/ lost # {}

\* Freezing moves an MR branch ahead ("ff by construction") until a freeze finds that
\* another row's freeze has moved the branch since the two last met, or that the branch
\* it freezes has replaced a published commit: no crash, rework, overlapping session, late
\* commit or repeated freeze makes an MR branch lose a commit in another way first.
FirstLossIsStale ==
    [][lost = {} /\ lost' # {} =>
        \E t \in Id :
            /\ At(t, "advance") /\ t \in DOMAIN wip
            /\ base[t] # Tip(t) \/ Range(wip[t]) \cap rewritten # {}]_localvars

\* submit checks for a rework in one command and amends in another, and takes whatever is
\* the head by then.  Still it is only for rows that have ended that a commit already on
\* an MR branch, or on main, is replaced: as long as a row can be worked on, no session
\* of it, however late, amends what is not the row's own and unpublished.
RewritesAreLate ==
    lost = {} => \A c \in rewritten : task[c.row].state \in {"done", "failed"}

\* Rework is never locked out: a row that can still be claimed has its worktree, or
\* has no wip branch left that would keep wt-ensure from making one.
ReworkCanResume ==
    \A t \in DOMAIN wip :
        Claimable(t) => t \in DOMAIN worktree
=============================================================================

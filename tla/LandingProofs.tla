---------------------------- MODULE LandingProofs ----------------------------
(***************************************************************************)
(* Theorems about the way from approval to the main branch, for every      *)
(* fleet of workers and mergers, planner and ladder, and whatever people   *)
(* do on GitHub: the first ones whatever they do on the board too, the     *)
(* others as long as no person cuts a review round short (OrderlyNext).    *)
(***************************************************************************)
EXTENDS Landing, TaskBoardOrder

-----------------------------------------------------------------------------
(* Links: what the board does to them.                                     *)

\* Rows but those of X keep their links, and the merge rows that are added are for rows
\* with a pull request.
LinksKept(U, T, X) ==
    /\ \A i \in Rows(T) \ X : U[i].links = T[i].links
    /\ \A i \in Rows(U) : i \notin Rows(T) =>
        /\ U[i].links = {}
        /\ U[i].kind = "merge" /\ U[i].target # NoTask =>
            U[i].target \in Rows(T) /\ "pr" \in T[U[i].target].links

\* One row is replaced.
LEMMA OneRowKeepsLinks ==
    ASSUME NEW T, WellFormed(T), NEW t \in Rows(T), NEW row, row.links = T[t].links
    PROVE  /\ LinksKept([T EXCEPT ![t] = row], T, {})
           /\ Len([T EXCEPT ![t] = row]) = Len(T)
<1> DEFINE U == [T EXCEPT ![t] = row]
<1>1. T \in Seq(Row \cup {row}) /\ t \in 1..Len(T)
  BY SeqDef DEF WellFormed, Rows
<1>2. Len(U) = Len(T)
  BY <1>1, ExceptSeq
<1>3. \A i \in Rows(T) : U[i] = IF i = t THEN row ELSE T[i]
  BY <1>1, LenProperties DEF Rows
<1> HIDE DEF U
<1>4. LinksKept(U, T, {}) /\ Len(U) = Len(T)
  BY <1>2, <1>3 DEF LinksKept, Rows
<1> QED
  BY <1>4 DEF U

\* ConcatProperties, without the sort.
LEMMA Joined ==
    ASSUME NEW Any, NEW V \in Seq(Any), NEW S \in Seq(Any)
    PROVE  /\ Len(V \o S) = Len(V) + Len(S)
           /\ \A i \in 1..Len(V) + Len(S) :
                (V \o S)[i] = IF i <= Len(V) THEN V[i] ELSE S[i - Len(V)]
  BY ConcatProperties

\* Rows are added, without links and none of them a merge row.
LEMMA MoreRowsKeepLinks ==
    ASSUME NEW T, NEW X, NEW Any, NEW V \in Seq(Any), NEW S \in Seq(Any),
           Len(T) \in Nat, Rows(V) = Rows(T),
           \A i \in Rows(T) \ X : V[i].links = T[i].links,
           \A i \in Rows(S) : S[i].links = {} /\ S[i].kind # "merge"
    PROVE  LinksKept(V \o S, T, X)
<1> DEFINE U == V \o S
<1>1. /\ Len(U) = Len(V) + Len(S)
      /\ \A i \in 1..Len(V) + Len(S) :
            U[i] = IF i <= Len(V) THEN V[i] ELSE S[i - Len(V)]
  BY Joined
<1> HIDE DEF U
<1>2. Len(T) \in Nat /\ Len(S) \in Nat /\ Len(V) = Len(T)
  <2>1. Len(V) \in Nat /\ Len(S) \in Nat
    BY LenProperties
  <2> QED
    BY <2>1 DEF Rows
<1>3. \A i \in Rows(T) : U[i] = V[i]
  BY <1>1, <1>2 DEF Rows
<1>4. \A i \in Rows(U) : i \notin Rows(T) => i - Len(T) \in Rows(S) /\ U[i] = S[i - Len(T)]
  BY <1>1, <1>2 DEF Rows
<1>5. LinksKept(U, T, X)
  BY <1>3, <1>4 DEF LinksKept
<1> QED
  BY <1>5 DEF U

\* Supersession copies no links.
LEMMA SupersessionKeepsLinks ==
    ASSUME NEW T, WellFormed(T), NEW t \in Rows(T),
           NEW model \in ModelName, NEW state \in State
    PROVE  LinksKept(Supersession(T, t, model, state), T, {})
<1> DEFINE heir == Len(T) + 1
           f == [i \in 1..Len(T) |-> Repointed(T[i], t, heir)]
           old == Retired(f[t], heir)
           g == [f EXCEPT ![t] = old]
           fresh == Replacement(f[t], state, model)
           U == Supersession(T, t, model, state)
<1>1. U = Append(g, fresh)
  BY DEF Supersession, HeirId
<1>2. /\ Len(T) \in Nat /\ t \in Rows(T)
      /\ \A i \in Rows(T) : T[i] \in Row
  BY LenProperties, ElementOfSeq DEF WellFormed, Rows
<1>3. ASSUME NEW i \in Rows(T) PROVE f[i].links = T[i].links /\ f[i] \in Row
  <2>1. f[i] = Repointed(T[i], t, heir) /\ T[i] \in Row
    BY <1>2 DEF Rows
  <2>2. Repointed(T[i], t, heir).links = T[i].links
    BY <2>1 DEF Repointed, Row
  <2>3. Repointed(T[i], t, heir) \in Row
    BY <1>2, RepointedRow DEF WellFormed, Rows
  <2> HIDE DEF f
  <2> QED
    BY <2>1, <2>2, <2>3
<1>4. f \in Seq(Row) /\ Len(f) = Len(T)
  <2>1. f \in [1..Len(T) -> Row]
    BY <1>3 DEF Rows
  <2> QED
    BY <2>1, <1>2, Tabulated
<1> HIDE DEF f
<1>5. old.links = T[t].links
  BY <1>2, <1>3 DEF Retired, Row
<1>6. fresh.links = {} /\ fresh.target = NoTask
  BY DEF Replacement, NewRow
<1> HIDE DEF old, fresh
<1>7. f \in Seq(Row \cup {old, fresh}) /\ t \in 1..Len(f)
  BY <1>2, <1>4, SeqDef DEF Rows
<1>8. /\ g \in Seq(Row \cup {old, fresh}) /\ Len(g) = Len(T)
      /\ \A i \in Rows(T) : g[i] = IF i = t THEN old ELSE f[i]
  BY <1>4, <1>7, ExceptSeq DEF Rows
<1> HIDE DEF g, U
<1>9. /\ Len(U) = heir /\ U[heir] = fresh
      /\ \A i \in Rows(T) : U[i] = g[i]
  BY <1>1, <1>8, AppendProperties DEF Rows
<1>10. \A i \in Rows(U) : i \notin Rows(T) => i = heir
  BY <1>2, <1>9 DEF Rows
<1> HIDE DEF heir
<1> QED
  BY <1>3, <1>5, <1>6, <1>8, <1>9, <1>10 DEF LinksKept, U

\* The verdict that decides a round: a merge row is added for a row with a pull request.
LEMMA AggregationKeepsLinks ==
    ASSUME NEW T, WellFormed(T), NEW p \in Rows(T)
    PROVE  LinksKept(Aggregated(T, p), T, {})
<1>1. Len(T) \in Nat /\ T[p] \in Row
  BY LenProperties, ElementOfSeq DEF WellFormed, Rows
<1>2. LinksKept(T, T, {})
  BY DEF LinksKept
<1>3. ASSUME NEW state
      PROVE  /\ LinksKept([T EXCEPT ![p].state = state], T, {})
             /\ Len([T EXCEPT ![p].state = state]) = Len(T)
  <2>1. [T[p] EXCEPT !.state = state].links = T[p].links
    BY <1>1 DEF Row
  <2>2. [T EXCEPT ![p].state = state] = [T EXCEPT ![p] = [T[p] EXCEPT !.state = state]]
    OBVIOUS
  <2> QED
    BY <2>1, <2>2, OneRowKeepsLinks
<1>4. LinksKept(Accept(T, p), T, {})
  <2> DEFINE state == IF T[p].agentMerge /\ IsNoOp(T[p]) THEN "done" ELSE "approved"
             V == [T EXCEPT ![p].state = state]
             row == MergeRow(T[p].model, p)
  <2>1. \/ Accept(T, p) = V
        \/ Accept(T, p) = Append(V, row) /\ "pr" \in T[p].links
    BY DEF Accept
  <2> HIDE DEF state
  <2>2. LinksKept(V, T, {}) /\ Len(V) = Len(T)
    BY <1>3
  <2>3. row.links = {} /\ row.target = p
    BY DEF MergeRow, NewRow
  <2>4. V \in Seq(Row)
    <3>1. [T[p] EXCEPT !.state = state] \in Row
      <4>1. state \in State
        BY DEF State, state
      <4> QED
        BY <1>1, <4>1 DEF Row
    <3>2. V = [T EXCEPT ![p] = [T[p] EXCEPT !.state = state]]
      OBVIOUS
    <3> QED
      BY <3>1, <3>2, ExceptSeq DEF WellFormed, Rows
  <2> HIDE DEF V, row
  <2>5. /\ Len(Append(V, row)) = Len(T) + 1
        /\ \A i \in Rows(T) : Append(V, row)[i] = V[i]
        /\ Append(V, row)[Len(T) + 1] = row
    BY <2>2, <2>4, <1>1 DEF Rows
  <2>6. "pr" \in T[p].links => LinksKept(Append(V, row), T, {})
    <3> DEFINE W == Append(V, row)
    <3> HIDE DEF W
    <3>1. /\ Len(W) = Len(T) + 1 /\ W[Len(T) + 1] = row
          /\ \A i \in Rows(T) : W[i] = V[i]
      BY <2>5 DEF W
    <3>2. \A i \in Rows(W) : i \notin Rows(T) => W[i] = row
      BY <1>1, <3>1 DEF Rows
    <3>3. "pr" \in T[p].links => LinksKept(W, T, {})
      BY <2>2, <2>3, <3>1, <3>2 DEF LinksKept
    <3> QED
      BY <3>3 DEF W
  <2> QED
    BY <2>1, <2>2, <2>6
<1>5. LinksKept(Reject(T, p), T, {})
  <2>1. "ready" \in State
    BY DEF State
  <2>2. HasNextTier(T[p].model) =>
            LinksKept(Supersession(T, p, NextTier(T[p].model), "ready"), T, {})
    BY <2>1, NextTierIsAModel, SupersessionKeepsLinks
  <2> QED
    BY <1>3, <2>2 DEF Reject, Escalates
<1> QED
  BY <1>2, <1>4, <1>5 DEF Aggregated

\* What everybody but the workers does to the board.
LEMMA BoardKeepsLinks ==
    ASSUME Inv, NEW t \in Id,
           \/ PromoteTask(t) \/ LeaseLapses(t) \/ HoldTask(t) \/ ReleaseTask(t)
           \/ \E to \in State : TransitionTask(t, to)
           \/ \E model \in Models : SupersedeTask(t, model)
           \/ \E a \in Agent :
                \/ HeartbeatTask(t, a)
                \/ \E model : ClaimTask(t, a, model)
                \/ \E verdict \in Verdict : SubmitReview(t, a, verdict)
    PROVE  LinksKept(task', task, {})
<1>1. task[t] \in Row /\ WellFormed(task) /\ t \in Rows(task)
  BY ThisRow DEF Inv
<1>2. ASSUME NEW row, task' = [task EXCEPT ![t] = row], row.links = task[t].links
      PROVE  LinksKept(task', task, {})
  BY <1>1, <1>2, OneRowKeepsLinks
<1>3. ASSUME NEW x PROVE
        /\ [task[t] EXCEPT !.state = x].links = task[t].links
        /\ [task[t] EXCEPT !.lease = x].links = task[t].links
        /\ [task[t] EXCEPT !.held = x].links = task[t].links
  BY <1>1 DEF Row
<1>4. CASE PromoteTask(t)
  <2>1. task' = [task EXCEPT ![t] = [task[t] EXCEPT !.state = "ready"]]
    BY <1>4 DEF PromoteTask
  <2> QED
    BY <2>1, <1>2, <1>3
<1>5. ASSUME NEW lease, task' = [task EXCEPT ![t].lease = lease]
      PROVE  LinksKept(task', task, {})
  <2>1. task' = [task EXCEPT ![t] = [task[t] EXCEPT !.lease = lease]]
    BY <1>5
  <2> QED
    BY <2>1, <1>2, <1>3
<1>6. ASSUME NEW held, task' = [task EXCEPT ![t].held = held]
      PROVE  LinksKept(task', task, {})
  <2>1. task' = [task EXCEPT ![t] = [task[t] EXCEPT !.held = held]]
    BY <1>6
  <2> QED
    BY <2>1, <1>2, <1>3
<1>7. ASSUME NEW a, NEW model, ClaimTask(t, a, model) PROVE LinksKept(task', task, {})
  <2> DEFINE row == [task[t] EXCEPT
                        !.state = "in_progress", !.assignee = a, !.lease = "live"]
  <2>1. task' = [task EXCEPT ![t] = row]
    BY <1>7 DEF ClaimTask
  <2>2. row.links = task[t].links
    BY <1>1 DEF Row
  <2> HIDE DEF row
  <2> QED
    BY <2>1, <2>2, <1>2
<1>8. ASSUME NEW to, TransitionTask(t, to) PROVE LinksKept(task', task, {})
  <2>1. task' = [task EXCEPT ![t] = Moved(task[t], to)]
    BY <1>8 DEF TransitionTask
  <2>2. Moved(task[t], to).links = task[t].links
    BY <1>1 DEF Moved, Row
  <2> QED
    BY <2>1, <2>2, <1>2
<1>9. ASSUME NEW model \in Models, SupersedeTask(t, model) PROVE LinksKept(task', task, {})
  <2>1. model \in ModelName /\ "backlog" \in State
    BY DEF ModelName, State
  <2> QED
    BY <2>1, <1>1, <1>9, SupersessionKeepsLinks DEF SupersedeTask
<1>10. ASSUME NEW a, NEW verdict, SubmitReview(t, a, verdict) PROVE LinksKept(task', task, {})
  <2> DEFINE row == Submitted(task[t], "done", verdict, {})
             U == [task EXCEPT ![t] = row]
             p == task[t].target
  <2>1. /\ InProgressBy(t, a) /\ task[t].kind = "review" /\ verdict \in {"approve", "reject"}
        /\ task' = IF p = NoTask THEN U ELSE Aggregated(U, p)
    BY <1>10 DEF SubmitReview
  <2>2. WellFormed(U)
    BY <2>1, RecordingKeepsGate
  <2>3. row.links = task[t].links
    BY <1>1 DEF Submitted, Row
  <2>4. LinksKept(U, task, {}) /\ Len(U) = Len(task)
    BY <2>3, <1>1, OneRowKeepsLinks
  <2>5. p # NoTask => p \in Rows(U)
    BY <2>4, ThisRow DEF Refers, Rows, NoTask
  <2> HIDE DEF U, row
  <2>6. CASE p = NoTask
    BY <2>1, <2>4, <2>6
  <2>7. CASE p # NoTask
    <3> DEFINE W == Aggregated(U, p)
    <3>1. LinksKept(W, U, {})
      BY <2>2, <2>5, <2>7, AggregationKeepsLinks
    <3> HIDE DEF W, p
    <3>2. LinksKept(W, task, {})
      BY <2>4, <3>1 DEF LinksKept, Rows
    <3> QED
      BY <3>2, <2>1, <2>7 DEF W
  <2> QED
    BY <2>6, <2>7
<1> QED
  BY <1>4, <1>5, <1>6, <1>7, <1>8, <1>9, <1>10
     DEF LeaseLapses, HoldTask, ReleaseTask, HeartbeatTask

\* Planned rows are implement rows without links.
LEMMA CreationKeepsLinks ==
    ASSUME Inv, NEW batch \in Batches, CreateTasks(batch)
    PROVE  LinksKept(task', task, {})
<1> DEFINE S == [i \in 1..Len(batch) |-> PlannedRow(batch, batch[i])]
           Any == Row \cup {PlannedRow(batch, batch[i]) : i \in 1..Len(batch)}
<1>1. task' = task \o S /\ Len(batch) \in Nat
  BY BatchAssumption, LenProperties DEF CreateTasks
<1>2. \A i \in 1..Len(batch) : S[i].links = {} /\ S[i].kind = "implement"
  BY DEF PlannedRow, NewRow
<1>3. S \in Seq(Any) /\ Rows(S) = 1..Len(batch)
  <2>1. S \in [1..Len(batch) -> Any]
    OBVIOUS
  <2> HIDE DEF S, Any
  <2> QED
    BY <2>1, <1>1, Tabulated
<1>4. task \in Seq(Any) /\ Len(task) \in Nat
  BY SeqDef, LenProperties DEF Inv, WellFormed
<1> HIDE DEF S, Any
<1>5. LinksKept(task \o S, task, {})
  BY <1>2, <1>3, <1>4, MoreRowsKeepLinks
<1> QED
  BY <1>1, <1>5

\* A submission gives its row links, and adds review rows without.
LEMMA SubmissionKeepsLinks ==
    ASSUME Inv, NEW t \in Id, NEW a, NEW links \in Submissions, SubmitWork(t, a, links)
    PROVE  LinksKept(task', task, {t})
<1> DEFINE row == Reworked(task[t], links, task[t].round + 1)
           V == [task EXCEPT ![t] = row]
           reviewers == ReviewersOf(task[t])
           S == [i \in 1..Len(reviewers) |-> ReviewRow(reviewers[i], task[t].round + 1, t)]
           Any == Row \cup {row}
                      \cup {ReviewRow(reviewers[i], task[t].round + 1, t) : i \in 1..Len(reviewers)}
<1>1. task' = V \o S
  BY DEF SubmitWork
<1>2. task[t] \in Row /\ Len(task) \in Nat /\ task \in Seq(Row)
  BY ThisRow DEF Inv, WellFormed
<1>3. Len(reviewers) \in Nat
  BY <1>2, SomeReviewer
<1>4. \A i \in 1..Len(reviewers) : S[i].links = {} /\ S[i].kind = "review"
  BY DEF ReviewRow, NewRow
<1>5. S \in Seq(Any) /\ Rows(S) = 1..Len(reviewers)
  <2>1. S \in [1..Len(reviewers) -> Any]
    OBVIOUS
  <2> HIDE DEF S, Any, reviewers
  <2> QED
    BY <2>1, <1>3, Tabulated
<1> HIDE DEF S
<1>6. task \in Seq(Any) /\ row \in Any /\ t \in 1..Len(task)
  BY <1>2, SeqDef DEF Id
<1> HIDE DEF Any, row, reviewers
<1>7. V \in Seq(Any) /\ Rows(V) = Rows(task)
  BY <1>6, ExceptSeq DEF Rows
<1>8. \A i \in Rows(task) \ {t} : V[i].links = task[i].links
  BY <1>2, LenProperties DEF Rows
<1> HIDE DEF V
<1>9. LinksKept(V \o S, task, {t})
  BY <1>2, <1>4, <1>5, <1>7, <1>8, MoreRowsKeepLinks
<1> QED
  BY <1>1, <1>9

-----------------------------------------------------------------------------
(* The invariant.                                                          *)

\* A head has landed when the pull request was merged.
Sound(p) == p \in PullRequest /\ (p.landed # {} <=> p.state = "merged")

SoundPRs(f) == f \in [DOMAIN f -> PullRequest] /\ \A t \in DOMAIN f : Sound(f[t])

ForgeOK == DOMAIN pr \subseteq Id /\ SoundPRs(pr)

\* Whoever handed in a pull request has one, and so has the parent of a merge row.
LinksOK ==
    \A t \in Id :
        /\ "pr" \in task[t].links => t \in DOMAIN pr
        /\ task[t].kind = "merge" /\ task[t].target # NoTask => task[t].target \in DOMAIN pr

RunOK(T, r) ==
    /\ r \in Run
    /\ r.at # "none" => r.row \in Rows(T) /\ T[r.row].kind = "merge"
    /\ r.at \notin {"none", "read"} => T[r.row].target # NoTask

MergersOK == merger \in [Agent -> Run] /\ \A a \in Agent : RunOK(task, merger[a])

WatchOK ==
    /\ listed \subseteq [row : DOMAIN pr, round : Nat]
    /\ looking \in Look /\ looking.row \in DOMAIN pr \cup {NoTask}
    /\ looking.at # "none" => looking.row \in DOMAIN pr
    /\ closing \subseteq Id

\* A session works on an implement row.
SessionsOK ==
    /\ working \in [Agent -> Id \cup {NoTask}]
    /\ \A a \in Agent : working[a] # NoTask => task[working[a]].kind = "implement"

LandInv == Inv /\ ForgeOK /\ SessionsOK /\ LinksOK /\ MergersOK /\ WatchOK

\* Nothing that was there to be referred to goes, and no row changes its purpose.
Grows ==
    /\ Len(task) \in Nat /\ Len(task') \in Nat /\ Len(task) <= Len(task')
    /\ \A i \in Id : task'[i].kind = task[i].kind /\ task'[i].target = task[i].target
    /\ DOMAIN pr \subseteq DOMAIN pr'

-----------------------------------------------------------------------------
(* The board, seen from the whole.                                         *)

\* What a running merger acts on.
LEMMA RunningMerger ==
    ASSUME LandInv, NEW a \in Agent, merger[a].at # "none"
    PROVE  /\ merger[a].row \in Id
           /\ merger[a].at # "read" => Parent(a) \in DOMAIN pr /\ Parent(a) \in Id
  BY DEF LandInv, MergersOK, RunOK, LinksOK, ForgeOK, Parent, Id, Rows

\* Each step is a step of the board or leaves the board alone.
LEMMA BoardSteps ==
    ASSUME LandInv, [LandingNext]_landingvars
    PROVE  [Next]_vars
<1> USE DEF AgentStep
<1>0. ASSUME NEW t \in Id, NEW to \in State, TransitionTask(t, to) PROVE Next
  BY <1>0 DEF Next
<1>1. CASE UNCHANGED landingvars
  BY <1>1 DEF landingvars, vars
<1>2. CASE BoardStep
  BY <1>2 DEF BoardStep, Next
<1>3. CASE WorkerStep
  <2>1. ASSUME NEW t \in Id, NEW a \in Agent, HandIn(t, a) PROVE Next
    BY <2>1, PRSubmissions DEF HandIn, Next
  <2>2. ASSUME NEW t \in Id, NEW a \in Agent, NEW model \in ModelName, StartWork(t, a, model)
        PROVE  Next
    BY <2>2 DEF StartWork, Next
  <2> QED
    BY <1>3, <2>1, <2>2
       DEF WorkerStep, Push, Acknowledge, Submit, SubmitUnchecked, SessionEnds, vars
<1>4. CASE PersonStep
  BY <1>4 DEF PersonStep, Review, Comment, MergeByHand, CloseByHand, Reopen, Conflict, vars
<1>5. CASE WatchStep
  <2>1. looking.at # "none" => looking.row \in Id
    BY DEF LandInv, WatchOK, ForgeOK
  <2>2. "done" \in State /\ "abandoned" \in State /\ "ready" \in State
    BY DEF State
  <2>3. CASE ApplyMerged \/ ApplyAbandoned \/ ApplyBounce
    BY <1>0, <2>1, <2>2, <2>3 DEF ApplyMerged, ApplyAbandoned, ApplyBounce, Records, vars
  <2>4. ASSUME NEW t \in Id, NEW model \in Models, Supersede(t, model) PROVE Next
    BY <2>4 DEF Supersede, Next
  <2>5. CASE \/ ListApproved \/ GetPRState \/ GetReviewDecision \/ BounceComment
             \/ \E entry \in listed : LookAt(entry)
             \/ SkipRow \/ ServerRestarts
             \/ \E t \in Id : RetrofitLook(t) \/ CloseSupersededPR(t) \/ CloseFails(t)
    BY <2>5 DEF ListApproved, GetPRState, GetReviewDecision, BounceComment, LookAt,
                SkipRow, ServerRestarts, RetrofitLook, CloseSupersededPR, CloseFails, vars
  <2> QED
    BY <1>5, <2>3, <2>4, <2>5 DEF WatchStep, PassGoesOn
<1>6. ASSUME NEW a \in Agent, MergerStep(a) PROVE [Next]_vars
  <2>1. "done" \in State /\ "failed" \in State /\ "ready" \in State
    BY DEF State
  <2>2. ASSUME NEW t \in Id, ClaimMerge(t, a) PROVE Next
    <3>1. task[t].model \in ModelName
      BY ThisRow DEF LandInv, Row
    <3>2. ClaimTask(t, a, task[t].model)
      BY <2>2 DEF ClaimMerge
    <3> QED
      BY <3>1, <3>2 DEF Next
  <2>3. CASE BounceParent(a) \/ FinishParent(a)
    <3>1. Parent(a) \in Id
      BY <2>3, RunningMerger DEF BounceParent, FinishParent
    <3> QED
      BY <1>0, <2>1, <2>3, <3>1 DEF BounceParent, FinishParent, Moves, vars
  <2>4. CASE Retire(a) \/ FinishRow(a)
    <3>1. merger[a].row \in Id
      BY <2>4, RunningMerger DEF Retire, FinishRow
    <3> QED
      BY <1>0, <2>1, <2>4, <3>1 DEF Retire, FinishRow, Closes, vars
  <2>5. CASE \/ ReadRows(a) \/ SquashMerge(a) \/ PRMergeability(a) \/ ConflictComment(a)
             \/ SquashMergeUnheard(a) \/ RunEnds(a)
    BY <2>5 DEF ReadRows, SquashMerge, PRMergeability, ConflictComment,
                SquashMergeUnheard, RunEnds, vars
  <2> QED
    BY <1>6, <2>2, <2>3, <2>4, <2>5 DEF MergerStep, RunGoesOn
<1> QED
  BY <1>1, <1>2, <1>3, <1>4, <1>5, <1>6 DEF LandingNext

-----------------------------------------------------------------------------
(* Pull requests.                                                          *)

\* One pull request changes.
LEMMA OnePR ==
    ASSUME ForgeOK, NEW t \in DOMAIN pr, NEW p, Sound(p), pr' = [pr EXCEPT ![t] = p]
    PROVE  DOMAIN pr' = DOMAIN pr /\ SoundPRs(pr')
<1>1. p \in PullRequest
  BY DEF Sound
<1> QED
  BY <1>1 DEF ForgeOK, SoundPRs

\* The marks on pull requests leave what they are sound.
LEMMA MarkedPR ==
    ASSUME NEW p, Sound(p), NEW newer \in SUBSET {"row", "listed"}
    PROVE  Sound([p EXCEPT !.newer = newer])
  BY DEF Sound, PullRequest

\* A write to the board marks them.
LEMMA MarkedPRs ==
    ASSUME ForgeOK
    PROVE  /\ DOMAIN Restamped(pr) = DOMAIN pr
           /\ \A i \in DOMAIN pr : Sound(Restamped(pr)[i])
<1>1. \A i \in DOMAIN pr : Sound([pr[i] EXCEPT !.newer = @ \ {"row"}])
  <2> SUFFICES ASSUME NEW i \in DOMAIN pr PROVE Sound([pr[i] EXCEPT !.newer = pr[i].newer \ {"row"}])
    OBVIOUS
  <2>1. Sound(pr[i]) /\ pr[i].newer \ {"row"} \in SUBSET {"row", "listed"}
    BY DEF ForgeOK, SoundPRs, PullRequest
  <2> QED
    BY <2>1, MarkedPR
<1> QED
  BY <1>1 DEF Restamped, ForgeOK, SoundPRs

\* That is all it does.
LEMMA WritesKeepPRs ==
    ASSUME ForgeOK, BoardWrite
    PROVE  DOMAIN pr' = DOMAIN pr /\ SoundPRs(pr')
<1>1. \A i \in DOMAIN pr : Sound(Restamped(pr)[i])
  BY MarkedPRs
<1>2. pr' = [i \in DOMAIN pr |-> Restamped(pr)[i]]
  BY DEF BoardWrite, Restamped
<1> QED
  BY <1>1, <1>2 DEF SoundPRs, Sound

\* What is done to one pull request on GitHub.
LEMMA ChangedPR ==
    ASSUME NEW p, Sound(p)
    PROVE  /\ \A marked \in BOOLEAN : Sound(Commented(p, marked))
           /\ \A clean \in BOOLEAN : Sound([p EXCEPT !.clean = clean])
           /\ \A items \in SUBSET {"thread", "comment"} : Sound([p EXCEPT !.feedback = items])
           /\ \A stray \in BOOLEAN :
                Sound([p EXCEPT !.head = 0, !.clean = TRUE, !.stray = @ \/ stray])
           /\ \A round \in Nat : Sound([p EXCEPT !.head = round, !.stray = FALSE])
           /\ Sound(Merged(p))
           /\ \A state \in {"open", "closed"} : p.state # "merged" =>
                Sound([p EXCEPT !.state = state])
           /\ \A posted \in BOOLEAN : p.state # "merged" =>
                Sound([ClosingComment(p, posted) EXCEPT !.state = "closed"])
  BY DEF Sound, PullRequest, Commented, Merged, ClosingComment

\* Every step leaves the pull requests there are, and leaves them sound.
PRsKept == DOMAIN pr \subseteq DOMAIN pr' /\ DOMAIN pr' \subseteq Id /\ SoundPRs(pr')

\* A push opens a pull request, or moves the head of the one that is there.
LEMMA PushKeepsPRs ==
    ASSUME LandInv, NEW t \in Id, NEW a \in Agent, Push(t, a)
    PROVE  PRsKept
<1>1. /\ DOMAIN pr \subseteq Id /\ ForgeOK
      /\ \A i \in DOMAIN pr : Sound(pr[i])
  BY DEF LandInv, ForgeOK, SoundPRs
<1> DEFINE stray == task[t].assignee # a
<1>2. pr' = Pushed(pr, t, stray) /\ stray \in BOOLEAN
  BY DEF Push
<1> HIDE DEF stray
<1>3. CASE t \in DOMAIN pr
  <2> DEFINE p == [pr[t] EXCEPT !.head = 0, !.clean = TRUE, !.stray = pr[t].stray \/ stray]
  <2>1. pr' = [pr EXCEPT ![t] = p]
    BY <1>2, <1>3 DEF Pushed
  <2>2. Sound(p)
    BY <1>1, <1>2, <1>3, ChangedPR
  <2> HIDE DEF p
  <2> QED
    BY <1>1, <1>3, <2>1, <2>2, OnePR DEF PRsKept
<1>4. CASE t \notin DOMAIN pr
  <2>1. pr' = [i \in DOMAIN pr \cup {t} |-> IF i = t THEN Opened(stray) ELSE pr[i]]
    BY <1>2, <1>4 DEF Pushed
  <2> DEFINE p == Opened(stray)
  <2>2. Sound(p)
    BY <1>2 DEF Sound, Opened, PullRequest
  <2> HIDE DEF p
  <2>3. DOMAIN pr' = DOMAIN pr \cup {t} /\ \A i \in DOMAIN pr' : Sound(pr'[i])
    BY <1>1, <2>1, <2>2 DEF p
  <2>4. pr' = [i \in DOMAIN pr' |-> pr'[i]]
    BY <2>1
  <2> QED
    BY <1>1, <2>3, <2>4 DEF PRsKept, SoundPRs, Sound
<1> QED
  BY <1>3, <1>4

\* Handing in names the head.
LEMMA HandInKeepsPRs ==
    ASSUME LandInv, NEW t \in Id, NEW a \in Agent, HandIn(t, a)
    PROVE  PRsKept /\ DOMAIN pr' = DOMAIN pr
<1> DEFINE f == Restamped(pr)
           p == [f[t] EXCEPT !.head = task[t].round + 1, !.stray = FALSE]
<1>1. DOMAIN pr \subseteq Id /\ ForgeOK /\ t \in DOMAIN pr
  BY DEF LandInv, ForgeOK, HandIn
<1>2. DOMAIN f = DOMAIN pr /\ \A i \in DOMAIN pr : Sound(f[i])
  BY <1>1, MarkedPRs
<1>3. task[t].round + 1 \in Nat
  BY ThisRow DEF LandInv, Row
<1>4. pr' = [f EXCEPT ![t] = p]
  BY DEF HandIn, WithHead
<1> HIDE DEF f
<1>5. Sound(p)
  BY <1>1, <1>2, <1>3, ChangedPR
<1> HIDE DEF p
<1>6. DOMAIN pr' = DOMAIN f /\ \A i \in DOMAIN f : pr'[i] = IF i = t THEN p ELSE f[i]
  BY <1>4
<1>7. pr' = [i \in DOMAIN pr' |-> pr'[i]]
  BY <1>4
<1> QED
  BY <1>1, <1>2, <1>5, <1>6, <1>7 DEF PRsKept, SoundPRs, Sound

\* A worker's first push opens a pull request; the rest is done to one that is there.
LEMMA WorkerKeepsPRs ==
    ASSUME LandInv, NEW t \in Id, NEW a \in Agent,
           \/ \E model \in ModelName : StartWork(t, a, model)
           \/ Push(t, a) \/ Acknowledge(t, a) \/ HandIn(t, a) \/ SessionEnds(t, a)
    PROVE  PRsKept
<1>1. /\ DOMAIN pr \subseteq Id /\ ForgeOK
      /\ \A i \in DOMAIN pr : Sound(pr[i])
  BY DEF LandInv, ForgeOK, SoundPRs
<1>2. CASE Acknowledge(t, a)
  <2>1. PICK item \in ListUnaddressedFeedback(t) : pr' = [pr EXCEPT ![t].feedback = @ \ {item}]
    BY <1>2 DEF Acknowledge
  <2> DEFINE items == pr[t].feedback \ {item}
             p == [pr[t] EXCEPT !.feedback = items]
  <2>2. t \in DOMAIN pr /\ pr' = [pr EXCEPT ![t] = p]
    BY <1>2, <2>1 DEF Acknowledge
  <2>3. items \in SUBSET {"thread", "comment"} /\ Sound(pr[t])
    BY <1>1, <2>2 DEF Sound, PullRequest
  <2> HIDE DEF items
  <2>4. Sound(p)
    BY <2>3, ChangedPR
  <2> HIDE DEF p
  <2> QED
    BY <1>1, <2>2, <2>4, OnePR DEF PRsKept
<1>3. CASE SessionEnds(t, a)
  BY <1>1, <1>3 DEF SessionEnds, PRsKept, ForgeOK
<1>4. CASE \E model \in ModelName : StartWork(t, a, model)
  BY <1>1, <1>4, WritesKeepPRs DEF StartWork, PRsKept
<1> QED
  BY <1>2, <1>3, <1>4, PushKeepsPRs, HandInKeepsPRs

\* Reviews, comments, merges, closings and conflicts.
LEMMA PersonKeepsPRs ==
    ASSUME LandInv, PersonStep
    PROVE  PRsKept
<1>1. PICK t \in DOMAIN pr :
        \/ \E decision \in {"pending", "changes_requested"} : Review(t, decision)
        \/ Comment(t) \/ MergeByHand(t) \/ CloseByHand(t) \/ Reopen(t) \/ Conflict(t)
  BY DEF PersonStep
<1>2. DOMAIN pr \subseteq Id /\ ForgeOK /\ Sound(pr[t])
  BY DEF LandInv, ForgeOK, SoundPRs
<1>3. ASSUME NEW p, Sound(p), pr' = [pr EXCEPT ![t] = p] PROVE PRsKept
  BY <1>2, <1>3, OnePR DEF PRsKept
<1>4. ASSUME NEW decision \in {"pending", "changes_requested"}, Review(t, decision)
      PROVE PRsKept
  <2>1. PICK items \in {{}, {"thread"}} :
            pr' = [pr EXCEPT ![t] = Reviewed(pr[t], decision, items)]
    BY <1>4 DEF Review
  <2>2. Sound(Reviewed(pr[t], decision, items))
    BY <1>2 DEF Sound, PullRequest, Reviewed
  <2> QED
    BY <1>3, <2>1, <2>2
<1>5. CASE Comment(t)
  <2>1. Sound(Commented(pr[t], FALSE))
    BY <1>2, ChangedPR
  <2>2. pr' = [pr EXCEPT ![t] = Commented(pr[t], FALSE)]
    BY <1>5 DEF Comment
  <2> QED
    BY <1>3, <2>1, <2>2
<1>6. CASE MergeByHand(t)
  <2>1. Sound(Merged(pr[t]))
    BY <1>2, ChangedPR
  <2>2. pr' = [pr EXCEPT ![t] = Merged(pr[t])]
    BY <1>6 DEF MergeByHand
  <2> QED
    BY <1>3, <2>1, <2>2
<1>7. CASE CloseByHand(t) \/ Reopen(t)
  <2>1. PICK state \in {"open", "closed"} :
            pr[t].state # "merged" /\ pr' = [pr EXCEPT ![t].state = state]
    BY <1>7 DEF CloseByHand, ClosePR, Reopen, IsOpen
  <2>2. pr' = [pr EXCEPT ![t] = [pr[t] EXCEPT !.state = state]]
    BY <2>1
  <2>3. Sound([pr[t] EXCEPT !.state = state])
    BY <1>2, <2>1, ChangedPR
  <2> QED
    BY <1>3, <2>2, <2>3
<1>8. CASE Conflict(t)
  <2>1. pr' = [pr EXCEPT ![t] = [pr[t] EXCEPT !.clean = FALSE]]
    BY <1>8 DEF Conflict
  <2>2. Sound([pr[t] EXCEPT !.clean = FALSE])
    BY <1>2, ChangedPR
  <2> QED
    BY <1>3, <2>1, <2>2
<1> QED
  BY <1>1, <1>4, <1>5, <1>6, <1>7, <1>8

\* The pass of the reconciler and the closing of stale pull requests.
LEMMA WatchKeepsPRs ==
    ASSUME LandInv, WatchStep
    PROVE  PRsKept
<1>1. DOMAIN pr \subseteq Id /\ ForgeOK /\ \A i \in DOMAIN pr : Sound(pr[i])
  BY DEF LandInv, ForgeOK, SoundPRs
<1>2. ASSUME NEW t \in DOMAIN pr, NEW p, Sound(p), pr' = [pr EXCEPT ![t] = p] PROVE PRsKept
  BY <1>1, <1>2, OnePR DEF PRsKept
<1>3. CASE UNCHANGED pr
  BY <1>1, <1>3 DEF PRsKept, ForgeOK
<1>4. CASE BoardWrite
  BY <1>1, <1>4, WritesKeepPRs DEF PRsKept
<1>5. CASE ListApproved
  <2> DEFINE marks(t) == IF "row" \in pr[t].newer THEN pr[t].newer \cup {"listed"}
                         ELSE pr[t].newer \ {"listed"}
  <2>1. pr' = [t \in DOMAIN pr |-> [pr[t] EXCEPT !.newer = marks(t)]]
    BY <1>5 DEF ListApproved
  <2>2. \A t \in DOMAIN pr : marks(t) \in SUBSET {"row", "listed"}
    BY <1>1 DEF Sound, PullRequest
  <2> HIDE DEF marks
  <2>3. \A t \in DOMAIN pr : Sound([pr[t] EXCEPT !.newer = marks(t)])
    BY <1>1, <2>2, MarkedPR
  <2> QED
    BY <1>1, <2>1, <2>3 DEF PRsKept, SoundPRs, Sound
<1>6. CASE BounceComment
  <2>1. looking.row \in DOMAIN pr
    BY <1>6 DEF BounceComment, LandInv, WatchOK
  <2>2. Sound(Commented(pr[looking.row], TRUE))
    BY <1>1, <2>1, ChangedPR
  <2>3. pr' = [pr EXCEPT ![looking.row] = Commented(pr[looking.row], TRUE)]
    BY <1>6 DEF BounceComment
  <2> QED
    BY <1>2, <2>1, <2>2, <2>3
<1>7. ASSUME NEW t \in Id, CloseSupersededPR(t) \/ CloseFails(t), ~UNCHANGED pr
      PROVE  PRsKept
  <2>1. t \in DOMAIN pr /\ pr[t].state # "merged"
    BY <1>7 DEF CloseSupersededPR, CloseFails, IsOpen
  <2>2. PICK p : /\ pr' = [pr EXCEPT ![t] = p]
                 /\ \/ \E posted \in BOOLEAN :
                        p = [ClosingComment(pr[t], posted) EXCEPT !.state = "closed"]
                    \/ p = Commented(pr[t], FALSE)
    <3>1. CASE CloseSupersededPR(t)
      BY <1>7, <3>1 DEF CloseSupersededPR
    <3>2. CASE CloseFails(t)
      BY <1>7, <3>2 DEF CloseFails, ClosingComment
    <3> QED
      BY <1>7, <3>1, <3>2
  <2>3. Sound(p)
    BY <1>1, <2>1, <2>2, ChangedPR
  <2> QED
    BY <1>2, <2>1, <2>2, <2>3
<1> QED
  BY <1>3, <1>4, <1>5, <1>6, <1>7
     DEF WatchStep, PassGoesOn, LookAt, GetPRState, GetReviewDecision, ApplyMerged,
         ApplyAbandoned, ApplyBounce, Records, SkipRow, ServerRestarts, RetrofitLook, Supersede

\* A merger merges or comments on the pull request of its parent.
LEMMA MergerKeepsPRs ==
    ASSUME LandInv, NEW a \in Agent, MergerStep(a)
    PROVE  PRsKept
<1>1. DOMAIN pr \subseteq Id /\ ForgeOK /\ \A i \in DOMAIN pr : Sound(pr[i])
  BY DEF LandInv, ForgeOK, SoundPRs
<1>2. ASSUME NEW t \in DOMAIN pr, NEW p, Sound(p), pr' = [pr EXCEPT ![t] = p] PROVE PRsKept
  BY <1>1, <1>2, OnePR DEF PRsKept
<1>3. CASE UNCHANGED pr
  BY <1>1, <1>3 DEF PRsKept, ForgeOK
<1>4. CASE BoardWrite
  BY <1>1, <1>4, WritesKeepPRs DEF PRsKept
<1>5. CASE (SquashMerge(a) \/ SquashMergeUnheard(a)) /\ ~UNCHANGED pr
  <2>1. merger[a].at # "none" /\ merger[a].at # "read"
    BY <1>5 DEF SquashMerge, SquashMergeUnheard
  <2>2. Parent(a) \in DOMAIN pr
    BY <2>1, RunningMerger
  <2>3. pr' = [pr EXCEPT ![Parent(a)] = Merged(pr[Parent(a)])]
    BY <1>5 DEF SquashMerge, SquashMergeUnheard
  <2>4. Sound(Merged(pr[Parent(a)]))
    BY <1>1, <2>2, ChangedPR
  <2> QED
    BY <1>2, <2>2, <2>3, <2>4
<1>6. CASE ConflictComment(a) /\ ~UNCHANGED pr
  <2>1. merger[a].at # "none" /\ merger[a].at # "read"
    BY <1>6 DEF ConflictComment
  <2>2. Parent(a) \in DOMAIN pr
    BY <2>1, RunningMerger
  <2>3. pr' = [pr EXCEPT ![Parent(a)] = Commented(pr[Parent(a)], FALSE)]
    BY <1>6 DEF ConflictComment
  <2>4. Sound(Commented(pr[Parent(a)], FALSE))
    BY <1>1, <2>2, ChangedPR
  <2> QED
    BY <1>2, <2>2, <2>3, <2>4
<1> QED
  BY <1>3, <1>4, <1>5, <1>6
     DEF MergerStep, RunGoesOn, ClaimMerge, ReadRows, SquashMerge, SquashMergeUnheard,
         PRMergeability, ConflictComment, BounceParent, Moves, Retire, Closes, FinishParent,
         FinishRow, RunEnds

\* All of them.
LEMMA StepKeepsPRs ==
    ASSUME LandInv, [LandingNext]_landingvars
    PROVE  PRsKept
<1>1. DOMAIN pr \subseteq Id /\ ForgeOK /\ \A i \in DOMAIN pr : Sound(pr[i])
  BY DEF LandInv, ForgeOK, SoundPRs
<1>2. CASE UNCHANGED landingvars
  BY <1>1, <1>2 DEF PRsKept, ForgeOK, landingvars
<1>3. CASE BoardStep
  BY <1>1, <1>3, WritesKeepPRs DEF BoardStep, BoardOnly, PRsKept
<1>4. CASE WorkerStep
  BY <1>4, WorkerKeepsPRs DEF WorkerStep, Submit, SubmitUnchecked
<1> QED
  BY <1>2, <1>3, <1>4, PersonKeepsPRs, WatchKeepsPRs, MergerKeepsPRs DEF LandingNext

-----------------------------------------------------------------------------
(* The steps, as the whole sees them.                                      *)

\* What a step does to links and merge rows.
LEMMA StepLinks ==
    ASSUME LandInv, [LandingNext]_landingvars
    PROVE  LinksKept(task', task, DOMAIN pr)
<1>1. LinksKept(task', task, {}) => LinksKept(task', task, DOMAIN pr)
  BY DEF LinksKept
<1>2. CASE UNCHANGED task
  BY <1>2 DEF LinksKept
<1>3. Inv
  BY DEF LandInv
<1>4. CASE BoardStep
  <2>1. CASE \E batch \in Batches : CreateTasks(batch)
    BY <2>1, <1>1, <1>3, CreationKeepsLinks
  <2> QED
    BY <1>4, <2>1, <1>1, <1>3, BoardKeepsLinks DEF BoardStep
<1>5. ASSUME NEW t \in Id, NEW a \in Agent, HandIn(t, a)
      PROVE  LinksKept(task', task, DOMAIN pr)
  <2>1. LinksKept(task', task, {t}) /\ t \in DOMAIN pr
    BY <1>3, <1>5, PRSubmissions, SubmissionKeepsLinks DEF HandIn
  <2> QED
    BY <2>1 DEF LinksKept
<1>6. ASSUME NEW t \in Id, NEW to \in State, TransitionTask(t, to)
      PROVE  LinksKept(task', task, DOMAIN pr)
  BY <1>1, <1>3, <1>6, BoardKeepsLinks
<1>7. {"done", "abandoned", "ready", "failed"} \subseteq State
  BY DEF State
<1>8. CASE WorkerStep
  <2>1. ASSUME NEW t \in Id, NEW a \in Agent, NEW model, StartWork(t, a, model)
        PROVE  LinksKept(task', task, DOMAIN pr)
    BY <1>1, <1>3, <2>1, BoardKeepsLinks DEF StartWork
  <2> QED
    BY <1>2, <1>5, <1>8, <2>1
       DEF WorkerStep, Push, Acknowledge, Submit, SubmitUnchecked, SessionEnds
<1>9. CASE PersonStep
  BY <1>2, <1>9 DEF PersonStep, Review, Comment, MergeByHand, CloseByHand, Reopen, Conflict
<1>10. CASE WatchStep
  <2>1. looking.at # "none" => looking.row \in Id
    BY DEF LandInv, WatchOK, ForgeOK
  <2>2. CASE ApplyMerged \/ ApplyAbandoned \/ ApplyBounce
    BY <1>2, <1>6, <1>7, <2>1, <2>2 DEF ApplyMerged, ApplyAbandoned, ApplyBounce, Records
  <2>3. ASSUME NEW t \in Id, NEW model \in Models, Supersede(t, model)
        PROVE  LinksKept(task', task, DOMAIN pr)
    BY <1>1, <1>3, <2>3, BoardKeepsLinks DEF Supersede
  <2> QED
    BY <1>2, <1>10, <2>2, <2>3
       DEF WatchStep, PassGoesOn, ListApproved, GetPRState, GetReviewDecision, BounceComment,
           LookAt, SkipRow, ServerRestarts, RetrofitLook, CloseSupersededPR, CloseFails
<1>11. ASSUME NEW a \in Agent, MergerStep(a) PROVE LinksKept(task', task, DOMAIN pr)
  <2>1. merger[a].at # "none" => merger[a].row \in Id
    BY RunningMerger
  <2>2. merger[a].at \notin {"none", "read"} => Parent(a) \in Id
    BY RunningMerger
  <2>3. ASSUME NEW t \in Id, ClaimMerge(t, a) PROVE LinksKept(task', task, DOMAIN pr)
    BY <1>1, <1>3, <2>3, BoardKeepsLinks DEF ClaimMerge
  <2>4. CASE BounceParent(a) \/ FinishParent(a)
    BY <1>2, <1>6, <1>7, <2>2, <2>4 DEF BounceParent, FinishParent, Moves
  <2>5. CASE Retire(a) \/ FinishRow(a)
    BY <1>2, <1>6, <1>7, <2>1, <2>5 DEF Retire, FinishRow, Closes
  <2> QED
    BY <1>2, <1>11, <2>3, <2>4, <2>5
       DEF MergerStep, RunGoesOn, ReadRows, SquashMerge, SquashMergeUnheard, PRMergeability,
           ConflictComment, RunEnds
<1> QED
  BY <1>2, <1>4, <1>8, <1>9, <1>10, <1>11 DEF LandingNext, landingvars

\* Links of a step go to rows with a pull request, and so do its merge rows.
LEMMA LinksStayOK ==
    ASSUME LandInv, [LandingNext]_landingvars
    PROVE  LinksOK'
<1>1. LinksKept(task', task, DOMAIN pr)
  BY StepLinks
<1>2. /\ Inv' /\ Len(task) \in Nat /\ Len(task') \in Nat /\ Len(task) <= Len(task')
      /\ \A i \in Id : task'[i].kind = task[i].kind /\ task'[i].target = task[i].target
  BY BoardSteps, RowsStay DEF LandInv
<1>3. DOMAIN pr \subseteq DOMAIN pr' /\ LinksOK
  BY StepKeepsPRs DEF PRsKept, LandInv
<1> QED
  BY <1>1, <1>2, <1>3 DEF LinksOK, LinksKept, Id, Rows

\* Every step only adds.
LEMMA StepGrows ==
    ASSUME LandInv, [LandingNext]_landingvars
    PROVE  Grows
  BY BoardSteps, RowsStay, StepKeepsPRs DEF PRsKept, LandInv, Grows

\* A session is on an implement row that is there, and that stays what it is.
LEMMA SessionsStayOK ==
    ASSUME LandInv, [LandingNext]_landingvars
    PROVE  SessionsOK'
<1>1. Grows /\ SessionsOK
  BY StepGrows DEF LandInv
<1>2. Id \subseteq Id'
  BY <1>1 DEF Grows, Id
<1>3. CASE UNCHANGED working
  BY <1>1, <1>2, <1>3 DEF SessionsOK, Grows
<1>4. ASSUME NEW a \in Agent, NEW t \in Id \cup {NoTask},
             t # NoTask => task[t].kind = "implement", working' = [working EXCEPT ![a] = t]
      PROVE  SessionsOK'
  BY <1>1, <1>2, <1>4 DEF SessionsOK, Grows
<1>5. CASE WorkerStep
  BY <1>3, <1>4, <1>5
     DEF WorkerStep, StartWork, Push, Acknowledge, Submit, SubmitUnchecked, HandIn, SessionEnds,
         SessionOver
<1> QED
  BY <1>3, <1>5 DEF LandingNext, landingvars, BoardStep, BoardOnly, PersonStep, Review, Comment,
                    MergeByHand, CloseByHand, Reopen, Conflict, WatchStep

\* A run refers to what is there, and its row stays what it is.
LEMMA RunStaysOK ==
    ASSUME Grows, NEW r, RunOK(task, r)
    PROVE  RunOK(task', r)
  BY DEF Grows, RunOK, Id, Rows

\* A run goes on, ends or is started on a merge row.
LEMMA MergersStayOK ==
    ASSUME LandInv, [LandingNext]_landingvars
    PROVE  MergersOK'
<1>1. /\ Grows /\ merger \in [Agent -> Run]
      /\ \A a \in Agent : RunOK(task, merger[a]) /\ RunOK(task', merger[a])
  BY StepGrows, RunStaysOK DEF LandInv, MergersOK
<1>2. \A a \in Agent : merger[a] \in Run
  BY <1>1
<1>3. CASE UNCHANGED merger
  BY <1>1, <1>3 DEF MergersOK
<1>4. ASSUME NEW a \in Agent, MergerStep(a) PROVE MergersOK'
  <2>1. ASSUME NEW r, merger' = [merger EXCEPT ![a] = r], RunOK(task', r)
        PROVE  MergersOK'
    <3>1. r \in Run
      BY <2>1 DEF RunOK
    <3> QED
      BY <1>1, <2>1, <3>1 DEF MergersOK
  <2>2. RunOK(task', NoRun)
    BY DEF RunOK, NoRun, Run, Call, NoTask
  <2>3. ASSUME Exits(a) PROVE MergersOK'
    BY <2>1, <2>2, <2>3 DEF Exits
  <2>4. ASSUME NEW call \in Call, Goes(a, call), merger[a].at # "none",
               merger[a].at = "read" => Parent(a) # NoTask
        PROVE  MergersOK'
    <3> DEFINE r == [merger[a] EXCEPT !.at = call]
    <3>1. merger' = [merger EXCEPT ![a] = r]
      BY <2>4 DEF Goes
    <3>2. r \in Run /\ r.at = call /\ r.row = merger[a].row
      BY <1>2, <2>4 DEF Run
    <3>3. /\ task[r.row].target # NoTask
          /\ r.row \in Id /\ task[r.row].kind = "merge"
      BY <1>1, <2>4, <3>2 DEF RunOK, Parent, Id, Rows
    <3> HIDE DEF r
    <3>4. RunOK(task', r)
      BY <1>1, <3>2, <3>3 DEF RunOK, Grows, Id, Rows
    <3> QED
      BY <2>1, <3>1, <3>4
  <2>5. ASSUME NEW t \in Id, ClaimMerge(t, a) PROVE MergersOK'
    <3> DEFINE r == [at |-> "read", row |-> t]
    <3>1. merger' = [merger EXCEPT ![a] = r] /\ task[t].kind = "merge"
      BY <2>5 DEF ClaimMerge
    <3>2. r \in Run /\ r.at = "read" /\ r.row = t
      <4>1. t \in Nat
        BY <1>1 DEF Id, Grows
      <4> QED
        BY <4>1 DEF Run, Call
    <3> HIDE DEF r
    <3>3. RunOK(task', r)
      BY <1>1, <3>1, <3>2 DEF RunOK, Grows, Id, Rows
    <3> QED
      BY <2>1, <3>1, <3>3
  <2>6. CASE ReadRows(a)
    <3>1. merger[a].at = "read"
      BY <2>6 DEF ReadRows
    <3>2. \/ Exits(a)
          \/ \E call \in Call : Goes(a, call) /\ Parent(a) # NoTask
      BY <2>6 DEF ReadRows, CallFor, Call
    <3> QED
      BY <2>3, <2>4, <3>1, <3>2
  <2>7. {"merge", "mergeability", "comment", "bounce", "retire", "finish parent",
         "finish row"} \subseteq Call
    BY DEF Call
  <2>8. CASE \/ SquashMerge(a) \/ PRMergeability(a) \/ ConflictComment(a)
             \/ BounceParent(a) \/ FinishParent(a)
    <3>1. merger[a].at \in {"merge", "mergeability", "comment", "bounce", "finish parent"}
      BY <2>8 DEF SquashMerge, PRMergeability, ConflictComment, BounceParent, FinishParent
    <3>2. Exits(a) \/ \E call \in Call : Goes(a, call)
      BY <2>7, <2>8 DEF SquashMerge, PRMergeability, ConflictComment, BounceParent,
                        FinishParent, Moves
    <3> QED
      BY <2>3, <2>4, <3>1, <3>2
  <2>9. CASE Retire(a) \/ FinishRow(a) \/ SquashMergeUnheard(a) \/ RunEnds(a)
    BY <2>3, <2>9 DEF Retire, FinishRow, Closes, SquashMergeUnheard, RunEnds
  <2> QED
    BY <1>4, <2>5, <2>6, <2>8, <2>9 DEF MergerStep, RunGoesOn
<1> QED
  BY <1>3, <1>4
     DEF LandingNext, BoardStep, BoardOnly, WorkerStep, OnGitHub, PersonStep, WatchStep,
         landingvars

\* A pass lists and looks at rows with a pull request.
LEMMA WatchStaysOK ==
    ASSUME LandInv, [LandingNext]_landingvars
    PROVE  WatchOK'
<1>1. Grows /\ WatchOK /\ Inv /\ ForgeOK
  BY StepGrows DEF LandInv
<1>2. DOMAIN pr \subseteq DOMAIN pr' /\ Id \subseteq Id'
  BY <1>1 DEF Grows, Id
<1>3. ASSUME listed' \subseteq listed, looking' = looking \/ looking' = NoLook,
             closing' \subseteq closing \cup Id
      PROVE  WatchOK'
  <2>1. NoLook \in Look /\ NoLook.row = NoTask /\ NoLook.at = "none"
    BY DEF NoLook, Look, NoTask
  <2> QED
    BY <1>1, <1>2, <1>3, <2>1 DEF WatchOK
<1>4. CASE WatchStep
  <2>1. CASE ListApproved
    <3>1. \A t \in Id : task[t].round \in Nat
      BY <1>1, ThisRow DEF Row
    <3>2. listed' \subseteq [row : DOMAIN pr, round : Nat]
      BY <2>1, <3>1 DEF ListApproved, Watched
    <3>3. UNCHANGED <<looking, closing>>
      BY <2>1 DEF ListApproved
    <3> QED
      BY <1>1, <1>2, <3>2, <3>3 DEF WatchOK
  <2>2. ASSUME NEW entry \in listed, LookAt(entry) PROVE WatchOK'
    <3>1. entry.row \in DOMAIN pr /\ entry.round \in Nat
      BY <1>1 DEF WatchOK
    <3>2. entry.row \in Nat
      BY <1>1, <3>1 DEF ForgeOK, Id, Grows
    <3>3. /\ looking' \in Look /\ looking'.row = entry.row
          /\ listed' \subseteq listed /\ UNCHANGED closing
      BY <2>2, <3>1, <3>2 DEF LookAt, NoLook, Look, NoTask
    <3> QED
      BY <1>1, <1>2, <3>1, <3>3 DEF WatchOK
  <2>3. CASE GetPRState
    <3>1. looking.row \in DOMAIN pr /\ looking \in Look
      BY <1>1, <2>3 DEF WatchOK, GetPRState
    <3>2. pr[looking.row].state \in {"open", "merged", "closed"}
      BY <1>1, <3>1 DEF ForgeOK, SoundPRs, PullRequest
    <3>3. /\ looking' \in Look /\ looking'.row = looking.row
          /\ UNCHANGED <<listed, closing>>
      BY <2>3, <3>1, <3>2 DEF GetPRState, Look
    <3> QED
      BY <1>1, <1>2, <3>1, <3>3 DEF WatchOK
  <2>4. CASE GetReviewDecision
    <3>1. looking.row \in DOMAIN pr /\ looking \in Look
      BY <1>1, <2>4 DEF WatchOK, GetReviewDecision
    <3> DEFINE action == DecideAction(looking.saw, pr[looking.row])
    <3>2. action \in {"noop", "done", "abandon", "bounce"}
      BY DEF DecideAction
    <3>3. /\ looking' = IF action = "noop" THEN NoLook
                        ELSE [looking EXCEPT !.at = "act", !.action = action]
          /\ UNCHANGED <<listed, closing>>
      BY <2>4 DEF GetReviewDecision
    <3> HIDE DEF action
    <3>4. \/ looking' = NoLook
          \/ looking' \in Look /\ looking'.row = looking.row
      BY <3>1, <3>2, <3>3 DEF Look
    <3> QED
      BY <1>1, <1>2, <1>3, <3>1, <3>3, <3>4 DEF WatchOK
  <2>5. CASE BounceComment
    <3>1. looking.row \in DOMAIN pr /\ looking \in Look
      BY <1>1, <2>5 DEF WatchOK, BounceComment
    <3>2. /\ looking' \in Look /\ looking'.row = looking.row
          /\ UNCHANGED <<listed, closing>>
      BY <2>5, <3>1 DEF BounceComment, Look
    <3> QED
      BY <1>1, <1>2, <3>1, <3>2 DEF WatchOK
  <2>6. CASE ApplyMerged \/ ApplyAbandoned \/ ApplyBounce
    BY <1>3, <2>6 DEF ApplyMerged, ApplyAbandoned, ApplyBounce, Records
  <2>7. CASE \/ SkipRow \/ ServerRestarts
             \/ \E t \in Id :
                    \/ RetrofitLook(t) \/ CloseSupersededPR(t) \/ CloseFails(t)
                    \/ \E model \in Models : Supersede(t, model)
    BY <1>3, <2>7 DEF SkipRow, ServerRestarts, RetrofitLook, CloseSupersededPR, CloseFails,
                      Supersede
  <2> QED
    BY <1>4, <2>1, <2>2, <2>3, <2>4, <2>5, <2>6, <2>7 DEF WatchStep, PassGoesOn
<1> QED
  BY <1>3, <1>4
     DEF LandingNext, BoardStep, BoardOnly, WorkerStep, OnGitHub, PersonStep, watchvars,
         landingvars

-----------------------------------------------------------------------------
(* The theorems.                                                           *)

\* Rows, links, pull requests, runs of mergers and the pass of the reconciler fit
\* together, whatever is called and whatever dies.
THEOREM LandingInvariance == LandingSpec => []LandInv
<1>1. LandingInit => LandInv
  <2> SUFFICES ASSUME LandingInit PROVE LandInv
    OBVIOUS
  <2>1. Inv
    BY EmptySeq DEF LandingInit, Init, Inv, WellFormed, Gate, Rows
  <2>2. pr = <<>> /\ DOMAIN pr = {} /\ ForgeOK
    BY DEF LandingInit, ForgeInit, ForgeOK, SoundPRs
  <2>3. Id = {}
    BY DEF LandingInit, Init, Id
  <2>4. MergersOK
    BY DEF LandingInit, MergerInit, MergersOK, RunOK, NoRun, Run, Call, NoTask
  <2>5. WatchOK
    BY DEF LandingInit, WatchInit, WatchOK, NoLook, Look, NoTask
  <2>6. SessionsOK
    BY DEF LandingInit, ForgeInit, SessionsOK
  <2> QED
    BY <2>1, <2>2, <2>3, <2>4, <2>5, <2>6 DEF LandInv, LinksOK
<1>2. LandInv /\ [LandingNext]_landingvars => LandInv'
  <2> SUFFICES ASSUME LandInv, [LandingNext]_landingvars PROVE LandInv'
    OBVIOUS
  <2>1. Inv'
    BY BoardSteps, RowsStay DEF LandInv
  <2>2. ForgeOK'
    BY StepKeepsPRs, StepGrows DEF PRsKept, Grows, Id, ForgeOK
  <2> QED
    BY <2>1, <2>2, LinksStayOK, SessionsStayOK, MergersStayOK, WatchStaysOK DEF LandInv
<1> QED
  BY <1>1, <1>2, PTL DEF LandingSpec

\* Mergers, the reconciler and people on GitHub write the board only as the store allows:
\* what is proved of the board holds here.
THEOREM LandingUsesTheBoard == LandingSpec => Spec
<1>1. LandingInit => Init
  BY DEF LandingInit
<1>2. LandInv /\ [LandingNext]_landingvars => [Next]_vars
  BY BoardSteps
<1> QED
  BY <1>1, <1>2, LandingInvariance, PTL DEF LandingSpec, Spec

\* Only what was merged has landed, sessions are on implement rows, and every running
\* merger has a merge row whose parent has a pull request.
THEOREM LandingTypeCorrect == LandingSpec => []LandingTypeOK
<1>1. LandInv => LandingTypeOK
  <2> SUFFICES ASSUME LandInv PROVE LandingTypeOK
    OBVIOUS
  <2>1. \A a \in Agent : merger[a].at # "none" =>
            /\ merger[a].row \in Id /\ task[merger[a].row].kind = "merge"
            /\ Parent(a) \in DOMAIN pr \/ (Parent(a) = NoTask /\ merger[a].at = "read")
    BY DEF LandInv, MergersOK, RunOK, LinksOK, Parent, Id, Rows
  <2> QED
    BY <2>1 DEF LandInv, ForgeOK, SoundPRs, Sound, SessionsOK, MergersOK, WatchOK, LandingTypeOK
<1> QED
  BY <1>1, LandingInvariance, PTL

-----------------------------------------------------------------------------
(* What a step does to the rounds and the links.                           *)

\* Steps but submissions open no round.
LEMMA BoardOpensNoRound ==
    ASSUME Inv, NEW t \in Id,
           \/ PromoteTask(t) \/ LeaseLapses(t) \/ HoldTask(t) \/ ReleaseTask(t)
           \/ \E to \in State : TransitionTask(t, to)
           \/ \E model \in Models : SupersedeTask(t, model)
           \/ \E a \in Agent :
                \/ HeartbeatTask(t, a)
                \/ \E model : ClaimTask(t, a, model)
                \/ \E verdict \in Verdict : SubmitReview(t, a, verdict)
    PROVE  SameRounds(task', task)
<1>1. CASE LeaseLapses(t)
  <2>1. task' = [task EXCEPT ![t].lease = "lapsed"] /\ "lapsed" \in Lease
    BY <1>1 DEF LeaseLapses, Lease
  <2> QED
    BY <2>1, LeaseKeeps, QuietOpensNoRound
<1>2. CASE \E a \in Agent : HeartbeatTask(t, a)
  <2>1. task' = [task EXCEPT ![t].lease = "live"] /\ "live" \in Lease
    BY <1>2 DEF HeartbeatTask, Lease
  <2> QED
    BY <2>1, LeaseKeeps, QuietOpensNoRound
<1>3. CASE \E a \in Agent : \E verdict \in Verdict : SubmitReview(t, a, verdict)
  BY <1>3, ReviewKeeps
<1> QED
  BY <1>1, <1>2, <1>3, PromoteKeeps, HoldKeeps, TransitionKeeps, SupersedeKeeps, ClaimKeeps,
     QuietOpensNoRound

\* A step that leaves rounds and links alone.
SameWork == SameRounds(task', task) /\ LinksKept(task', task, {})

\* Work is handed in, or rounds and links stay.
LEMMA HandInOrNot ==
    ASSUME LandInv, [LandingNext]_landingvars
    PROVE  SameWork \/ \E t \in Id, a \in Agent : HandIn(t, a)
<1> DEFINE Fine == SameWork \/ \E t \in Id, a \in Agent : HandIn(t, a)
<1>1. Inv /\ Len(task) \in Nat
  BY LenProperties DEF LandInv, Inv, WellFormed
<1>2. CASE UNCHANGED task
  <2>1. SameRounds(task, task) /\ LinksKept(task, task, {})
    BY <1>1 DEF SameRounds, LinksKept
  <2> QED
    BY <2>1, <1>2 DEF SameWork
<1>3. CASE BoardStep
  <2>1. ASSUME NEW batch \in Batches, CreateTasks(batch) PROVE SameWork
    BY <1>1, <2>1, CreateKeeps, QuietOpensNoRound, CreationKeepsLinks DEF SameWork
  <2> QED
    BY <1>1, <1>3, <2>1, BoardKeepsLinks, BoardOpensNoRound DEF BoardStep, SameWork
<1>4. ASSUME NEW t \in Id, NEW to \in State, TransitionTask(t, to) PROVE SameWork
  BY <1>1, <1>4, BoardKeepsLinks, BoardOpensNoRound DEF SameWork
<1>5. {"done", "abandoned", "ready", "failed"} \subseteq State
  BY DEF State
<1>6. CASE WorkerStep
  <2>1. ASSUME NEW t \in Id, NEW a \in Agent, NEW model, StartWork(t, a, model) PROVE SameWork
    BY <1>1, <2>1, BoardKeepsLinks, BoardOpensNoRound DEF StartWork, SameWork
  <2> QED
    BY <1>2, <1>6, <2>1
       DEF WorkerStep, Push, Acknowledge, Submit, SubmitUnchecked, SessionEnds
<1>7. CASE PersonStep
  BY <1>2, <1>7 DEF PersonStep, Review, Comment, MergeByHand, CloseByHand, Reopen, Conflict
<1>8. CASE WatchStep
  <2>1. looking.at # "none" => looking.row \in Id
    BY DEF LandInv, WatchOK, ForgeOK
  <2>2. CASE ApplyMerged \/ ApplyAbandoned \/ ApplyBounce
    BY <1>2, <1>4, <1>5, <2>1, <2>2 DEF ApplyMerged, ApplyAbandoned, ApplyBounce, Records
  <2>3. ASSUME NEW t \in Id, NEW model \in Models, Supersede(t, model) PROVE SameWork
    BY <1>1, <2>3, BoardKeepsLinks, BoardOpensNoRound DEF Supersede, SameWork
  <2> QED
    BY <1>2, <1>8, <2>2, <2>3
       DEF WatchStep, PassGoesOn, ListApproved, GetPRState, GetReviewDecision, BounceComment,
           LookAt, SkipRow, ServerRestarts, RetrofitLook, CloseSupersededPR, CloseFails
<1>9. ASSUME NEW a \in Agent, MergerStep(a) PROVE Fine
  <2>1. merger[a].at # "none" => merger[a].row \in Id
    BY RunningMerger
  <2>2. merger[a].at \notin {"none", "read"} => Parent(a) \in Id
    BY RunningMerger
  <2>3. ASSUME NEW t \in Id, ClaimMerge(t, a) PROVE SameWork
    BY <1>1, <2>3, BoardKeepsLinks, BoardOpensNoRound DEF ClaimMerge, SameWork
  <2>4. CASE BounceParent(a) \/ FinishParent(a)
    BY <1>2, <1>4, <1>5, <2>2, <2>4 DEF BounceParent, FinishParent, Moves
  <2>5. CASE Retire(a) \/ FinishRow(a)
    BY <1>2, <1>4, <1>5, <2>1, <2>5 DEF Retire, FinishRow, Closes
  <2> QED
    BY <1>2, <1>9, <2>3, <2>4, <2>5
       DEF MergerStep, RunGoesOn, ReadRows, SquashMerge, SquashMergeUnheard, PRMergeability,
           ConflictComment, RunEnds
<1> QED
  BY <1>2, <1>3, <1>6, <1>7, <1>8, <1>9 DEF LandingNext, landingvars

\* Handing in opens the next round of a row that is in progress, and links its pull request.
LEMMA HandingIn ==
    ASSUME LandInv, NEW t \in Id, NEW a \in Agent, HandIn(t, a)
    PROVE  /\ OpensRound(task', task, t) /\ LinksKept(task', task, {t})
           /\ "pr" \in task'[t].links /\ task'[t].state = "review"
<1>1. Inv /\ SubmitWork(t, a, {"pr"}) /\ {"pr"} \in Submissions
  BY PRSubmissions DEF LandInv, HandIn
<1>2. OpensRound(task', task, t) /\ LinksKept(task', task, {t})
  BY <1>1, WorkKeeps, SubmissionKeepsLinks
<1> DEFINE row == Reworked(task[t], {"pr"}, task[t].round + 1)
           V == [task EXCEPT ![t] = row]
           reviewers == ReviewersOf(task[t])
           S == [i \in 1..Len(reviewers) |-> ReviewRow(reviewers[i], task[t].round + 1, t)]
           Any == Row \cup {row}
                      \cup {ReviewRow(reviewers[i], task[t].round + 1, t) : i \in 1..Len(reviewers)}
<1>3. task' = V \o S
  BY <1>1 DEF SubmitWork
<1>4. task[t] \in Row /\ Len(task) \in Nat /\ task \in Seq(Row)
  BY <1>1, ThisRow DEF Inv, WellFormed
<1>5. Len(reviewers) \in Nat
  BY <1>4, SomeReviewer
<1>6. "pr" \in row.links /\ row.state = "review"
  BY <1>4 DEF Reworked, Submitted, Row
<1>7. S \in Seq(Any)
  <2>1. S \in [1..Len(reviewers) -> Any]
    OBVIOUS
  <2> HIDE DEF S, Any, reviewers
  <2> QED
    BY <2>1, <1>5, Tabulated
<1> HIDE DEF S
<1>8. task \in Seq(Any) /\ row \in Any /\ t \in 1..Len(task)
  BY <1>4, SeqDef DEF Id
<1> HIDE DEF Any, row, reviewers
<1>9. V \in Seq(Any) /\ Len(V) = Len(task) /\ V[t] = row
  BY <1>8, ExceptSeq
<1> HIDE DEF V
<1>10. (V \o S)[t] = V[t]
  <2>1. Len(S) \in Nat
    BY <1>7, LenProperties
  <2> QED
    BY <2>1, <1>4, <1>7, <1>8, <1>9, Joined
<1> QED
  BY <1>2, <1>3, <1>6, <1>9, <1>10

-----------------------------------------------------------------------------
(* What a step does to the pull requests: a worker pushes or hands in, one *)
(* is merged, or heads stay where they are and nothing lands.              *)

MildPR(new, old) ==
    /\ new.head = old.head /\ new.landed = old.landed /\ new.stray = old.stray
    /\ new.state = "merged" <=> old.state = "merged"

Mild == DOMAIN pr' = DOMAIN pr /\ \A t \in DOMAIN pr : MildPR(pr'[t], pr[t])

Lands(t) ==
    /\ t \in DOMAIN pr /\ pr[t].state = "open"
    /\ pr' = [pr EXCEPT ![t] = Merged(@)]
    /\ UNCHANGED task

\* Marks, comments, reviews, conflicts, closing and reopening.
LEMMA MildChanges ==
    ASSUME NEW p \in PullRequest
    PROVE  /\ MildPR(p, p)
           /\ \A x : /\ MildPR([p EXCEPT !.newer = x], p)
                     /\ MildPR([p EXCEPT !.clean = x], p)
                     /\ MildPR([p EXCEPT !.feedback = x], p)
           /\ \A marked : MildPR(Commented(p, marked), p)
           /\ \A decision, items : MildPR(Reviewed(p, decision, items), p)
           /\ \A state \in {"open", "closed"} : p.state # "merged" =>
                MildPR([p EXCEPT !.state = state], p)
           /\ \A posted : p.state # "merged" =>
                MildPR([ClosingComment(p, posted) EXCEPT !.state = "closed"], p)
  BY DEF MildPR, PullRequest, Commented, Reviewed, ClosingComment

\* One pull request changes mildly.
LEMMA OneMildPR ==
    ASSUME ForgeOK, NEW t \in DOMAIN pr, NEW p, MildPR(p, pr[t]), pr' = [pr EXCEPT ![t] = p]
    PROVE  Mild
<1>1. \A i \in DOMAIN pr : MildPR(pr[i], pr[i])
  BY DEF MildPR
<1> QED
  BY <1>1 DEF ForgeOK, SoundPRs, Mild

\* A write to the board.
LEMMA WritesAreMild ==
    ASSUME ForgeOK, BoardWrite
    PROVE  Mild
<1>1. \A i \in DOMAIN pr : /\ pr[i] \in PullRequest
                           /\ MildPR([pr[i] EXCEPT !.newer = @ \ {"row"}], pr[i])
                           /\ MildPR(pr[i], pr[i])
  BY MildChanges DEF ForgeOK, SoundPRs
<1> QED
  BY <1>1 DEF BoardWrite, Restamped, Mild

\* What a push does: it moves the head, and tells whether it is the assignee's.
LEMMA PushedPRs ==
    ASSUME LandInv, NEW t \in Id, NEW a \in Agent, Push(t, a)
    PROVE  /\ UNCHANGED task /\ working[a] = t
           /\ DOMAIN pr' = DOMAIN pr \cup {t}
           /\ \A i \in DOMAIN pr : i # t => pr'[i] = pr[i]
           /\ t \in DOMAIN pr =>
                /\ pr'[t].landed = pr[t].landed /\ pr'[t].state = pr[t].state
                /\ pr'[t].newer = pr[t].newer
           /\ t \notin DOMAIN pr => pr'[t].state = "open"
           /\ task[t].assignee # a => pr'[t].stray
<1> DEFINE stray == task[t].assignee # a
<1>1. ForgeOK /\ \A i \in DOMAIN pr : pr[i] \in PullRequest
  BY DEF LandInv, ForgeOK, SoundPRs
<1>2. UNCHANGED task /\ working[a] = t /\ pr' = Pushed(pr, t, stray) /\ stray \in BOOLEAN
  BY DEF Push, Works
<1> HIDE DEF stray
<1>3. CASE t \in DOMAIN pr
  <2> DEFINE p == [pr[t] EXCEPT !.head = 0, !.clean = TRUE, !.stray = pr[t].stray \/ stray]
  <2>1. pr' = [pr EXCEPT ![t] = p]
    BY <1>2, <1>3 DEF Pushed
  <2>2. /\ p.landed = pr[t].landed /\ p.state = pr[t].state /\ p.newer = pr[t].newer
        /\ p.stray = (pr[t].stray \/ stray) /\ pr[t].stray \in BOOLEAN
    BY <1>1, <1>3 DEF PullRequest
  <2> HIDE DEF p
  <2>3. stray => p.stray
    BY <2>2
  <2> QED
    BY <1>2, <1>3, <2>1, <2>2, <2>3 DEF stray
<1>4. CASE t \notin DOMAIN pr
  <2>1. pr' = [i \in DOMAIN pr \cup {t} |-> IF i = t THEN Opened(stray) ELSE pr[i]]
    BY <1>2, <1>4 DEF Pushed
  <2>2. Opened(stray).state = "open" /\ Opened(stray).stray = stray
    BY DEF Opened
  <2> QED
    BY <1>2, <1>4, <2>1, <2>2 DEF stray
<1> QED
  BY <1>3, <1>4

\* What handing in does: it names the round that the head is for.
LEMMA HandedInPRs ==
    ASSUME LandInv, NEW t \in Id, NEW a \in Agent, HandIn(t, a)
    PROVE  /\ t \in DOMAIN pr /\ DOMAIN pr' = DOMAIN pr
           /\ \A i \in DOMAIN pr : i # t => MildPR(pr'[i], pr[i])
           /\ \A i \in DOMAIN pr : i # t /\ task'[i] = task[i] => pr'[i] = pr[i]
           /\ pr'[t].head = task[t].round + 1
           /\ pr'[t].landed = pr[t].landed /\ pr'[t].state = pr[t].state
<1> DEFINE f == Restamped(pr)
           p == [f[t] EXCEPT !.head = task[t].round + 1, !.stray = FALSE]
<1>1. t \in DOMAIN pr /\ ForgeOK /\ \A i \in DOMAIN pr : pr[i] \in PullRequest
  BY DEF LandInv, ForgeOK, SoundPRs, HandIn
<1>2. /\ DOMAIN f = DOMAIN pr
      /\ \A i \in DOMAIN pr : f[i] \in PullRequest /\ MildPR(f[i], pr[i])
                            /\ (task'[i] = task[i] => f[i] = pr[i])
  <2>1. \A i \in DOMAIN pr : MildPR([pr[i] EXCEPT !.newer = @ \ {"row"}], pr[i])
    BY <1>1, MildChanges
  <2> QED
    BY <1>1, <2>1, MarkedPRs DEF Restamped, MildPR, Sound
<1>3. f[t].state = pr[t].state
  BY <1>1 DEF Restamped, PullRequest
<1>4. pr' = [f EXCEPT ![t] = p]
  BY DEF HandIn, WithHead
<1> HIDE DEF f
<1>5. p.head = task[t].round + 1 /\ p.landed = f[t].landed /\ p.state = f[t].state
  BY <1>1, <1>2 DEF PullRequest
<1> HIDE DEF p
<1> QED
  BY <1>1, <1>2, <1>3, <1>4, <1>5 DEF MildPR

\* What people do on GitHub.
LEMMA PersonChangesPRs ==
    ASSUME LandInv, PersonStep
    PROVE  Mild \/ \E t \in DOMAIN pr : Lands(t)
<1>1. PICK t \in DOMAIN pr :
        \/ \E decision \in {"pending", "changes_requested"} : Review(t, decision)
        \/ Comment(t) \/ MergeByHand(t) \/ CloseByHand(t) \/ Reopen(t) \/ Conflict(t)
  BY DEF PersonStep
<1>2. ForgeOK /\ pr[t] \in PullRequest
  BY DEF LandInv, ForgeOK, SoundPRs
<1>3. ASSUME NEW p, MildPR(p, pr[t]), pr' = [pr EXCEPT ![t] = p] PROVE Mild
  BY <1>2, <1>3, OneMildPR
<1>4. ASSUME NEW decision, Review(t, decision) PROVE Mild
  <2>1. PICK items \in {{}, {"thread"}} :
            pr' = [pr EXCEPT ![t] = Reviewed(pr[t], decision, items)]
    BY <1>4 DEF Review
  <2>2. MildPR(Reviewed(pr[t], decision, items), pr[t])
    BY <1>2, MildChanges
  <2> QED
    BY <1>3, <2>1, <2>2
<1>5. CASE Comment(t)
  <2>1. pr' = [pr EXCEPT ![t] = Commented(pr[t], FALSE)]
    BY <1>5 DEF Comment
  <2>2. MildPR(Commented(pr[t], FALSE), pr[t])
    BY <1>2, MildChanges
  <2> QED
    BY <1>3, <2>1, <2>2
<1>6. CASE MergeByHand(t)
  BY <1>6 DEF MergeByHand, IsOpen, Lands
<1>7. CASE CloseByHand(t) \/ Reopen(t)
  <2>1. PICK state \in {"open", "closed"} :
            pr[t].state # "merged" /\ pr' = [pr EXCEPT ![t].state = state]
    BY <1>7 DEF CloseByHand, ClosePR, Reopen, IsOpen
  <2>2. pr' = [pr EXCEPT ![t] = [pr[t] EXCEPT !.state = state]]
    BY <2>1
  <2>3. MildPR([pr[t] EXCEPT !.state = state], pr[t])
    BY <1>2, <2>1, MildChanges
  <2> QED
    BY <1>3, <2>2, <2>3
<1>8. CASE Conflict(t)
  <2>1. pr' = [pr EXCEPT ![t] = [pr[t] EXCEPT !.clean = FALSE]]
    BY <1>8 DEF Conflict
  <2>2. MildPR([pr[t] EXCEPT !.clean = FALSE], pr[t])
    BY <1>2, MildChanges
  <2> QED
    BY <1>3, <2>1, <2>2
<1> QED
  BY <1>1, <1>4, <1>5, <1>6, <1>7, <1>8

\* What the server does.
LEMMA WatchChangesPRs ==
    ASSUME LandInv, WatchStep
    PROVE  Mild
<1>1. ForgeOK /\ \A i \in DOMAIN pr : pr[i] \in PullRequest /\ MildPR(pr[i], pr[i])
  BY DEF LandInv, ForgeOK, SoundPRs, MildPR
<1>2. ASSUME NEW t \in DOMAIN pr, NEW p, MildPR(p, pr[t]), pr' = [pr EXCEPT ![t] = p]
      PROVE  Mild
  BY <1>1, <1>2, OneMildPR
<1>3. CASE UNCHANGED pr
  BY <1>1, <1>3 DEF Mild
<1>4. CASE BoardWrite
  BY <1>1, <1>4, WritesAreMild
<1>5. CASE ListApproved
  <2> DEFINE marks(t) == IF "row" \in pr[t].newer THEN pr[t].newer \cup {"listed"}
                         ELSE pr[t].newer \ {"listed"}
  <2>1. pr' = [t \in DOMAIN pr |-> [pr[t] EXCEPT !.newer = marks(t)]]
    BY <1>5 DEF ListApproved
  <2> HIDE DEF marks
  <2>2. \A t \in DOMAIN pr : MildPR([pr[t] EXCEPT !.newer = marks(t)], pr[t])
    BY <1>1, MildChanges
  <2> QED
    BY <2>1, <2>2 DEF Mild
<1>6. CASE BounceComment
  <2>1. looking.row \in DOMAIN pr
    BY <1>6 DEF BounceComment, LandInv, WatchOK
  <2>2. MildPR(Commented(pr[looking.row], TRUE), pr[looking.row])
    BY <1>1, <2>1, MildChanges
  <2>3. pr' = [pr EXCEPT ![looking.row] = Commented(pr[looking.row], TRUE)]
    BY <1>6 DEF BounceComment
  <2> QED
    BY <1>2, <2>1, <2>2, <2>3
<1>7. ASSUME NEW t \in Id, CloseSupersededPR(t) \/ CloseFails(t), ~UNCHANGED pr
      PROVE  Mild
  <2>1. t \in DOMAIN pr /\ pr[t].state # "merged"
    BY <1>7 DEF CloseSupersededPR, CloseFails, IsOpen
  <2>2. PICK p : /\ pr' = [pr EXCEPT ![t] = p]
                 /\ \/ \E posted \in BOOLEAN :
                        p = [ClosingComment(pr[t], posted) EXCEPT !.state = "closed"]
                    \/ p = Commented(pr[t], FALSE)
    <3>1. CASE CloseSupersededPR(t)
      BY <1>7, <3>1 DEF CloseSupersededPR
    <3>2. CASE CloseFails(t)
      BY <1>7, <3>2 DEF CloseFails, ClosingComment
    <3> QED
      BY <1>7, <3>1, <3>2
  <2>3. MildPR(p, pr[t])
    BY <1>1, <2>1, <2>2, MildChanges
  <2> QED
    BY <1>2, <2>1, <2>2, <2>3
<1> QED
  BY <1>3, <1>4, <1>5, <1>6, <1>7
     DEF WatchStep, PassGoesOn, LookAt, GetPRState, GetReviewDecision, ApplyMerged,
         ApplyAbandoned, ApplyBounce, Records, SkipRow, ServerRestarts, RetrofitLook, Supersede

\* What a merger does.
LEMMA MergerChangesPRs ==
    ASSUME LandInv, NEW a \in Agent, MergerStep(a)
    PROVE  Mild \/ \E t \in DOMAIN pr : Lands(t)
<1>1. ForgeOK /\ \A i \in DOMAIN pr : pr[i] \in PullRequest /\ MildPR(pr[i], pr[i])
  BY DEF LandInv, ForgeOK, SoundPRs, MildPR
<1>2. CASE UNCHANGED pr
  BY <1>1, <1>2 DEF Mild
<1>3. CASE BoardWrite
  BY <1>1, <1>3, WritesAreMild
<1>4. CASE (SquashMerge(a) \/ SquashMergeUnheard(a)) /\ ~UNCHANGED pr
  BY <1>4 DEF SquashMerge, SquashMergeUnheard, IsOpen, Lands
<1>5. CASE ConflictComment(a) /\ ~UNCHANGED pr
  <2>1. merger[a].at # "none" /\ merger[a].at # "read"
    BY <1>5 DEF ConflictComment
  <2>2. Parent(a) \in DOMAIN pr
    BY <2>1, RunningMerger
  <2>3. pr' = [pr EXCEPT ![Parent(a)] = Commented(pr[Parent(a)], FALSE)]
    BY <1>5 DEF ConflictComment
  <2>4. MildPR(Commented(pr[Parent(a)], FALSE), pr[Parent(a)])
    BY <1>1, <2>2, MildChanges
  <2> QED
    BY <1>1, <2>2, <2>3, <2>4, OneMildPR
<1> QED
  BY <1>2, <1>3, <1>4, <1>5
     DEF MergerStep, RunGoesOn, ClaimMerge, ReadRows, SquashMerge, SquashMergeUnheard,
         PRMergeability, ConflictComment, BounceParent, Moves, Retire, Closes, FinishParent,
         FinishRow, RunEnds

\* Every step.
LEMMA PRStep ==
    ASSUME LandInv, [LandingNext]_landingvars
    PROVE  \/ Mild
           \/ \E t \in Id, a \in Agent : Push(t, a) \/ HandIn(t, a)
           \/ \E t \in DOMAIN pr : Lands(t)
<1>1. ForgeOK /\ \A i \in DOMAIN pr : pr[i] \in PullRequest /\ MildPR(pr[i], pr[i])
  BY DEF LandInv, ForgeOK, SoundPRs, MildPR
<1>2. CASE UNCHANGED landingvars
  BY <1>1, <1>2 DEF Mild, landingvars
<1>3. CASE BoardStep
  BY <1>1, <1>3, WritesAreMild DEF BoardStep, BoardOnly
<1>4. CASE WorkerStep
  <2>1. ASSUME NEW t \in Id, NEW a \in Agent,
               SessionEnds(t, a) \/ \E model \in ModelName : StartWork(t, a, model)
        PROVE  Mild
    BY <1>1, <2>1, WritesAreMild DEF SessionEnds, StartWork, Mild
  <2>2. ASSUME NEW t \in Id, NEW a \in Agent, Acknowledge(t, a) PROVE Mild
    <3>1. PICK items : pr' = [pr EXCEPT ![t].feedback = items] /\ t \in DOMAIN pr
      BY <2>2 DEF Acknowledge
    <3>2. pr' = [pr EXCEPT ![t] = [pr[t] EXCEPT !.feedback = items]]
      BY <3>1
    <3>3. MildPR([pr[t] EXCEPT !.feedback = items], pr[t])
      BY <1>1, <3>1, MildChanges
    <3> QED
      BY <1>1, <3>1, <3>2, <3>3, OneMildPR
  <2> QED
    BY <1>4, <2>1, <2>2 DEF WorkerStep, Submit, SubmitUnchecked
<1> QED
  BY <1>2, <1>3, <1>4, PersonChangesPRs, WatchChangesPRs, MergerChangesPRs DEF LandingNext

-----------------------------------------------------------------------------
(* What reviewers see is what is on the branch.                            *)

\* A pull request belongs to an implement row; what its reviewers look at, or have
\* approved, is what was handed in to them, unless a session that is not the assignee's
\* has pushed since.
HeadsOK ==
    \A t \in DOMAIN pr :
        /\ task[t].kind = "implement"
        /\ task[t].state \in {"review", "approved"} => pr[t].head = task[t].round \/ pr[t].stray

\* A session that still works on a row under review, or approved, is not the one that
\* handed it in.
SessionsOver ==
    \A a \in Agent :
        working[a] # NoTask /\ task[working[a]].state \in {"review", "approved"} =>
            task[working[a]].assignee # a

\* Work under review, and through it, names its pull request.
LinksHeld ==
    \A t \in Id :
        task[t].kind = "implement" /\ task[t].state \in {"review", "approved", "done"} =>
            "pr" \in task[t].links

LandOrder == LandInv /\ Order(task, NoTask) /\ SessionsOver /\ HeadsOK /\ LinksHeld

LandingStep == [LandingNext]_landingvars /\ [OrderlyNext]_vars

\* What a step does to the board.
LEMMA OrderKept ==
    ASSUME LandInv, Order(task, NoTask), LandingStep
    PROVE  /\ Order(task', NoTask) /\ Kept(task', task)
           /\ \A i \in Id : Keeps(task'[i], task[i]) /\ i \in Rows(task)
           /\ Grows /\ LandInv'
<1>1. Orderly(task', task)
  BY StepIsOrderly DEF LandInv, LandingStep
<1>2. Grows
  BY StepGrows DEF LandingStep
<1>3. LandInv'
  <2>1. Inv' /\ ForgeOK'
    BY <1>2, BoardSteps, RowsStay, StepKeepsPRs
       DEF LandInv, LandingStep, PRsKept, Grows, Id, ForgeOK
  <2> QED
    BY <2>1, LinksStayOK, SessionsStayOK, MergersStayOK, WatchStaysOK DEF LandInv, LandingStep
<1> QED
  BY <1>1, <1>2, <1>3 DEF Orderly, Kept, Id, Rows

\* Work comes under review when it is handed in, and not otherwise.
LEMMA IntoReview ==
    ASSUME LandInv, Order(task, NoTask), LandingStep, NEW t \in Id,
           task[t].kind = "implement", task'[t].state \in {"review", "approved"}
    PROVE  /\ task'[t].assignee = task[t].assignee
           /\ \/ /\ task[t].state \in {"review", "approved"}
                 /\ task'[t].round = task[t].round
                 /\ \A a \in Agent : ~HandIn(t, a)
              \/ /\ task'[t].round = task[t].round + 1
                 /\ \E a \in Agent : HandIn(t, a)
<1>1. Keeps(task'[t], task[t]) /\ t \in Rows(task)
  BY OrderKept
<1>2. ThroughReview(task'[t], task[t]) /\ task'[t].assignee = task[t].assignee
  BY <1>1 DEF Keeps
<1>3. CASE task[t].state \in {"review", "approved"} /\ task'[t].round = task[t].round
  <2>1. \A a \in Agent : ~HandIn(t, a)
    BY <1>3 DEF HandIn, SubmitWork, InProgressBy
  <2> QED
    BY <1>2, <1>3, <2>1
<1>4. CASE task[t].state = "in_progress" /\ task'[t].round = task[t].round + 1
  <2>1. task[t].round \in Nat
    BY ThisRow DEF LandInv, Row
  <2>2. ~SameWork
    BY <1>1, <1>4, <2>1 DEF SameWork, SameRounds
  <2>3. PICK p \in Id, a \in Agent : HandIn(p, a)
    BY <2>2, HandInOrNot DEF LandingStep
  <2>4. p = t
    <3>1. OpensRound(task', task, p)
      BY <2>3, HandingIn
    <3> QED
      BY <3>1, <1>1, <1>4, <2>1 DEF OpensRound
  <2> QED
    BY <1>2, <1>4, <2>3, <2>4
<1> QED
  BY <1>2, <1>3, <1>4 DEF ThroughReview

\* The session that hands in a row is over; those that lost the row before may go on.
LEMMA SessionsStayOver ==
    ASSUME LandInv, Order(task, NoTask), LandingStep, SessionsOver
    PROVE  SessionsOver'
<1>1. Grows /\ SessionsOK /\ [LandingNext]_landingvars
  BY StepGrows DEF LandInv, LandingStep
<1> SUFFICES ASSUME NEW a \in Agent, NEW t, t = working'[a], t # NoTask,
                    task'[t].state \in {"review", "approved"}
             PROVE  task'[t].assignee # a
  BY DEF SessionsOver
<1>2. CASE working[a] = t
  <2>1. t \in Id /\ task[t].kind = "implement"
    BY <1>1, <1>2 DEF SessionsOK
  <2>2. CASE task[t].state \in {"review", "approved"} /\ task'[t].assignee = task[t].assignee
    BY <1>2, <2>2 DEF SessionsOver
  <2>3. ASSUME NEW b \in Agent, HandIn(t, b), task'[t].assignee = task[t].assignee
        PROVE  task'[t].assignee # a
    <3>1. working' = [working EXCEPT ![b] = NoTask] /\ task[t].assignee = b
      BY <2>3 DEF HandIn, SessionOver, SubmitWork, InProgressBy
    <3> QED
      BY <3>1, <2>3, <1>1 DEF SessionsOK
  <2> QED
    BY <2>1, <2>2, <2>3, IntoReview
<1>3. CASE working[a] # t
  <2>1. ASSUME NEW p \in Id, NEW b \in Agent, NEW model, StartWork(p, b, model) PROVE FALSE
    <3>1. b = a /\ p = t
      BY <2>1, <1>1, <1>3 DEF StartWork, SessionsOK
    <3>2. task[p] \in Row /\ p \in DOMAIN task
      BY ThisRow DEF LandInv, Inv, WellFormed, Id
    <3>3. task'[p].state = "in_progress"
      BY <2>1, <3>2 DEF StartWork, ClaimTask, Row
    <3> QED
      BY <3>1, <3>3
  <2>2. ASSUME NEW b \in Agent, working' = [working EXCEPT ![b] = NoTask] PROVE FALSE
    BY <2>2, <1>1, <1>3 DEF SessionsOK
  <2>3. CASE UNCHANGED working
    BY <2>3, <1>3
  <2> QED
    BY <1>1, <2>1, <2>2, <2>3
       DEF LandingNext, landingvars, BoardStep, BoardOnly, WorkerStep, Push, Acknowledge,
           Submit, SubmitUnchecked, HandIn, SessionEnds, SessionOver, PersonStep, Review,
           Comment, MergeByHand, CloseByHand, Reopen, Conflict, WatchStep
<1> QED
  BY <1>2, <1>3

\* A push to work that is under review or approved comes from a session that lost it.
LEMMA HeadsStayOK ==
    ASSUME LandInv, Order(task, NoTask), LandingStep, SessionsOver, HeadsOK
    PROVE  HeadsOK'
<1>1. Grows /\ DOMAIN pr \subseteq Id /\ ForgeOK /\ SessionsOK
  BY OrderKept DEF LandInv, ForgeOK
<1>2. ASSUME NEW t \in DOMAIN pr PROVE task'[t].kind = "implement"
  BY <1>1, <1>2 DEF HeadsOK, Grows
<1>3. ASSUME NEW t \in Id, NEW a \in Agent, Push(t, a)
      PROVE  /\ task[t].kind = "implement" /\ UNCHANGED task
             /\ task[t].state \in {"review", "approved"} => pr'[t].stray
  <2>1. /\ UNCHANGED task /\ working[a] = t
        /\ task[t].assignee # a => pr'[t].stray
    BY <1>3, PushedPRs
  <2>2. t # NoTask
    BY <1>1 DEF Grows, Id, NoTask
  <2> QED
    BY <1>1, <2>1, <2>2 DEF SessionsOK, SessionsOver
<1>4. ASSUME NEW t \in DOMAIN pr, task'[t].state \in {"review", "approved"}
      PROVE  pr'[t].head = task'[t].round \/ pr'[t].stray
  <2>1. t \in Id /\ task[t].kind = "implement"
    BY <1>1 DEF HeadsOK
  <2>2. ASSUME NEW a \in Agent, HandIn(t, a), task'[t].round = task[t].round + 1
        PROVE  pr'[t].head = task'[t].round
    BY <2>1, <2>2, HandedInPRs
  <2>3. CASE /\ task[t].state \in {"review", "approved"} /\ task'[t].round = task[t].round
             /\ \A a \in Agent : ~HandIn(t, a)
    <3>1. pr[t].head = task[t].round \/ pr[t].stray
      BY <2>3 DEF HeadsOK
    <3>2. CASE MildPR(pr'[t], pr[t])
      BY <2>3, <3>1, <3>2 DEF MildPR
    <3>3. ASSUME NEW p \in DOMAIN pr, Lands(p)
          PROVE  pr'[t].head = pr[t].head /\ pr'[t].stray = pr[t].stray
      <4>1. pr[p] \in PullRequest /\ pr' = [pr EXCEPT ![p] = Merged(pr[p])]
        BY <3>3, <1>1 DEF Lands, ForgeOK, SoundPRs
      <4>2. Merged(pr[p]).head = pr[p].head /\ Merged(pr[p]).stray = pr[p].stray
        BY <4>1 DEF Merged, PullRequest
      <4> QED
        BY <4>1, <4>2
    <3>4. ASSUME NEW p \in Id, NEW a \in Agent, Push(p, a)
          PROVE  pr'[t] = pr[t] \/ pr'[t].stray
      <4>1. \A i \in DOMAIN pr : i # p => pr'[i] = pr[i]
        BY <3>4, PushedPRs
      <4> QED
        BY <4>1, <2>3, <3>4, <1>3
    <3>5. ASSUME NEW p \in Id, NEW a \in Agent, HandIn(p, a) PROVE MildPR(pr'[t], pr[t])
      BY <2>3, <3>5, HandedInPRs
    <3> QED
      BY <2>3, <3>1, <3>2, <3>3, <3>4, <3>5, PRStep DEF LandingStep, Mild
  <2> QED
    BY <2>1, <2>2, <2>3, <1>4, IntoReview
<1>5. ASSUME NEW t \in DOMAIN pr', t \notin DOMAIN pr
      PROVE  /\ task'[t].kind = "implement"
             /\ task'[t].state \in {"review", "approved"} => pr'[t].stray
  <2>1. ASSUME NEW p \in Id, NEW a \in Agent, HandIn(p, a) PROVE FALSE
    BY <2>1, <1>5, HandedInPRs
  <2>2. PICK p \in Id, a \in Agent : Push(p, a)
    BY <1>5, <2>1, PRStep DEF LandingStep, Mild, Lands
  <2>3. DOMAIN pr' = DOMAIN pr \cup {p}
    BY <2>2, PushedPRs
  <2>4. t = p
    BY <2>3, <1>5
  <2> QED
    BY <2>2, <2>4, <1>3
<1> QED
  BY <1>2, <1>4, <1>5 DEF HeadsOK

\* Only a submission brings work under review, and links are only ever added.
LEMMA LinksStayHeld ==
    ASSUME LandInv, Order(task, NoTask), LandingStep, LinksHeld
    PROVE  LinksHeld'
<1>1. /\ \A i \in Id : Keeps(task'[i], task[i]) /\ i \in Rows(task)
      /\ Grows /\ \E p : MovesOnly(task', task, p)
  BY OrderKept DEF Kept
<1> SUFFICES ASSUME NEW t \in Id', task'[t].kind = "implement",
                    task'[t].state \in {"review", "approved", "done"}
             PROVE  "pr" \in task'[t].links
  BY DEF LinksHeld
<1>2. t \in Id /\ t \in Rows(task') /\ t \in Rows(task)
  BY <1>1 DEF MovesOnly, Id, Rows
<1>3. task[t].kind = "implement"
  BY <1>1, <1>2 DEF Grows
<1>4. CASE \E a \in Agent : HandIn(t, a)
  BY <1>2, <1>4, HandingIn
<1>5. CASE ~\E a \in Agent : HandIn(t, a)
  <2>1. task'[t].links = task[t].links /\ task'[t].round = task[t].round
    <3>1. CASE SameWork
      BY <3>1, <1>2 DEF SameWork, SameRounds, LinksKept
    <3>2. ASSUME NEW p \in Id, NEW a \in Agent, HandIn(p, a), p # t
          PROVE  task'[t].links = task[t].links /\ task'[t].round = task[t].round
      <4>1. OpensRound(task', task, p) /\ LinksKept(task', task, {p})
        BY <3>2, HandingIn
      <4> QED
        BY <4>1, <3>2, <1>2 DEF OpensRound, LinksKept
    <3> QED
      BY <3>1, <3>2, <1>5, HandInOrNot DEF LandingStep
  <2>2. task[t].round \in Nat
    BY <1>2, ThisRow DEF LandInv, Row
  <2>3. task[t].state \in {"review", "approved", "done"}
    BY <2>1, <2>2, <1>1, <1>2, <1>3 DEF Keeps, ThroughReview
  <2> QED
    BY <2>1, <2>3, <1>2, <1>3 DEF LinksHeld
<1> QED
  BY <1>4, <1>5

\* The invariant, as long as people are orderly.
LEMMA LandOrderStays ==
    ASSUME LandOrder, LandingStep
    PROVE  LandOrder'
  BY OrderKept, SessionsStayOver, HeadsStayOK, LinksStayHeld DEF LandOrder

\* As long as people are orderly on the board, and whatever they do on GitHub: work that
\* is under review, or approved, has the head that was handed in to its reviewers, or a
\* session that lost the row has pushed to it since.
THEOREM LandOrderInvariance == LandingSpec /\ [][OrderlyNext]_vars => []LandOrder
<1>1. LandingInit => LandOrder
  <2> SUFFICES ASSUME LandingInit
               PROVE  Order(task, NoTask) /\ SessionsOver /\ HeadsOK /\ LinksHeld /\ LandInv
    BY DEF LandOrder
  <2>1. task = <<>> /\ Len(task) = 0 /\ pr = <<>> /\ DOMAIN pr = {}
    BY EmptySeq DEF LandingInit, Init, ForgeInit
  <2>2. Id = {} /\ Rows(task) = {}
    BY <2>1 DEF Id, Rows
  <2>3. Inv /\ ForgeOK
    BY <2>1, <2>2, EmptySeq DEF Inv, WellFormed, Gate, ForgeOK, SoundPRs
  <2>4. MergersOK /\ WatchOK
    BY DEF LandingInit, MergerInit, MergersOK, RunOK, NoRun, Run, Call, NoTask, WatchInit,
           WatchOK, NoLook, Look
  <2>5. SessionsOK /\ SessionsOver
    BY DEF LandingInit, ForgeInit, SessionsOK, SessionsOver
  <2> QED
    BY <2>1, <2>2, <2>3, <2>4, <2>5 DEF Order, HeadsOK, LinksHeld, LandInv, LinksOK
<1>2. LandOrder /\ [LandingNext]_landingvars /\ [OrderlyNext]_vars => LandOrder'
  BY LandOrderStays DEF LandingStep
<1> QED
  BY <1>1, <1>2, PTL DEF LandingSpec

\* What is merged while the row is approved is what every reviewer approved, by whomever
\* it is merged, unless a session that lost the row has pushed since the work was handed
\* in.  The merge names no commit, and sessions are free to push: it is the end of the
\* session that hands in, and the board's refusal of every other one's submission, that
\* the argument rests on.
THEOREM ApprovedLands == LandingSpec /\ [][OrderlyNext]_vars => ApprovedHeadLands
<1> DEFINE A == \A t \in DOMAIN pr :
        task[t].state = "approved" /\ ~pr[t].stray =>
            \A head \in pr'[t].landed \ pr[t].landed :
                /\ RoundOf(t, head) # {}
                /\ \A r \in RoundOf(t, head) : task[r].verdict = "approve"
<1>1. LandOrder /\ [LandingNext]_landingvars => A
  <2> SUFFICES ASSUME LandOrder, [LandingNext]_landingvars, NEW t \in DOMAIN pr,
                      task[t].state = "approved", ~pr[t].stray,
                      NEW head \in pr'[t].landed \ pr[t].landed
               PROVE  /\ RoundOf(t, head) # {}
                      /\ \A r \in RoundOf(t, head) : task[r].verdict = "approve"
    OBVIOUS
  <2>1. LandInv /\ ForgeOK /\ t \in Id /\ \A i \in DOMAIN pr : pr[i] \in PullRequest
    BY DEF LandOrder, LandInv, ForgeOK, SoundPRs
  <2>2. Lands(t)
    <3>1. ~Mild
      BY DEF Mild, MildPR
    <3>2. ASSUME NEW p \in Id, NEW a \in Agent, Push(p, a) \/ HandIn(p, a)
          PROVE  pr'[t].landed = pr[t].landed
      BY <3>2, <2>1, PushedPRs, HandedInPRs DEF MildPR
    <3>3. ASSUME NEW p \in DOMAIN pr, Lands(p) PROVE p = t
      BY <3>3 DEF Lands
    <3> QED
      BY <3>1, <3>2, <3>3, <2>1, PRStep
  <2>3. head = pr[t].head
    <3>1. pr'[t] = Merged(pr[t])
      BY <2>2 DEF Lands
    <3> QED
      BY <3>1, <2>1 DEF Merged, PullRequest
  <2>4. pr[t].head = task[t].round /\ task[t].kind = "implement"
    BY DEF LandOrder, HeadsOK
  <2>5. /\ task[t].round > 0 /\ \E r \in Rows(task) : IsReviewOf(task, r, t)
        /\ \A r \in Rows(task) : IsReviewOf(task, r, t) => task[r].verdict = "approve"
    BY <2>1, <2>4, ThisRow DEF LandInv, Unanimous, IsAccepted, HasReviewer
  <2>6. \A r : r \in RoundOf(t, task[t].round) <=> r \in Rows(task) /\ IsReviewOf(task, r, t)
    BY DEF RoundOf, IsReviewOf, Id, Rows
  <2> QED
    BY <2>3, <2>4, <2>5, <2>6
<1> QED
  BY <1>1, LandOrderInvariance, PTL DEF LandingSpec, ApprovedHeadLands

-----------------------------------------------------------------------------
(* What is recorded as done has landed.                                    *)

\* Whoever is about to record a merge has seen it.
MergesKnown ==
    /\ \A a \in Agent : merger[a].at = "finish parent" => pr[Parent(a)].state = "merged"
    /\ looking.saw = "merged" => looking.row \in DOMAIN pr /\ pr[looking.row].state = "merged"
    /\ looking.action = "done" => looking.saw = "merged"

\* A merge is for good.
LEMMA MergedStays ==
    ASSUME LandInv, [LandingNext]_landingvars
    PROVE  \A t \in DOMAIN pr : pr[t].state = "merged" =>
                t \in DOMAIN pr' /\ pr'[t].state = "merged"
<1> SUFFICES ASSUME NEW t \in DOMAIN pr, pr[t].state = "merged"
             PROVE  t \in DOMAIN pr' /\ pr'[t].state = "merged"
  OBVIOUS
<1>1. ForgeOK /\ \A i \in DOMAIN pr : pr[i] \in PullRequest
  BY DEF LandInv, ForgeOK, SoundPRs
<1>2. CASE Mild
  BY <1>2 DEF Mild, MildPR
<1>3. ASSUME NEW p \in Id, NEW a \in Agent, Push(p, a) \/ HandIn(p, a)
      PROVE  t \in DOMAIN pr' /\ pr'[t].state = "merged"
  BY <1>3, PushedPRs, HandedInPRs DEF MildPR
<1>4. ASSUME NEW p \in DOMAIN pr, Lands(p)
      PROVE  t \in DOMAIN pr' /\ pr'[t].state = "merged"
  BY <1>4 DEF Lands
<1> QED
  BY <1>2, <1>3, <1>4, PRStep

\* A merger finishes the row of a pull request that it merged, or found merged.
LEMMA MergersKnow ==
    ASSUME LandInv, MergesKnown, [LandingNext]_landingvars, NEW a \in Agent,
           merger'[a].at = "finish parent"
    PROVE  pr'[Parent(a)'].state = "merged"
<1>1. LandInv /\ merger \in [Agent -> Run] /\ \A b \in Agent : merger[b] \in Run
  BY DEF LandInv, MergersOK
<1>2. Grows
  BY StepGrows
<1>3. CASE merger'[a] = merger[a]
  <2>1. Parent(a) \in DOMAIN pr /\ merger[a].row \in Id
    BY <1>1, <1>3, RunningMerger
  <2>2. Parent(a)' = Parent(a)
    BY <2>1, <1>2, <1>3 DEF Parent, Grows
  <2> QED
    BY <2>1, <2>2, <1>3, MergedStays DEF MergesKnown
<1>4. CASE merger'[a] # merger[a]
  <2>1. MergerStep(a)
    <3>1. PICK b \in Agent : MergerStep(b)
      BY <1>4 DEF LandingNext, landingvars, BoardStep, BoardOnly, WorkerStep, PersonStep,
                  OnGitHub, WatchStep
    <3>2. \E r : merger' = [merger EXCEPT ![b] = r]
      BY <3>1, <1>1 DEF MergerStep, RunGoesOn, ClaimMerge, ReadRows, SquashMerge,
         SquashMergeUnheard, PRMergeability, ConflictComment, BounceParent, Moves, Retire,
         Closes, FinishParent, FinishRow, RunEnds, Goes, Exits
    <3> QED
      BY <3>1, <3>2, <1>1, <1>4
  <2>2. SquashMerge(a)
    <3>1. ASSUME NEW call, Goes(a, call) PROVE call = "finish parent"
      BY <3>1, <1>1 DEF Goes, Run
    <3>2. ASSUME Exits(a) PROVE FALSE
      <4>1. merger'[a] = NoRun
        BY <3>2, <1>1 DEF Exits
      <4> QED
        BY <4>1 DEF NoRun
    <3>3. ASSUME NEW t \in Id, ClaimMerge(t, a) PROVE FALSE
      <4>1. merger'[a] = [at |-> "read", row |-> t]
        BY <3>3, <1>1 DEF ClaimMerge
      <4> QED
        BY <4>1
    <3>4. \A row : CallFor(row) # "finish parent"
      BY DEF CallFor
    <3>5. ~ReadRows(a)
      BY <3>1, <3>2, <3>4 DEF ReadRows
    <3> QED
      BY <2>1, <3>1, <3>2, <3>3, <3>5
         DEF MergerStep, RunGoesOn, SquashMergeUnheard, PRMergeability, ConflictComment,
             BounceParent, Moves, Retire, Closes, FinishParent, FinishRow, RunEnds
  <2>3. merger[a].at = "merge" /\ UNCHANGED task /\ \E call : Goes(a, call)
    BY <2>2 DEF SquashMerge
  <2>4. Parent(a)' = Parent(a) /\ Parent(a) \in DOMAIN pr
    <3>1. merger'[a].row = merger[a].row
      BY <2>3, <1>1 DEF Goes, Run
    <3> QED
      BY <2>3, <3>1, RunningMerger DEF Parent
  <2>5. \/ pr' = [pr EXCEPT ![Parent(a)] = Merged(pr[Parent(a)])]
        \/ pr' = pr /\ pr[Parent(a)].state = "merged"
    <3>1. ASSUME Goes(a, "mergeability") PROVE FALSE
      BY <3>1, <1>1 DEF Goes, Run
    <3> QED
      BY <2>2, <3>1 DEF SquashMerge, AlreadyMerged
  <2>6. pr[Parent(a)] \in PullRequest
    BY <2>4 DEF LandInv, ForgeOK, SoundPRs
  <2>7. Merged(pr[Parent(a)]).state = "merged"
    BY <2>6 DEF Merged, PullRequest
  <2> QED
    BY <2>4, <2>5, <2>7
<1> QED
  BY <1>3, <1>4

\* The reconciler records what it saw, and a merge that it saw is still one.
LEMMA WatchKnows ==
    ASSUME LandInv, MergesKnown, [LandingNext]_landingvars
    PROVE  /\ looking'.saw = "merged" =>
                looking'.row \in DOMAIN pr' /\ pr'[looking'.row].state = "merged"
           /\ looking'.action = "done" => looking'.saw = "merged"
<1> DEFINE Knows ==
        /\ looking'.saw = "merged" =>
                looking'.row \in DOMAIN pr' /\ pr'[looking'.row].state = "merged"
        /\ looking'.action = "done" => looking'.saw = "merged"
<1>1. /\ looking \in Look /\ WatchOK
      /\ looking.saw = "merged" => looking.row \in DOMAIN pr /\ pr[looking.row].state = "merged"
      /\ looking.action = "done" => looking.saw = "merged"
  BY DEF LandInv, WatchOK, MergesKnown
<1>2. \A t \in DOMAIN pr : pr[t].state = "merged" => t \in DOMAIN pr' /\ pr'[t].state = "merged"
  BY MergedStays
<1>3. CASE /\ looking'.row = looking.row /\ looking'.saw = looking.saw
           /\ looking'.action = looking.action
  BY <1>1, <1>2, <1>3
<1>4. CASE looking' = NoLook
  BY <1>4 DEF NoLook
<1>5. ASSUME NEW entry, LookAt(entry) PROVE Knows
  <2>1. looking'.saw = "none" /\ looking'.action = "noop"
    BY <1>5 DEF LookAt, NoLook
  <2> QED
    BY <2>1
<1>6. CASE GetPRState
  <2>1. /\ looking.at = "state" /\ UNCHANGED pr
        /\ looking' = [looking EXCEPT !.at = "decision", !.saw = pr[looking.row].state]
    BY <1>6 DEF GetPRState
  <2>2. /\ looking'.row = looking.row /\ looking'.saw = pr[looking.row].state
        /\ looking'.action = looking.action /\ looking.row \in DOMAIN pr
    BY <2>1, <1>1 DEF Look, WatchOK
  <2> QED
    BY <1>1, <2>1, <2>2
<1>7. CASE GetReviewDecision
  <2> DEFINE action == DecideAction(looking.saw, pr[looking.row])
  <2>1. /\ looking' = IF action = "noop" THEN NoLook
                      ELSE [looking EXCEPT !.at = "act", !.action = action]
        /\ UNCHANGED pr
    BY <1>7 DEF GetReviewDecision
  <2>2. action = "done" => looking.saw = "merged"
    BY DEF DecideAction
  <2> HIDE DEF action
  <2>3. \/ looking' = NoLook
        \/ /\ looking'.row = looking.row /\ looking'.saw = looking.saw
           /\ looking'.action = action
    BY <2>1, <1>1 DEF Look
  <2> QED
    BY <1>1, <1>4, <2>1, <2>2, <2>3
<1>8. CASE BounceComment
  <2>1. looking' = [looking EXCEPT !.at = "bounce"]
    BY <1>8 DEF BounceComment
  <2> QED
    BY <2>1, <1>1, <1>3 DEF Look
<1>9. CASE WatchStep
  BY <1>3, <1>4, <1>5, <1>6, <1>7, <1>8, <1>9
     DEF WatchStep, PassGoesOn, ListApproved, ApplyMerged, ApplyAbandoned, ApplyBounce, Records,
         SkipRow, ServerRestarts, RetrofitLook, Supersede, CloseSupersededPR, CloseFails
<1> QED
  BY <1>3, <1>9 DEF LandingNext, landingvars, watchvars, BoardStep, BoardOnly, WorkerStep,
                    OnGitHub, PersonStep

\* Work that is recorded as done has landed.
DoneLanded ==
    \A t \in Id : task[t].kind = "implement" /\ task[t].state = "done" =>
        t \in DOMAIN pr /\ pr[t].state = "merged"

\* A person who marks approved work as done on the board has its pull request merged.
PeopleRecordMerges ==
    BoardStep =>
        \A t \in DOMAIN pr : task[t].state = "approved" /\ task'[t].state = "done" =>
            pr[t].state = "merged"

\* Approved work that is marked as done by nobody on the board has landed.
LEMMA MarkedAsDone ==
    ASSUME LandOrder, MergesKnown, LandingStep, ~BoardStep,
           NEW t \in Id, task[t].kind = "implement", task[t].state = "approved",
           task'[t].state = "done"
    PROVE  t \in DOMAIN pr /\ pr[t].state = "merged"
<1>1. LandInv /\ Inv /\ LandingStep
  BY DEF LandOrder, LandInv
<1>2. ASSUME NEW p \in Id, NEW to, TransitionTask(p, to) PROVE p = t /\ to = "done"
  BY <1>1, <1>2, OneTransition
<1>3. CASE UNCHANGED task
  BY <1>3
<1>4. ASSUME NEW p \in Id, NEW a \in Agent, HandIn(p, a) PROVE FALSE
  <2>1. task'[p].state = "review" /\ task[p].kind = "implement" /\ task[p].state = "in_progress"
    BY <1>1, <1>4, HandingIn DEF HandIn, SubmitWork, InProgressBy
  <2>2. PICK only : MovesOnly(task', task, only)
    BY <1>1, OrderKept DEF LandOrder, Kept
  <2>3. p = only /\ t = only
    BY <2>1, <2>2 DEF MovesOnly, Id, Rows
  <2> QED
    BY <2>1, <2>3
<1>5. CASE WorkerStep
  <2>1. ASSUME NEW p \in Id, NEW a \in Agent, NEW model, StartWork(p, a, model) PROVE FALSE
    <3>1. task[p] \in Row /\ task \in Seq(Row)
      BY <1>1, ThisRow DEF Inv, WellFormed
    <3>2. task' = [task EXCEPT ![p] = [task[p] EXCEPT !.state = "in_progress", !.assignee = a, !.lease = "live"]]
      BY <2>1 DEF StartWork, ClaimTask
    <3>3. p # t => task'[t].state = task[t].state
      BY <3>1, <3>2 DEF Id
    <3>4. task'[p].state = "in_progress"
      BY <3>1, <3>2 DEF Id, Row
    <3> QED
      BY <3>3, <3>4
  <2> QED
    BY <1>3, <1>4, <1>5, <2>1
       DEF WorkerStep, Push, Acknowledge, Submit, SubmitUnchecked, SessionEnds
<1>6. CASE PersonStep
  BY <1>3, <1>6 DEF PersonStep, Review, Comment, MergeByHand, CloseByHand, Reopen, Conflict
<1>7. ASSUME NEW p \in Id, NEW model \in Models, SupersedeTask(p, model) PROVE FALSE
  <2>1. WellFormed(task) /\ p \in Rows(task) /\ model \in ModelName /\ "backlog" \in State
    BY <1>1 DEF Inv, Id, Rows, ModelName, State
  <2>2. task' = Supersession(task, p, model, "backlog")
    BY <1>7 DEF SupersedeTask
  <2>3. task'[p].state = "superseded" /\ \A i \in Rows(task) : i # p => task'[i].state = task[i].state
    BY <2>1, <2>2, SupersessionShape DEF InState, SameState
  <2> QED
    BY <2>3 DEF Id, Rows
<1>8. CASE WatchStep
  <2>1. looking.at # "none" => looking.row \in Id
    BY <1>1 DEF LandInv, WatchOK, ForgeOK
  <2>2. CASE ApplyMerged
    <3>1. looking.row = t /\ looking.action = "done"
      BY <1>2, <1>3, <2>1, <2>2 DEF ApplyMerged, Records
    <3> QED
      BY <3>1 DEF MergesKnown
  <2>3. CASE ApplyAbandoned \/ ApplyBounce
    BY <1>2, <1>3, <2>1, <2>3 DEF ApplyAbandoned, ApplyBounce, Records
  <2> QED
    BY <1>3, <1>7, <1>8, <2>2, <2>3
       DEF WatchStep, PassGoesOn, ListApproved, GetPRState, GetReviewDecision, BounceComment,
           LookAt, SkipRow, ServerRestarts, RetrofitLook, CloseSupersededPR, CloseFails, Supersede
<1>9. ASSUME NEW a \in Agent, MergerStep(a) PROVE t \in DOMAIN pr /\ pr[t].state = "merged"
  <2>1. merger[a].at # "none" => merger[a].row \in Id /\ task[merger[a].row].kind = "merge"
    BY <1>1, RunningMerger DEF LandInv, MergersOK, RunOK
  <2>2. merger[a].at \notin {"none", "read"} => Parent(a) \in Id /\ Parent(a) \in DOMAIN pr
    BY <1>1, RunningMerger
  <2>3. ASSUME NEW p \in Id, ClaimMerge(p, a) PROVE FALSE
    <3>1. task[p] \in Row /\ task \in Seq(Row) /\ task[p].kind = "merge"
      BY <1>1, <2>3, ThisRow DEF Inv, WellFormed, ClaimMerge
    <3>2. p # t /\ \E row : task' = [task EXCEPT ![p] = row]
      BY <2>3, <3>1 DEF ClaimMerge, ClaimTask
    <3>3. task'[t] = task[t]
      BY <3>1, <3>2 DEF Id
    <3> QED
      BY <3>3
  <2>4. CASE BounceParent(a)
    BY <1>2, <1>3, <2>2, <2>4 DEF BounceParent, Moves
  <2>5. CASE FinishParent(a)
    <3>1. merger[a].at = "finish parent"
      BY <2>5 DEF FinishParent
    <3>2. Parent(a) = t
      BY <1>2, <1>3, <2>2, <2>5, <3>1 DEF FinishParent, Moves
    <3> QED
      BY <3>1, <3>2, <2>2 DEF MergesKnown
  <2>6. CASE Retire(a) \/ FinishRow(a)
    BY <1>2, <1>3, <2>1, <2>6 DEF Retire, FinishRow, Closes
  <2> QED
    BY <1>3, <1>9, <2>3, <2>4, <2>5, <2>6
       DEF MergerStep, RunGoesOn, ReadRows, SquashMerge, SquashMergeUnheard, PRMergeability,
           ConflictComment, RunEnds
<1> QED
  BY <1>3, <1>5, <1>6, <1>8, <1>9 DEF LandingStep, LandingNext, landingvars

\* Work becomes done from approved, and has landed.
LEMMA NewlyDone ==
    ASSUME LandOrder, MergesKnown, LandingStep, [PeopleRecordMerges]_landingvars,
           NEW t \in Id, task[t].kind = "implement", task[t].state # "done",
           task'[t].state = "done"
    PROVE  task[t].state = "approved" /\ t \in DOMAIN pr /\ pr[t].state = "merged"
<1>1. Keeps(task'[t], task[t]) /\ LandInv
  BY OrderKept DEF LandOrder
<1>2. task[t].state = "approved" \/ (task[t].state = "review" /\ IsNoOp(task[t]))
  BY <1>1 DEF Keeps
<1>3. task[t].state = "approved" /\ t \in DOMAIN pr
  BY <1>1, <1>2 DEF LandOrder, LinksHeld, IsNoOp, LandInv, LinksOK
<1>4. CASE BoardStep /\ ~UNCHANGED landingvars
  BY <1>3, <1>4 DEF PeopleRecordMerges
<1>5. CASE UNCHANGED landingvars
  BY <1>5 DEF landingvars
<1> QED
  BY <1>3, <1>4, <1>5, MarkedAsDone

\* Merges are known, and what is done has landed.
LEMMA LandedStays ==
    ASSUME LandOrder, MergesKnown, DoneLanded, LandingStep, [PeopleRecordMerges]_landingvars
    PROVE  MergesKnown' /\ DoneLanded'
<1>1. /\ \A t \in DOMAIN pr : pr[t].state = "merged" =>
                t \in DOMAIN pr' /\ pr'[t].state = "merged"
      /\ LandInv /\ [LandingNext]_landingvars
  BY MergedStays DEF LandOrder, LandingStep
<1>2. MergesKnown'
  BY <1>1, MergersKnow, WatchKnows DEF MergesKnown
<1>3. ASSUME NEW t \in Id', task'[t].kind = "implement", task'[t].state = "done"
      PROVE  t \in DOMAIN pr' /\ pr'[t].state = "merged"
  <2>1. Grows /\ \E p : MovesOnly(task', task, p)
    BY OrderKept DEF LandOrder, Kept
  <2>2. t \in Id /\ task[t].kind = "implement"
    BY <2>1, <1>3 DEF MovesOnly, Grows, Id, Rows
  <2> QED
    BY <2>2, <1>1, <1>3, NewlyDone DEF DoneLanded
<1> QED
  BY <1>2, <1>3 DEF DoneLanded

\* Work that is done has landed: mergers and the reconciler record what they saw, and a
\* merge that was seen is not undone.
THEOREM DoneHasLanded ==
    LandingSpec /\ [][OrderlyNext]_vars /\ [][PeopleRecordMerges]_landingvars =>
        [](MergesKnown /\ DoneLanded)
<1>1. LandingInit => MergesKnown /\ DoneLanded
  <2> SUFFICES ASSUME LandingInit PROVE MergesKnown /\ DoneLanded
    OBVIOUS
  <2>1. Id = {}
    BY EmptySeq DEF LandingInit, Init, Id
  <2> QED
    BY <2>1 DEF LandingInit, MergerInit, WatchInit, NoRun, NoLook, MergesKnown, DoneLanded
<1>2. LandOrder /\ MergesKnown /\ DoneLanded /\ [LandingNext]_landingvars /\ [OrderlyNext]_vars
      /\ [PeopleRecordMerges]_landingvars => (MergesKnown /\ DoneLanded)'
  BY LandedStays DEF LandingStep
<1> QED
  BY <1>1, <1>2, LandOrderInvariance, PTL DEF LandingSpec

-----------------------------------------------------------------------------
(* The refinement.                                                         *)

Stages == [t \in Work |-> StageOf(t)]
Landed == {t \in DOMAIN pr : pr[t].state = "merged"}

\* Work is in one of the stages of Delivery, by its state.
LEMMA StageByState ==
    ASSUME NEW t \in Id, task[t].kind = "implement"
    PROVE  /\ StageOf(t) = "accepted" <=> task[t].state = "approved"
           /\ StageOf(t) = "delivered" <=> task[t].state = "done"
           /\ StageOf(t) = "dropped" <=> task[t].state \in {"failed", "abandoned"}
           /\ StageOf(t) \in D!Stage
  BY DEF StageOf, D!Stage

\* So is work after a step; and what is no work is being built.
LEMMA StageThen ==
    /\ \A t \in Id' : task'[t].kind = "implement" =>
        /\ StageOf(t)' = "accepted" <=> task'[t].state = "approved"
        /\ StageOf(t)' = "delivered" <=> task'[t].state = "done"
        /\ StageOf(t)' = "dropped" <=> task'[t].state \in {"failed", "abandoned"}
        /\ StageOf(t)' \in D!Stage
    /\ \A t : ~(t \in Id /\ task[t].kind = "implement") => StageOf(t) = "building"
    /\ \A t : ~(t \in Id' /\ task'[t].kind = "implement") => StageOf(t)' = "building"
  BY DEF StageOf, D!Stage

\* One row's stage changes at a time, as Delivery has it, and landing is recorded.
LEMMA StageStep ==
    ASSUME LandOrder, MergesKnown, LandingStep, [PeopleRecordMerges]_landingvars,
           NEW t \in Id, task[t].kind = "implement", StageOf(t)' # StageOf(t)
    PROVE  \/ StageOf(t) = "building" /\ StageOf(t)' = "accepted"
           \/ StageOf(t) = "accepted" /\ StageOf(t)' = "building"
           \/ StageOf(t) = "accepted" /\ StageOf(t)' = "delivered" /\ t \in Landed
           \/ StageOf(t) \in {"building", "accepted"} /\ StageOf(t)' = "dropped"
<1>1. Keeps(task'[t], task[t]) /\ Grows
  BY OrderKept DEF LandOrder
<1>2. t \in Id' /\ task'[t].kind = "implement"
  BY <1>1 DEF Grows, Id
<1>3. /\ StageOf(t) = "accepted" <=> task[t].state = "approved"
      /\ StageOf(t) = "delivered" <=> task[t].state = "done"
      /\ StageOf(t) = "dropped" <=> task[t].state \in {"failed", "abandoned"}
      /\ StageOf(t) \in D!Stage
  BY StageByState
<1>4. /\ StageOf(t)' = "accepted" <=> task'[t].state = "approved"
      /\ StageOf(t)' = "delivered" <=> task'[t].state = "done"
      /\ StageOf(t)' = "dropped" <=> task'[t].state \in {"failed", "abandoned"}
      /\ StageOf(t)' \in D!Stage
  BY <1>2, StageThen
<1>5. task[t].state \notin Final
  BY <1>1, <1>3, <1>4 DEF Keeps, Final, D!Stage
<1>6. task'[t].state = "done" => task[t].state = "approved" /\ t \in Landed
  BY <1>5, NewlyDone DEF Final, Landed
<1> QED
  BY <1>3, <1>4, <1>5, <1>6 DEF Final, D!Stage

\* Only work that is there changes its stage, and only one piece at a time.
LEMMA OneStage ==
    ASSUME LandOrder, LandingStep, NEW t, NEW p, StageOf(t)' # StageOf(t), StageOf(p)' # StageOf(p)
    PROVE  t = p /\ t \in Id /\ task[t].kind = "implement"
<1>1. Grows
  BY OrderKept DEF LandOrder
<1>2. PICK only : MovesOnly(task', task, only)
  BY OrderKept DEF LandOrder, Kept
<1>3. ASSUME NEW i, StageOf(i)' # StageOf(i)
      PROVE  i = only /\ i \in Id /\ task[i].kind = "implement"
  <2>1. CASE i \notin Id
    <3>1. StageOf(i) = "building"
      BY <2>1, StageThen
    <3>2. i \in Id' => task'[i].state \in {"backlog", "ready"}
      BY <2>1, <1>2 DEF MovesOnly, Id, Rows
    <3>3. StageOf(i)' = "building"
      BY <3>2 DEF StageOf
    <3> QED
      BY <3>1, <3>3, <1>3
  <2>2. CASE i \in Id
    <3>1. i \in Id' /\ task'[i].kind = task[i].kind
      BY <2>2, <1>1 DEF Grows, Id
    <3>2. task[i].kind = "implement"
      BY <2>2, <3>1, <1>3, StageThen
    <3>3. task'[i].state # task[i].state
      BY <2>2, <3>1, <3>2, <1>3 DEF StageOf
    <3> QED
      BY <2>2, <3>2, <3>3, <1>2 DEF MovesOnly, Id, Rows
  <2> QED
    BY <2>1, <2>2
<1> QED
  BY <1>3

\* A step of the whole is a step of Delivery, or none.
LEMMA LandingDelivers ==
    ASSUME LandOrder, MergesKnown, DoneLanded, LandingStep, [PeopleRecordMerges]_landingvars,
           DOMAIN pr \subseteq Work
    PROVE  D!Next \/ UNCHANGED <<Stages, Landed>>
<1>1. LandInv /\ ForgeOK /\ [LandingNext]_landingvars
  BY DEF LandOrder, LandInv, LandingStep
<1>2. Stages' = [t \in Work |-> StageOf(t)']
  BY DEF Stages
<1>3. CASE \E t \in DOMAIN pr : Lands(t)
  <2>1. PICK t \in DOMAIN pr : Lands(t)
    BY <1>3
  <2>2. UNCHANGED Stages
    BY <2>1 DEF Lands, Stages, StageOf, Id
  <2>3. Landed' = Landed \cup {t}
    <3>1. pr[t] \in PullRequest /\ pr' = [pr EXCEPT ![t] = Merged(pr[t])]
      BY <2>1, <1>1 DEF Lands, ForgeOK, SoundPRs
    <3>2. Merged(pr[t]).state = "merged"
      BY <3>1 DEF Merged, PullRequest
    <3> QED
      BY <3>1, <3>2 DEF Landed
  <2>4. StageOf(t) # "delivered"
    <3>1. t \in Id /\ task[t].kind = "implement" /\ pr[t].state = "open"
      BY <2>1, <1>1 DEF LandOrder, HeadsOK, ForgeOK, Lands
    <3>2. task[t].state # "done"
      BY <3>1 DEF DoneLanded
    <3> QED
      BY <3>1, <3>2, StageByState
  <2>5. Stages[t] # "delivered" /\ t \in Work
    BY <2>4 DEF Stages
  <2>6. D!Land(t)
    BY <2>2, <2>3, <2>5 DEF D!Land, Stages, Landed
  <2> QED
    BY <2>5, <2>6 DEF D!Next
<1>4. CASE Mild \/ \E t \in Id, a \in Agent : Push(t, a) \/ HandIn(t, a)
  <2>1. Landed' = Landed
    <3>1. CASE Mild
      BY <3>1 DEF Mild, MildPR, Landed
    <3>2. ASSUME NEW t \in Id, NEW a \in Agent, Push(t, a) PROVE Landed' = Landed
      <4>1. /\ DOMAIN pr' = DOMAIN pr \cup {t}
            /\ \A i \in DOMAIN pr : i # t => pr'[i] = pr[i]
            /\ t \in DOMAIN pr => pr'[t].state = pr[t].state
            /\ t \notin DOMAIN pr => pr'[t].state = "open"
        BY <1>1, <3>2, PushedPRs
      <4> QED
        BY <4>1 DEF Landed
    <3>3. ASSUME NEW t \in Id, NEW a \in Agent, HandIn(t, a) PROVE Landed' = Landed
      BY <1>1, <3>3, HandedInPRs DEF Landed, MildPR
    <3> QED
      BY <3>1, <3>2, <3>3, <1>4
  <2>2. CASE \A t \in Work : StageOf(t)' = StageOf(t)
    BY <2>1, <2>2, <1>2 DEF Stages
  <2>3. ASSUME NEW t \in Work, StageOf(t)' # StageOf(t) PROVE D!Next
    <3>1. /\ \A p \in Work : p # t => StageOf(p)' = StageOf(p)
          /\ t \in Id /\ task[t].kind = "implement"
      BY <2>3, OneStage
    <3>2. Stages' = [Stages EXCEPT ![t] = StageOf(t)'] /\ Stages[t] = StageOf(t)
      BY <3>1, <1>2 DEF Stages
    <3>3. D!Accept(t) \/ D!SendBack(t) \/ D!Deliver(t) \/ D!Drop(t)
      <4>1. CASE StageOf(t) = "building" /\ StageOf(t)' = "accepted"
        BY <4>1, <3>2, <2>1 DEF D!Accept, Stages, Landed
      <4>2. CASE StageOf(t) = "accepted" /\ StageOf(t)' = "building"
        BY <4>2, <3>2, <2>1 DEF D!SendBack, Stages, Landed
      <4>3. CASE StageOf(t) = "accepted" /\ StageOf(t)' = "delivered" /\ t \in Landed
        BY <4>3, <3>2, <2>1 DEF D!Deliver, Stages, Landed
      <4>4. CASE StageOf(t) \in {"building", "accepted"} /\ StageOf(t)' = "dropped"
        BY <4>4, <3>2, <2>1 DEF D!Drop, Stages, Landed
      <4> QED
        BY <4>1, <4>2, <4>3, <4>4, <3>1, <2>3, StageStep
    <3> QED
      BY <3>3 DEF D!Next
  <2> QED
    BY <2>1, <2>2, <2>3
<1> QED
  BY <1>3, <1>4, <1>1, PRStep

\* Landing implements Delivery: whatever mergers crash or overlap and whatever people do
\* to the pull requests, work is delivered once it was accepted and has landed, and that
\* is final.
THEOREM Delivers ==
    /\ LandingSpec /\ [][OrderlyNext]_vars /\ [][PeopleRecordMerges]_landingvars
    /\ [](DOMAIN pr \subseteq Work)
    => DeliversWhatLanded
<1>1. LandingInit => D!Init
  <2> SUFFICES ASSUME LandingInit PROVE D!Init
    OBVIOUS
  <2>1. Id = {} /\ DOMAIN pr = {}
    BY EmptySeq DEF LandingInit, Init, ForgeInit, Id
  <2> QED
    BY <2>1 DEF D!Init, StageOf
<1>2. LandOrder /\ MergesKnown /\ DoneLanded /\ DOMAIN pr \subseteq Work
      /\ [LandingNext]_landingvars /\ [OrderlyNext]_vars /\ [PeopleRecordMerges]_landingvars
      => [D!Next]_<<[t \in Work |-> StageOf(t)], {t \in DOMAIN pr : pr[t].state = "merged"}>>
  BY LandingDelivers DEF LandingStep, Stages, Landed
<1> QED
  BY <1>1, <1>2, LandOrderInvariance, DoneHasLanded, PTL
     DEF LandingSpec, DeliversWhatLanded, D!Spec

-----------------------------------------------------------------------------
(* PR-watch bounces a row once for a request.                              *)

\* Nobody puts a hold on approved work, nor takes one off it: that moves the row's
\* updated_at past a review which a pass under way has seen.
NoHoldOnApproved == \A t \in Id : task[t].state = "approved" => task'[t].held = task[t].held

\* The marks of a pull request stay, unless it is reviewed.
SameMarks(new, old) == new.newer \in {old.newer, {"row", "listed"}}

\* Comments, reviews, conflicts, merging, closing and reopening.
LEMMA MarkChanges ==
    ASSUME NEW p \in PullRequest
    PROVE  /\ SameMarks(p, p)
           /\ \A x : /\ SameMarks([p EXCEPT !.clean = x], p)
                     /\ SameMarks([p EXCEPT !.feedback = x], p)
                     /\ SameMarks([p EXCEPT !.state = x], p)
           /\ \A marked : SameMarks(Commented(p, marked), p)
           /\ \A decision, items : SameMarks(Reviewed(p, decision, items), p)
           /\ SameMarks(Merged(p), p)
           /\ \A posted :
                SameMarks([ClosingComment(p, posted) EXCEPT !.state = "closed"], p)
  BY DEF SameMarks, PullRequest, Commented, Reviewed, ClosingComment, Merged

\* The marks of a row that is not written stay, until a pass lists anew.
MarksStay ==
    \A t \in DOMAIN pr :
        t \in DOMAIN pr' /\ (task'[t] = task[t] => SameMarks(pr'[t], pr[t]))

\* One pull request changes.
LEMMA OneMarked ==
    ASSUME ForgeOK, NEW t \in DOMAIN pr, NEW p, SameMarks(p, pr[t]),
           pr' = [pr EXCEPT ![t] = p]
    PROVE  MarksStay
<1>1. \A i \in DOMAIN pr : SameMarks(pr[i], pr[i])
  BY DEF SameMarks
<1> QED
  BY <1>1 DEF ForgeOK, SoundPRs, MarksStay

\* Nothing changes, or the board is written.
LEMMA BoardMarks ==
    ASSUME ForgeOK, BoardWrite \/ UNCHANGED pr
    PROVE  MarksStay
  BY DEF ForgeOK, SoundPRs, BoardWrite, Restamped, MarksStay, SameMarks

\* What workers and people do.
LEMMA OutsideMarks ==
    ASSUME LandInv, WorkerStep \/ PersonStep
    PROVE  MarksStay
<1>1. ForgeOK /\ \A i \in DOMAIN pr : pr[i] \in PullRequest
  BY DEF LandInv, ForgeOK, SoundPRs
<1>2. ASSUME NEW t \in DOMAIN pr, NEW p, SameMarks(p, pr[t]), pr' = [pr EXCEPT ![t] = p]
      PROVE  MarksStay
  BY <1>1, <1>2, OneMarked
<1>3. ASSUME NEW t \in Id, NEW a \in Agent, Push(t, a) PROVE MarksStay
  BY <1>3, PushedPRs DEF MarksStay, SameMarks
<1>4. ASSUME NEW t \in Id, NEW a \in Agent, Acknowledge(t, a) PROVE MarksStay
  <2>1. PICK items : pr' = [pr EXCEPT ![t].feedback = items] /\ t \in DOMAIN pr
    BY <1>4 DEF Acknowledge
  <2>2. pr' = [pr EXCEPT ![t] = [pr[t] EXCEPT !.feedback = items]]
    BY <2>1
  <2>3. SameMarks([pr[t] EXCEPT !.feedback = items], pr[t])
    BY <2>1, <1>1, MarkChanges
  <2> QED
    BY <2>1, <2>2, <2>3, <1>2
<1>5. ASSUME NEW t \in Id, NEW a \in Agent, HandIn(t, a) PROVE MarksStay
  <2>1. task'[t].state = "review" /\ task[t].state = "in_progress"
    BY <1>5, HandingIn DEF HandIn, SubmitWork, InProgressBy
  <2> QED
    BY <1>5, <2>1, HandedInPRs DEF MarksStay, SameMarks
<1>13. ASSUME NEW t \in Id, NEW a \in Agent,
              SessionEnds(t, a) \/ \E model \in ModelName : StartWork(t, a, model)
       PROVE  MarksStay
  BY <1>1, <1>13, BoardMarks DEF SessionEnds, StartWork
<1>6. ASSUME NEW t \in DOMAIN pr, NEW decision, Review(t, decision) PROVE MarksStay
  <2>1. PICK items \in {{}, {"thread"}} :
            pr' = [pr EXCEPT ![t] = Reviewed(pr[t], decision, items)]
    BY <1>6 DEF Review
  <2>2. SameMarks(Reviewed(pr[t], decision, items), pr[t])
    BY <1>1, <1>6, MarkChanges
  <2> QED
    BY <1>6, <2>1, <2>2, <1>2
<1>7. ASSUME NEW t \in DOMAIN pr, Comment(t) PROVE MarksStay
  <2>1. pr' = [pr EXCEPT ![t] = Commented(pr[t], FALSE)]
    BY <1>7 DEF Comment
  <2>2. SameMarks(Commented(pr[t], FALSE), pr[t])
    BY <1>1, <1>7, MarkChanges
  <2> QED
    BY <1>7, <2>1, <2>2, <1>2
<1>8. ASSUME NEW t \in DOMAIN pr, MergeByHand(t) PROVE MarksStay
  <2>1. pr' = [pr EXCEPT ![t] = Merged(pr[t])]
    BY <1>8 DEF MergeByHand
  <2>2. SameMarks(Merged(pr[t]), pr[t])
    BY <1>1, <1>8, MarkChanges
  <2> QED
    BY <1>8, <2>1, <2>2, <1>2
<1>9. ASSUME NEW t \in DOMAIN pr, CloseByHand(t) \/ Reopen(t) PROVE MarksStay
  <2>1. PICK state : pr' = [pr EXCEPT ![t].state = state]
    BY <1>9 DEF CloseByHand, ClosePR, Reopen
  <2>2. pr' = [pr EXCEPT ![t] = [pr[t] EXCEPT !.state = state]]
    BY <2>1
  <2>3. SameMarks([pr[t] EXCEPT !.state = state], pr[t])
    BY <1>1, <1>9, MarkChanges
  <2> QED
    BY <1>9, <2>2, <2>3, <1>2
<1>10. ASSUME NEW t \in DOMAIN pr, Conflict(t) PROVE MarksStay
  <2>1. pr' = [pr EXCEPT ![t] = [pr[t] EXCEPT !.clean = FALSE]]
    BY <1>10 DEF Conflict
  <2>2. SameMarks([pr[t] EXCEPT !.clean = FALSE], pr[t])
    BY <1>1, <1>10, MarkChanges
  <2> QED
    BY <1>10, <2>1, <2>2, <1>2
<1>11. CASE WorkerStep
  BY <1>3, <1>4, <1>5, <1>11, <1>13 DEF WorkerStep, Submit, SubmitUnchecked
<1>12. CASE PersonStep
  BY <1>6, <1>7, <1>8, <1>9, <1>10, <1>12 DEF PersonStep
<1> QED
  BY <1>11, <1>12

\* What the server and the mergers do, but for listing.
LEMMA AgentMarks ==
    ASSUME LandInv, (WatchStep /\ ~ListApproved) \/ \E a \in Agent : MergerStep(a)
    PROVE  MarksStay
<1>1. ForgeOK /\ \A i \in DOMAIN pr : pr[i] \in PullRequest
  BY DEF LandInv, ForgeOK, SoundPRs
<1>2. ASSUME NEW t \in DOMAIN pr, NEW p, SameMarks(p, pr[t]), pr' = [pr EXCEPT ![t] = p]
      PROVE  MarksStay
  BY <1>1, <1>2, OneMarked
<1>3. CASE BoardWrite \/ UNCHANGED pr
  BY <1>1, <1>3, BoardMarks
<1>4. CASE BounceComment
  <2>1. looking.row \in DOMAIN pr
    BY <1>4 DEF BounceComment, LandInv, WatchOK
  <2>2. SameMarks(Commented(pr[looking.row], TRUE), pr[looking.row])
    BY <1>1, <2>1, MarkChanges
  <2>3. pr' = [pr EXCEPT ![looking.row] = Commented(pr[looking.row], TRUE)]
    BY <1>4 DEF BounceComment
  <2> QED
    BY <1>2, <2>1, <2>2, <2>3
<1>5. ASSUME NEW t \in Id, CloseSupersededPR(t) \/ CloseFails(t), ~UNCHANGED pr
      PROVE  MarksStay
  <2>1. t \in DOMAIN pr
    BY <1>5 DEF CloseSupersededPR, CloseFails, IsOpen
  <2>2. PICK p : /\ pr' = [pr EXCEPT ![t] = p]
                 /\ \/ \E posted \in BOOLEAN :
                        p = [ClosingComment(pr[t], posted) EXCEPT !.state = "closed"]
                    \/ p = Commented(pr[t], FALSE)
    <3>1. CASE CloseSupersededPR(t)
      BY <1>5, <3>1 DEF CloseSupersededPR
    <3>2. CASE CloseFails(t)
      BY <1>5, <3>2 DEF CloseFails, ClosingComment
    <3> QED
      BY <1>5, <3>1, <3>2
  <2>3. SameMarks(p, pr[t])
    BY <1>1, <2>1, <2>2, MarkChanges
  <2> QED
    BY <1>2, <2>1, <2>2, <2>3
<1>6. CASE WatchStep /\ ~ListApproved
  BY <1>3, <1>4, <1>5, <1>6
     DEF WatchStep, PassGoesOn, LookAt, GetPRState, GetReviewDecision, ApplyMerged,
         ApplyAbandoned, ApplyBounce, Records, SkipRow, ServerRestarts, RetrofitLook, Supersede
<1>7. ASSUME NEW a \in Agent, MergerStep(a) PROVE MarksStay
  <2>1. CASE (SquashMerge(a) \/ SquashMergeUnheard(a)) /\ ~UNCHANGED pr
    <3>1. Parent(a) \in DOMAIN pr /\ pr' = [pr EXCEPT ![Parent(a)] = Merged(pr[Parent(a)])]
      BY <2>1 DEF SquashMerge, SquashMergeUnheard, IsOpen
    <3>2. SameMarks(Merged(pr[Parent(a)]), pr[Parent(a)])
      BY <3>1, <1>1, MarkChanges
    <3> QED
      BY <3>1, <3>2, <1>2
  <2>2. CASE ConflictComment(a) /\ ~UNCHANGED pr
    <3>1. merger[a].at # "none" /\ merger[a].at # "read"
      BY <2>2 DEF ConflictComment
    <3>2. Parent(a) \in DOMAIN pr
      BY <3>1, RunningMerger
    <3>3. pr' = [pr EXCEPT ![Parent(a)] = Commented(pr[Parent(a)], FALSE)]
      BY <2>2 DEF ConflictComment
    <3>4. SameMarks(Commented(pr[Parent(a)], FALSE), pr[Parent(a)])
      BY <1>1, <3>2, MarkChanges
    <3> QED
      BY <3>2, <3>3, <3>4, <1>2
  <2> QED
    BY <1>3, <1>7, <2>1, <2>2
       DEF MergerStep, RunGoesOn, ClaimMerge, ReadRows, SquashMerge, SquashMergeUnheard,
           PRMergeability, ConflictComment, BounceParent, Moves, Retire, Closes, FinishParent,
           FinishRow, RunEnds
<1> QED
  BY <1>6, <1>7

\* Every step but listing.
LEMMA MarksStep ==
    ASSUME LandInv, [LandingNext]_landingvars, ~ListApproved
    PROVE  MarksStay
<1>1. ForgeOK
  BY DEF LandInv
<1>2. CASE UNCHANGED landingvars
  BY <1>1, <1>2, BoardMarks DEF landingvars
<1>3. CASE BoardStep
  BY <1>1, <1>3, BoardMarks DEF BoardStep, BoardOnly
<1> QED
  BY <1>2, <1>3, OutsideMarks, AgentMarks DEF LandingNext

\* A listed row is approved in the round of the list, or is past it; and while it stands
\* as it was listed a review later than the list is later than its last write.
Timely(t, round) ==
    /\ round <= task[t].round
    /\ round = task[t].round =>
        /\ task[t].state # "review"
        /\ task[t].state = "approved" /\ "listed" \in pr[t].newer => "row" \in pr[t].newer

PassTimely ==
    /\ \A entry \in listed : Timely(entry.row, entry.round)
    /\ looking.at # "none" => Timely(looking.row, looking.round)
    /\ looking.at = "bounce" => looking.action = "bounce"
    /\ looking.action = "bounce" /\ looking.at # "none"
            /\ looking.round = task[looking.row].round /\ task[looking.row].state = "approved"
       => "row" \in pr[looking.row].newer

\* Work that is approved in the round of the list was so before, and is still marked.
LEMMA StillAsListed ==
    ASSUME LandOrder, LandingStep, NoHoldOnApproved, MarksStay, NEW t \in DOMAIN pr,
           NEW round \in Nat, round <= task[t].round,
           round = task[t].round => task[t].state # "review"
    PROVE  /\ round <= task'[t].round
           /\ round = task'[t].round =>
                /\ task'[t].state # "review"
                /\ task'[t].state = "approved" =>
                    /\ round = task[t].round /\ task[t].state = "approved"
                    /\ SameMarks(pr'[t], pr[t])
<1>1. /\ LandInv /\ Order(task, NoTask) /\ t \in Id /\ t \in Rows(task)
      /\ task[t].kind = "implement" /\ task[t].round \in Nat
  BY ThisRow DEF LandOrder, LandInv, ForgeOK, HeadsOK, Row, Id, Rows
<1>2. Keeps(task'[t], task[t])
  BY <1>1, OrderKept
<1>3. task'[t].round \in {task[t].round, task[t].round + 1}
  <2>1. CASE SameWork
    BY <2>1, <1>1 DEF SameWork, SameRounds
  <2>2. ASSUME NEW p \in Id, NEW a \in Agent, HandIn(p, a)
        PROVE  task'[t].round \in {task[t].round, task[t].round + 1}
    <3>1. OpensRound(task', task, p)
      BY <2>2, <1>1, HandingIn
    <3> QED
      BY <3>1, <1>1 DEF OpensRound
  <2> QED
    BY <2>1, <2>2, <1>1, HandInOrNot DEF LandingStep
<1>4. round <= task'[t].round
  BY <1>1, <1>3
<1> SUFFICES ASSUME round = task'[t].round
             PROVE  /\ task'[t].state # "review"
                    /\ task'[t].state = "approved" =>
                        /\ round = task[t].round /\ task[t].state = "approved"
                        /\ SameMarks(pr'[t], pr[t])
  BY <1>4
<1>5. round = task[t].round /\ task'[t].round = task[t].round
  BY <1>1, <1>3
<1>6. task'[t].state \in {"review", "approved"} =>
        task[t].state = "approved" /\ task'[t].state = "approved"
  BY <1>1, <1>2, <1>5 DEF Keeps, ThroughReview
<1>7. task'[t].state = "approved" => task'[t] = task[t]
  BY <1>1, <1>2, <1>6 DEF Keeps, NoHoldOnApproved
<1> QED
  BY <1>5, <1>6, <1>7 DEF MarksStay

\* What a step but listing does to the pass.
LEMMA PassStep ==
    ASSUME LandInv, [LandingNext]_landingvars, ~ListApproved
    PROVE  /\ listed' \subseteq listed
           /\ \/ looking'.at = "none"
              \/ /\ looking.at # "none"
                 /\ looking'.row = looking.row /\ looking'.round = looking.round
                 /\ looking'.at = "bounce" => looking'.action = "bounce" \/ looking.at = "bounce"
                 /\ \/ looking'.action = looking.action
                    \/ /\ UNCHANGED <<task, pr>> /\ looking'.at = "act"
                       /\ looking'.action = "bounce" => "listed" \in pr[looking.row].newer
              \/ \E entry \in listed :
                    /\ UNCHANGED <<task, pr>> /\ looking'.at = "state"
                    /\ looking'.action = "noop"
                    /\ looking'.row = entry.row /\ looking'.round = entry.round
<1> DEFINE Going ==
              /\ looking.at # "none"
              /\ looking'.row = looking.row /\ looking'.round = looking.round
              /\ looking'.at = "bounce" => looking'.action = "bounce" \/ looking.at = "bounce"
              /\ \/ looking'.action = looking.action
                 \/ /\ UNCHANGED <<task, pr>> /\ looking'.at = "act"
                    /\ looking'.action = "bounce" => "listed" \in pr[looking.row].newer
<1>1. looking \in Look /\ NoLook.at = "none"
  BY DEF LandInv, WatchOK, NoLook
<1>2. CASE UNCHANGED <<listed, looking>>
  BY <1>2
<1>3. CASE looking' = NoLook /\ listed' \subseteq listed
  BY <1>1, <1>3
<1>4. ASSUME NEW entry \in listed, LookAt(entry)
      PROVE  /\ listed' \subseteq listed /\ UNCHANGED <<task, pr>>
             /\ looking'.at = "state" /\ looking'.action = "noop"
             /\ looking'.row = entry.row /\ looking'.round = entry.round
  BY <1>4 DEF LookAt, NoLook
<1>5. CASE GetPRState
  <2>1. /\ looking.at = "state" /\ UNCHANGED listed
        /\ looking' = [looking EXCEPT !.at = "decision", !.saw = pr[looking.row].state]
    BY <1>5 DEF GetPRState
  <2> QED
    BY <2>1, <1>1 DEF Look
<1>6. CASE GetReviewDecision
  <2> DEFINE action == DecideAction(looking.saw, pr[looking.row])
  <2>1. /\ looking.at = "decision" /\ UNCHANGED <<listed, task, pr>>
        /\ looking' = IF action = "noop" THEN NoLook
                      ELSE [looking EXCEPT !.at = "act", !.action = action]
    BY <1>6 DEF GetReviewDecision
  <2>2. action = "bounce" => "listed" \in pr[looking.row].newer
    BY DEF DecideAction
  <2> HIDE DEF action
  <2> QED
    BY <2>1, <2>2, <1>1 DEF Look
<1>7. CASE BounceComment
  <2>1. /\ looking.at = "act" /\ looking.action = "bounce" /\ UNCHANGED listed
        /\ looking' = [looking EXCEPT !.at = "bounce"]
    BY <1>7 DEF BounceComment
  <2> QED
    BY <2>1, <1>1 DEF Look
<1>8. CASE WatchStep
  <2>1. CASE \E entry \in listed : LookAt(entry)
    BY <2>1, <1>4
  <2>2. CASE ~\E entry \in listed : LookAt(entry)
    BY <1>2, <1>3, <1>5, <1>6, <1>7, <1>8, <2>2
       DEF WatchStep, PassGoesOn, ApplyMerged, ApplyAbandoned, ApplyBounce, Records, SkipRow,
           ServerRestarts, RetrofitLook, Supersede, CloseSupersededPR, CloseFails
  <2> QED
    BY <2>1, <2>2
<1> QED
  BY <1>2, <1>8 DEF LandingNext, landingvars, watchvars, BoardStep, BoardOnly, WorkerStep,
                    OnGitHub, PersonStep

\* A pass marks what it lists.
LEMMA ListingIsTimely ==
    ASSUME LandOrder, ListApproved
    PROVE  PassTimely'
<1>1. /\ looking' = NoLook /\ UNCHANGED task
      /\ listed' = {[row |-> t, round |-> task[t].round] : t \in {t \in Id : Watched(t)}}
  BY DEF ListApproved
<1>2. ASSUME NEW entry \in listed' PROVE Timely(entry.row, entry.round)'
  <2>1. PICK t \in Id : Watched(t) /\ entry = [row |-> t, round |-> task[t].round]
    BY <1>1
  <2>2. /\ t \in DOMAIN pr /\ task[t].state = "approved"
        /\ pr[t] \in PullRequest /\ task[t].round \in Nat
    BY <2>1, ThisRow DEF Watched, LandOrder, LandInv, ForgeOK, SoundPRs, Row
  <2> DEFINE marks == IF "row" \in pr[t].newer THEN pr[t].newer \cup {"listed"}
                      ELSE pr[t].newer \ {"listed"}
  <2>3. pr'[t] = [pr[t] EXCEPT !.newer = marks]
    BY <2>2 DEF ListApproved
  <2>4. "listed" \in marks => "row" \in marks
    OBVIOUS
  <2> HIDE DEF marks
  <2>5. pr'[t].newer = marks
    BY <2>2, <2>3 DEF PullRequest
  <2>6. entry.row = t /\ entry.round = task[t].round
    BY <2>1
  <2> QED
    BY <2>2, <2>4, <2>5, <2>6, <1>1 DEF Timely
<1>3. looking'.at = "none"
  BY <1>1 DEF NoLook
<1> QED
  BY <1>2, <1>3 DEF PassTimely

\* A pass stays timely, whatever happens between its calls.
LEMMA PassStaysTimely ==
    ASSUME LandOrder, LandingStep, NoHoldOnApproved, PassTimely
    PROVE  PassTimely'
<1>1. CASE ListApproved
  BY <1>1, ListingIsTimely
<1>2. CASE ~ListApproved
  <2>1. LandInv /\ MarksStay
    BY <1>2, MarksStep DEF LandOrder, LandingStep
  <2>2. /\ listed \subseteq [row : DOMAIN pr, round : Nat] /\ looking \in Look
        /\ looking.at # "none" => looking.row \in DOMAIN pr /\ looking.round \in Nat
    BY <2>1 DEF LandInv, WatchOK, Look
  <2>3. ASSUME NEW t \in DOMAIN pr, NEW round \in Nat, Timely(t, round)
        PROVE  Timely(t, round)'
    BY <2>1, <2>3, StillAsListed DEF Timely, SameMarks
  <2>4. ASSUME NEW entry \in listed' PROVE Timely(entry.row, entry.round)'
    <3>1. entry \in listed
      BY <1>2, <2>1, PassStep DEF LandingStep
    <3>2. entry.row \in DOMAIN pr /\ entry.round \in Nat /\ Timely(entry.row, entry.round)
      BY <3>1, <2>2 DEF PassTimely
    <3> QED
      BY <3>2, <2>3
  <2>5. CASE looking'.at = "none"
    BY <2>4, <2>5 DEF PassTimely
  <2>6. CASE /\ looking.at # "none"
             /\ looking'.row = looking.row /\ looking'.round = looking.round
             /\ looking'.at = "bounce" => looking'.action = "bounce" \/ looking.at = "bounce"
             /\ \/ looking'.action = looking.action
                \/ /\ UNCHANGED <<task, pr>> /\ looking'.at = "act"
                   /\ looking'.action = "bounce" => "listed" \in pr[looking.row].newer
    <3> DEFINE t == looking.row
               round == looking.round
    <3>1. t \in DOMAIN pr /\ round \in Nat /\ Timely(t, round)
      BY <2>2, <2>6 DEF PassTimely
    <3>2. Timely(looking.row, looking.round)'
      BY <3>1, <2>3, <2>6 DEF Timely
    <3>3. looking'.at = "bounce" => looking'.action = "bounce"
      BY <2>6 DEF PassTimely
    <3>4. ASSUME looking'.action = "bounce", looking'.round = task'[t].round,
                 task'[t].state = "approved"
          PROVE  "row" \in pr'[t].newer
      <4>1. CASE looking.action = "bounce"
        <5>1. /\ round = task[t].round /\ task[t].state = "approved"
              /\ SameMarks(pr'[t], pr[t])
          BY <3>1, <3>4, <2>1, <2>6, StillAsListed DEF Timely
        <5>2. "row" \in pr[t].newer
          BY <4>1, <5>1, <2>6 DEF PassTimely
        <5> QED
          BY <5>1, <5>2 DEF SameMarks
      <4>2. CASE looking.action # "bounce"
        <5>1. UNCHANGED <<task, pr>> /\ "listed" \in pr[t].newer
          BY <4>2, <3>4, <2>6
        <5> QED
          BY <5>1, <3>1, <3>4, <2>6 DEF Timely
      <4> QED
        BY <4>1, <4>2
    <3> QED
      BY <2>4, <2>6, <3>2, <3>3, <3>4 DEF PassTimely
  <2>7. ASSUME NEW entry \in listed, UNCHANGED <<task, pr>>, looking'.at = "state",
               looking'.action = "noop", looking'.row = entry.row,
               looking'.round = entry.round
        PROVE  PassTimely'
    <3>1. entry.row \in DOMAIN pr /\ entry.round \in Nat /\ Timely(entry.row, entry.round)
      BY <2>2, <2>7 DEF PassTimely
    <3>2. Timely(looking.row, looking.round)'
      BY <3>1, <2>3, <2>7 DEF Timely
    <3> QED
      BY <2>4, <2>7, <3>2 DEF PassTimely
  <2> QED
    BY <1>2, <2>1, <2>5, <2>6, <2>7, PassStep DEF LandingStep
<1> QED
  BY <1>1, <1>2

\* A person's request bounces approved work once, while nobody holds or releases it and
\* no round is cut short: whatever happens between the calls of a pass, the review that
\* PR-watch acts on is later than the approval.
THEOREM RequestsBounceOnce ==
    LandingSpec /\ [][OrderlyNext]_vars /\ [][NoHoldOnApproved]_vars => RequestBouncesOnce
<1> DEFINE A == \A t \in DOMAIN pr :
        /\ looking.at = "bounce" /\ looking.row = t
        /\ task[t].state = "approved" /\ task'[t].state = "ready"
        => "row" \in pr[t].newer \/ looking.round # task[t].round
<1>1. LandingInit => PassTimely
  BY DEF LandingInit, WatchInit, NoLook, PassTimely
<1>2. LandOrder /\ PassTimely /\ [LandingNext]_landingvars /\ [OrderlyNext]_vars
      /\ [NoHoldOnApproved]_vars => PassTimely'
  <2>1. UNCHANGED vars => NoHoldOnApproved
    BY DEF vars, NoHoldOnApproved
  <2> QED
    BY <2>1, PassStaysTimely DEF LandingStep
<1>3. PassTimely => A
  BY DEF PassTimely
<1> QED
  BY <1>1, <1>2, <1>3, LandOrderInvariance, PTL DEF LandingSpec, RequestBouncesOnce
=============================================================================

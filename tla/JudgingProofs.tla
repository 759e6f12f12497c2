---------------------------- MODULE JudgingProofs ----------------------------
(***************************************************************************)
(* Theorem: as long as people are orderly the task board implements Panel, *)
(* for every fleet, ladder, thresholds and planner.                        *)
(***************************************************************************)
EXTENDS Judging, TaskBoardOrder

-----------------------------------------------------------------------------
(* What makes a step of the board none of Panel's, or one of it.           *)

\* The case of a row, what its panel is and has said, does not change.
SameCase(U, T, w) ==
    /\ CurrentRound(U, w) = CurrentRound(T, w)
    /\ Unspoken(U, w) = Unspoken(T, w)
    /\ Opposing(U, w) = Opposing(T, w)

\* A change in which nobody hands work in or speaks.
Untold(U, T) ==
    /\ SameRounds(U, T)
    /\ \A i \in Rows(T) : T[i].kind = "review" =>
            U[i].verdict = T[i].verdict /\ (U[i].state = "done" <=> T[i].state = "done")

\* It leaves every case as it was.
LEMMA UntoldCases ==
    ASSUME NEW T, NEW U, WellFormed(T), WellFormed(U), Untold(U, T), NEW w
    PROVE  SameCase(U, T, w)
<1>1. /\ Len(T) \in Nat /\ Len(U) \in Nat /\ Rows(T) \subseteq Rows(U)
      /\ \A i \in Rows(T) : T[i].target \in 0..Len(T)
  BY LenProperties DEF WellFormed, Refers, Untold, SameRounds, Rows
<1>2. CASE w \in Rows(T)
  <2>1. (IsItem(U, w) <=> IsItem(T, w)) /\ U[w].round = T[w].round
    BY <1>1, <1>2 DEF Untold, SameRounds, IsItem, Rows
  <2>2. Bench(U, w) = Bench(T, w)
    <3>1. ASSUME NEW r \in Bench(U, w) PROVE r \in Rows(T)
      BY <1>2, <3>1 DEF Bench, Untold, SameRounds, Rows, NoTask
    <3> QED
      BY <1>1, <2>1, <3>1 DEF Bench, Untold, SameRounds, Rows
  <2>3. ASSUME NEW r \in Bench(T, w)
        PROVE  U[r].verdict = T[r].verdict /\ (U[r].state = "done" <=> T[r].state = "done")
    BY DEF Bench, Untold, Rows
  <2> QED
    BY <2>1, <2>2, <2>3 DEF SameCase, CurrentRound, Unspoken, Opposing
<1>3. CASE w \notin Rows(T)
  <2>1. ~IsItem(T, w) /\ Bench(T, w) = {}
    BY <1>3 DEF IsItem, Bench, Rows
  <2>2. Bench(U, w) = {}
    <3> SUFFICES ASSUME NEW r \in Bench(U, w) PROVE FALSE
      OBVIOUS
    <3>1. r \in Rows(U) /\ U[r].kind = "review" /\ U[r].target = w /\ w \in Rows(U)
      BY DEF Bench, IsItem, Rows
    <3>2. r \in Rows(T)
      BY <3>1 DEF Untold, SameRounds, Rows, NoTask
    <3>3. T[r].target = w
      BY <3>1, <3>2 DEF Untold, SameRounds
    <3> QED
      BY <3>1, <3>2, <3>3, <1>1, <1>3 DEF Rows
  <2>3. IsItem(U, w) => U[w].round = 0
    BY <1>3 DEF IsItem, Untold, SameRounds, Rows
  <2> QED
    BY <2>1, <2>2, <2>3 DEF SameCase, CurrentRound, Unspoken, Opposing
<1> QED
  BY <1>2, <1>3

\* So is a hold, if nobody puts it on or lifts it.
LEMMA UntoldHold ==
    ASSUME NEW T, NEW U, Rows(T) \subseteq Rows(U), NEW w,
           w \in Rows(T) => U[w].kind = T[w].kind /\ U[w].held = T[w].held,
           w \in Rows(U) /\ w \notin Rows(T) => ~U[w].held
    PROVE  IsHeld(U, w) = IsHeld(T, w)
  BY DEF IsHeld, IsItem, Rows

\* If no work but p moves, none but p's standing changes.
LEMMA UntoldStandings ==
    ASSUME NEW T, NEW U, Untold(U, T), NEW p, MovesOnly(U, T, p), NEW w, w # p
    PROVE  Standing(U, w) = Standing(T, w)
<1>1. CASE w \in Rows(T)
  BY <1>1 DEF Standing, IsItem, Untold, SameRounds, MovesOnly, Rows
<1>2. CASE w \notin Rows(T)
  <2>1. w \in Rows(U) => U[w].state \in {"backlog", "ready"}
    BY <1>2 DEF MovesOnly
  <2> QED
    BY <1>2, <2>1 DEF Standing, IsItem, Rows
<1> QED
  BY <1>1, <1>2

-----------------------------------------------------------------------------
(* The steps, as Panel has them.                                           *)

Standings == [t \in Item |-> Standing(task, t)]
Versions == [t \in Item |-> CurrentRound(task, t)]
Juries == [t \in Item |-> Unspoken(task, t)]
Against == [t \in Item |-> Opposing(task, t)]
HeldItems == [t \in Item |-> IsHeld(task, t)]

Views == <<Standings, Versions, Juries, Against, HeldItems>>

\* A step of Panel, or none.
Judged == J!Next \/ UNCHANGED Views

\* What a move to another standing takes.
MayMove(T, U, p) ==
    \/ /\ Standing(T, p) \in {"judged", "accepted"} /\ Standing(U, p) = "open"
       /\ Unspoken(T, p) = {}
    \/ Standing(T, p) \in {"open", "judged", "accepted"} /\ Standing(U, p) = "dropped"
    \/ Standing(T, p) = "accepted" /\ Standing(U, p) = "done"

\* People move one piece of work, or none.
LEMMA MovesAreJudged ==
    ASSUME \A w : SameCase(task', task, w) /\ IsHeld(task', w) = IsHeld(task, w),
           NEW p, \A w : w # p => Standing(task', w) = Standing(task, w),
           Standing(task', p) # Standing(task, p) => MayMove(task, task', p)
    PROVE  Judged
<1>1. UNCHANGED <<Versions, Juries, Against, HeldItems>>
  BY DEF SameCase, Versions, Juries, Against, HeldItems
<1>2. Standings' = [w \in Item |-> Standing(task', w)]
  BY DEF Standings
<1>3. CASE p \notin Item \/ Standing(task', p) = Standing(task, p)
  <2>1. UNCHANGED Standings
    BY <1>2, <1>3 DEF Standings
  <2> QED
    BY <1>1, <2>1 DEF Judged, Views
<1>4. CASE p \in Item /\ Standing(task', p) # Standing(task, p)
  <2>1. /\ Standings' = [Standings EXCEPT ![p] = Standing(task', p)]
        /\ Standings[p] = Standing(task, p) /\ Juries[p] = Unspoken(task, p)
    <3>1. \A w : w # p => Standing(task', w) = Standing(task, w)
      OBVIOUS
    <3>2. /\ Standings = [w \in Item |-> Standing(task, w)]
          /\ Juries = [w \in Item |-> Unspoken(task, w)]
      BY DEF Standings, Juries
    <3> QED
      BY <3>1, <3>2, <1>2, <1>4
  <2>2. J!TakeBack(p) \/ J!Drop(p) \/ J!Finish(p)
    <3>1. CASE Standing(task', p) = "open"
      BY <3>1, <2>1, <1>1, <1>4
         DEF MayMove, J!TakeBack, J!Move, J!panel, Standings, Versions, Juries, Against, HeldItems
    <3>2. CASE Standing(task', p) = "dropped"
      BY <3>2, <2>1, <1>1, <1>4
         DEF MayMove, J!Drop, J!Move, J!panel, Standings, Versions, Juries, Against, HeldItems
    <3>3. CASE Standing(task', p) = "done"
      BY <3>3, <2>1, <1>1, <1>4
         DEF MayMove, J!Finish, J!Move, J!panel, Standings, Versions, Juries, Against, HeldItems
    <3> QED
      BY <3>1, <3>2, <3>3, <1>4 DEF MayMove
  <2> QED
    BY <2>2, <1>4 DEF Judged, J!Next
<1> QED
  BY <1>3, <1>4

\* Somebody puts a hold on a piece of work, or lifts it.
LEMMA HoldsAreJudged ==
    ASSUME \A w : SameCase(task', task, w) /\ Standing(task', w) = Standing(task, w),
           NEW t, \A w : w # t => IsHeld(task', w) = IsHeld(task, w),
           \/ IsHeld(task', t) = TRUE
           \/ /\ IsHeld(task', t) = FALSE
              /\ Standing(task, t) = "judged" => Unspoken(task, t) # {}
    PROVE  Judged
<1>1. UNCHANGED <<Standings, Versions, Juries, Against>>
  BY DEF SameCase, Standings, Versions, Juries, Against
<1>2. HeldItems' = [w \in Item |-> IsHeld(task', w)]
  BY DEF HeldItems
<1>3. CASE t \notin Item
  <2>1. UNCHANGED HeldItems
    BY <1>2, <1>3 DEF HeldItems
  <2> QED
    BY <1>1, <2>1 DEF Judged, Views
<1>4. CASE t \in Item
  <2>1. /\ HeldItems' = [HeldItems EXCEPT ![t] = IsHeld(task', t)]
        /\ Standings[t] = Standing(task, t) /\ Juries[t] = Unspoken(task, t)
    BY <1>2, <1>4 DEF HeldItems, Standings, Juries
  <2>2. J!Hold(t) \/ J!Release(t)
    <3>1. CASE IsHeld(task', t) = TRUE
      BY <3>1, <2>1, <1>1
         DEF J!Hold, J!panel, Standings, Versions, Juries, Against, HeldItems
    <3>2. CASE IsHeld(task', t) = FALSE /\ (Standing(task, t) = "judged" => Unspoken(task, t) # {})
      BY <3>2, <2>1, <1>1
         DEF J!Release, J!panel, Standings, Versions, Juries, Against, HeldItems
    <3> QED
      BY <3>1, <3>2
  <2> QED
    BY <2>2, <1>4 DEF Judged, J!Next
<1> QED
  BY <1>3, <1>4

\* A version is handed in.
LEMMA HandingInIsJudged ==
    ASSUME NEW t, \A w : IsHeld(task', w) = IsHeld(task, w),
           \A w : w # t => SameCase(task', task, w) /\ Standing(task', w) = Standing(task, w),
           Standing(task, t) = "open", Standing(task', t) = "judged",
           CurrentRound(task', t) = CurrentRound(task, t) + 1,
           Unspoken(task', t) # {}, Unspoken(task', t) \subseteq Juror,
           Opposing(task', t) = {}
    PROVE  Judged
<1>1. /\ UNCHANGED HeldItems
      /\ Standings' = [w \in Item |-> Standing(task', w)]
      /\ Versions' = [w \in Item |-> CurrentRound(task', w)]
      /\ Juries' = [w \in Item |-> Unspoken(task', w)]
      /\ Against' = [w \in Item |-> Opposing(task', w)]
  BY DEF Standings, Versions, Juries, Against, HeldItems
<1>2. CASE t \notin Item
  <2>1. UNCHANGED <<Standings, Versions, Juries, Against>>
    BY <1>1, <1>2 DEF SameCase, Standings, Versions, Juries, Against
  <2> QED
    BY <1>1, <2>1 DEF Judged, Views
<1>3. CASE t \in Item
  <2>1. /\ Standings' = [Standings EXCEPT ![t] = "judged"] /\ Standings[t] = "open"
        /\ Versions' = [Versions EXCEPT ![t] = @ + 1]
        /\ Juries' = [Juries EXCEPT ![t] = Unspoken(task', t)]
        /\ Against' = [Against EXCEPT ![t] = {}]
    BY <1>1, <1>3 DEF SameCase, Standings, Versions, Juries, Against
  <2>2. Unspoken(task', t) \in (SUBSET Juror) \ {{}}
    OBVIOUS
  <2>3. J!HandIn(t)
    BY <2>1, <2>2, <1>1 DEF J!HandIn, J!Move, Standings, Versions, Juries, Against, HeldItems
  <2> QED
    BY <2>3, <1>3 DEF Judged, J!Next
<1> QED
  BY <1>2, <1>3

\* One of the panel of p speaks, and what becomes of p if nobody else has to.
LEMMA SpeakingIsJudged ==
    ASSUME NEW p, NEW j, \A w : IsHeld(task', w) = IsHeld(task, w),
           \A w : w # p => SameCase(task', task, w) /\ Standing(task', w) = Standing(task, w),
           CurrentRound(task', p) = CurrentRound(task, p),
           j \in Unspoken(task, p), Unspoken(task', p) = Unspoken(task, p) \ {j},
           NEW opposes \in SUBSET {j}, Opposing(task', p) = Opposing(task, p) \cup opposes,
           IF Standing(task, p) = "judged" /\ ~IsHeld(task, p) /\ Unspoken(task', p) = {}
           THEN Standing(task', p) \in J!Sentence(Opposing(task', p))
           ELSE Standing(task', p) = Standing(task, p)
    PROVE  Judged
<1>1. /\ UNCHANGED <<HeldItems, Versions>>
      /\ Standings' = [w \in Item |-> Standing(task', w)]
      /\ Juries' = [w \in Item |-> Unspoken(task', w)]
      /\ Against' = [w \in Item |-> Opposing(task', w)]
  BY DEF SameCase, Standings, Versions, Juries, Against, HeldItems
<1>2. CASE p \notin Item
  <2>1. UNCHANGED <<Standings, Juries, Against>>
    BY <1>1, <1>2 DEF SameCase, Standings, Juries, Against
  <2> QED
    BY <1>1, <2>1 DEF Judged, Views
<1>3. CASE p \in Item
  <2>1. /\ Standings' = [Standings EXCEPT ![p] = Standing(task', p)]
        /\ Juries' = [Juries EXCEPT ![p] = @ \ {j}]
        /\ Against' = [Against EXCEPT ![p] = @ \cup opposes]
        /\ Standings[p] = Standing(task, p) /\ Juries[p] = Unspoken(task, p)
        /\ Juries'[p] = Unspoken(task', p) /\ Against'[p] = Opposing(task', p)
        /\ HeldItems[p] = IsHeld(task, p)
    BY <1>1, <1>3 DEF SameCase, Standings, Juries, Against, HeldItems
  <2>2. CASE Standing(task, p) = "judged" /\ ~IsHeld(task, p) /\ Unspoken(task', p) = {}
    <3>1. \E to \in J!Sentence(Against'[p]) : Standings' = [Standings EXCEPT ![p] = to]
      BY <2>1, <2>2
    <3>2. J!Speak(p, j)
      BY <3>1, <2>1, <2>2, <1>1 DEF J!Speak, J!Move, Standings, Versions, Juries, Against, HeldItems
    <3> QED
      BY <3>2, <2>1, <1>3 DEF Judged, J!Next, Juries
  <2>3. CASE ~(Standing(task, p) = "judged" /\ ~IsHeld(task, p) /\ Unspoken(task', p) = {})
    <3>1. UNCHANGED Standings
      BY <2>3, <1>1 DEF Standings
    <3>2. J!Speak(p, j)
      BY <3>1, <2>1, <2>3, <1>1 DEF J!Speak, J!Move, Standings, Versions, Juries, Against, HeldItems
    <3> QED
      BY <3>2, <2>1, <1>3 DEF Judged, J!Next, Juries
  <2> QED
    BY <2>2, <2>3
<1> QED
  BY <1>2, <1>3

-----------------------------------------------------------------------------
(* The steps in which nobody hands work in, speaks, or touches a hold.     *)

\* Such a step takes work from reviewers that all have spoken only, and accepts none.
LEMMA OthersAreJudged ==
    ASSUME Inv, Inv', Order(task, NoTask), Orderly(task', task), Quiet(task', task),
           \A i \in Rows(task) :
                /\ task'[i].held = task[i].held
                /\ task'[i].kind = "review" /\ task'[i].state = "done" => task[i].state = "done",
           \A i \in Rows(task') : i \notin Rows(task) => ~task'[i].held
    PROVE  Judged
<1> DEFINE U == task'
<1>1. /\ WellFormed(task) /\ WellFormed(U) /\ SameRounds(U, task) /\ Order(U, NoTask)
      /\ Len(task) \in Nat /\ Len(U) \in Nat /\ Len(task) <= Len(U)
      /\ \A i \in Rows(task) : Calm(U[i], task[i]) /\ Keeps(U[i], task[i])
  BY QuietOpensNoRound, LenProperties DEF Inv, WellFormed, Orderly, Kept, Quiet
<1>2. /\ \A i \in Rows(task) : task[i] \in Row /\ U[i] \in Row
      /\ Rows(task) \subseteq Rows(U)
  BY <1>1, ElementOfSeq DEF WellFormed, Rows
<1>3. PICK p : MovesOnly(U, task, p)
  BY DEF Orderly, Kept
<1>4. Untold(U, task)
  BY <1>1 DEF Untold, Calm, SameReview, Keeps, Final
<1>5. \A w : SameCase(U, task, w)
  BY <1>1, <1>4, UntoldCases
<1>6. \A w : IsHeld(U, w) = IsHeld(task, w)
  BY <1>1, <1>2, UntoldHold DEF SameRounds
<1>7. \A w : w # p => Standing(U, w) = Standing(task, w)
  BY <1>3, <1>4, UntoldStandings
<1> HIDE DEF U
<1>8. ASSUME Standing(U, p) # Standing(task, p) PROVE MayMove(task, U, p)
  <2>1. p \in Rows(task) /\ IsItem(task, p) /\ IsItem(U, p)
    BY <1>1, <1>2, <1>3, <1>8 DEF Standing, IsItem, MovesOnly, SameRounds, Rows
  <2>2. /\ task[p].kind = "implement" /\ U[p].kind = "implement"
        /\ task[p].state \in State /\ U[p].state \in State
        /\ U[p].round = task[p].round /\ task[p].round \in Nat
    BY <1>1, <1>2, <2>1 DEF IsItem, Row, SameRounds
  <2>3. /\ task[p].state \notin Final
        /\ U[p].state \in {"approved", "done"} => task[p].state \in {"approved", "done"}
        /\ U[p].state = "review" => task[p].state = "review"
    <3>1. task[p].state \in Final => U[p].state = task[p].state
      BY <1>1, <2>1 DEF Keeps
    <3>2. U[p].state \in {"approved", "done"} => task[p].state \in {"approved", "done"}
      BY <1>1, <2>1, <2>2 DEF Calm, IsAccepted
    <3>3. U[p].state = "review" => ThroughReview(U[p], task[p])
      BY <1>1, <2>1, <2>2 DEF Keeps
    <3> QED
      BY <3>1, <3>2, <3>3, <1>8, <2>1, <2>2 DEF Standing, ThroughReview
  <2>4. U[p].state \notin {"review", "failed"} => Unspoken(task, p) = {}
    <3>1. ASSUME NEW r \in Unspoken(U, p) PROVE U[p].state \in {"review", "failed"}
      BY <1>1, <2>1 DEF Unspoken, Bench, IsItem, Order, Told, Pending, Rows
    <3> QED
      BY <3>1, <1>5 DEF SameCase
  <2> QED
    BY <1>8, <2>1, <2>2, <2>3, <2>4 DEF MayMove, Standing, State, Final
<1> QED
  BY <1>5, <1>6, <1>7, <1>8, MovesAreJudged DEF U

\* In one row, a reviewer's that has not spoken or any other's.
LEMMA OneRowIsJudged ==
    ASSUME Inv, Inv', Order(task, NoTask), Orderly(task', task), Quiet(task', task),
           NEW t \in Id, NEW row, task' = [task EXCEPT ![t] = row], row.held = task[t].held,
           row.kind = "review" /\ row.state = "done" => task[t].state = "done"
    PROVE  Judged
<1>1. /\ Rows(task') = Rows(task)
      /\ \A i \in Rows(task) : task'[i] = IF i = t THEN row ELSE task[i]
  BY LenProperties DEF Inv, WellFormed, Rows
<1> QED
  BY <1>1, OthersAreJudged

\* Promotion, claims, heartbeats, the clock, and transitions.
LEMMA RowStepsAreJudged ==
    ASSUME Inv, Order(task, NoTask), Orderly(task', task), NEW t \in Id,
           \/ PromoteTask(t) \/ LeaseLapses(t)
           \/ \E agent \in Agent :
                HeartbeatTask(t, agent) \/ \E model : ClaimTask(t, agent, model)
           \/ \E to \in State : TransitionTask(t, to)
    PROVE  Judged
<1>1. task[t] \in Row
  BY ThisRow
<1>2. ASSUME NEW row, task' = [task EXCEPT ![t] = row], Inv', Quiet(task', task),
             row.held = task[t].held, row.kind = "review" /\ row.state = "done" =>
                                            task[t].state = "done"
      PROVE  Judged
  BY <1>2, OneRowIsJudged
<1>3. CASE PromoteTask(t)
  <2> DEFINE row == [task[t] EXCEPT !.state = "ready"]
  <2>1. task' = [task EXCEPT ![t] = row] /\ Inv' /\ Quiet(task', task)
    BY <1>3, PromoteKeeps DEF PromoteTask
  <2>2. row.held = task[t].held /\ row.state # "done"
    BY <1>1 DEF Row
  <2> HIDE DEF row
  <2> QED
    BY <2>1, <2>2, <1>2
<1>4. ASSUME NEW lease \in Lease, task' = [task EXCEPT ![t].lease = lease] PROVE Judged
  <2> DEFINE row == [task[t] EXCEPT !.lease = lease]
  <2>1. task' = [task EXCEPT ![t] = row] /\ Inv' /\ Quiet(task', task)
    BY <1>4, LeaseKeeps
  <2>2. row.held = task[t].held /\ row.state = task[t].state
    BY <1>1 DEF Row
  <2> HIDE DEF row
  <2> QED
    BY <2>1, <2>2, <1>2
<1>5. ASSUME NEW agent \in Agent, NEW model, ClaimTask(t, agent, model) PROVE Judged
  <2> DEFINE row == [task[t] EXCEPT
                        !.state = "in_progress", !.assignee = agent, !.lease = "live"]
  <2>1. task' = [task EXCEPT ![t] = row] /\ Inv' /\ Quiet(task', task)
    BY <1>5, ClaimKeeps DEF ClaimTask
  <2>2. row.held = task[t].held /\ row.state # "done"
    BY <1>1 DEF Row
  <2> HIDE DEF row
  <2> QED
    BY <2>1, <2>2, <1>2
<1>6. ASSUME NEW to \in State, TransitionTask(t, to) PROVE Judged
  <2> DEFINE row == Moved(task[t], to)
  <2>1. task' = [task EXCEPT ![t] = row] /\ Inv' /\ Quiet(task', task)
    BY <1>6, TransitionKeeps DEF TransitionTask
  <2>2. row.held = task[t].held /\ row.state = to /\ row.kind = task[t].kind
    BY <1>1 DEF Moved, Row
  <2>3. to = "done" => task[t].state = "approved" \/ task[t].kind = "merge"
    BY <1>6 DEF TransitionTask, CanTransition
  <2>4. task[t].kind = "review" => task[t].state # "approved"
    BY OrderOfRow DEF NoReviewOfReview
  <2> HIDE DEF row
  <2> QED
    BY <2>1, <2>2, <2>3, <2>4, <1>2
<1>7. "live" \in Lease /\ "lapsed" \in Lease
  BY DEF Lease
<1> QED
  BY <1>3, <1>4, <1>5, <1>6, <1>7 DEF LeaseLapses, HeartbeatTask

\* A merge row is no work, and nobody of a panel.
LEMMA MergeIsJudged ==
    ASSUME Inv, Order(task, NoTask), Orderly(task', task), NEW t \in Id, NEW agent,
           NEW verdict \in Verdict, SubmitMerge(t, agent, verdict)
    PROVE  Judged
<1> DEFINE row == Submitted(task[t], "review", verdict, {})
<1>1. task' = [task EXCEPT ![t] = row] /\ Inv' /\ Quiet(task', task)
  BY MergeKeeps DEF SubmitMerge
<1>2. row.held = task[t].held /\ row.state # "done"
  BY ThisRow DEF Submitted, Row
<1> HIDE DEF row
<1> QED
  BY <1>1, <1>2, OneRowIsJudged

\* Planning adds open work, which nobody holds.
LEMMA CreationIsJudged ==
    ASSUME Inv, Order(task, NoTask), Orderly(task', task), NEW batch \in Batches,
           CreateTasks(batch)
    PROVE  Judged
<1> DEFINE S == [i \in 1..Len(batch) |-> PlannedRow(batch, batch[i])]
<1>1. task' = task \o S /\ BatchIsValid(batch)
  BY DEF CreateTasks
<1>2. /\ batch \in Seq(Input) /\ Len(batch) \in Nat
      /\ Len(task) \in Nat /\ WellFormed(task)
  BY BatchAssumption, LenProperties DEF Inv, WellFormed
<1>3. ASSUME NEW i \in 1..Len(batch)
      PROVE  S[i] \in Row /\ Refers(S[i], Len(task) + Len(batch)) /\ ~S[i].held
  <2>1. S[i] = PlannedRow(batch, batch[i])
    OBVIOUS
  <2>2. S[i] \in Row /\ Refers(S[i], Len(task) + Len(batch))
    BY <1>1, <1>2, <2>1, PlannedRowIsHarmless
  <2> QED
    BY <2>1, <2>2 DEF PlannedRow, NewRow
<1>4. S \in Seq(Row) /\ Len(S) = Len(batch) /\ Rows(S) = 1..Len(batch)
  <2>1. S \in [1..Len(batch) -> Row]
    BY <1>3
  <2> QED
    BY <2>1, <1>2, Tabulated
<1> HIDE DEF S
<1>5. /\ \A i \in Rows(task) : task'[i] = task[i]
      /\ \A i \in Rows(task') : i \notin Rows(task) =>
            i - Len(task) \in 1..Len(batch) /\ task'[i] = S[i - Len(task)]
  BY <1>1, <1>2, <1>3, <1>4, AddedRows
<1>6. \A i \in Rows(task') : i \notin Rows(task) => ~task'[i].held
  BY <1>3, <1>5
<1> QED
  BY <1>5, <1>6, CreateKeeps, OthersAreJudged

\* Supersession drops the work, and starts its heir's.
LEMMA SupersessionIsJudged ==
    ASSUME Inv, Order(task, NoTask), Orderly(task', task), NEW t \in Id, NEW model \in Models,
           SupersedeTask(t, model)
    PROVE  Judged
<1>1. task' = Supersession(task, t, model, "backlog") /\ model \in ModelName
  BY DEF SupersedeTask, ModelName
<1>2. t \in Rows(task) /\ WellFormed(task)
  BY DEF Id, Rows, Inv
<1>3. Handed(task', task, t)
  BY <1>1, <1>2, SupersessionHands
<1>4. /\ \A i \in Rows(task) :
            /\ task'[i].held = task[i].held
            /\ task'[i].state = "done" => task[i].state = "done"
      /\ \A i \in Rows(task') : i \notin Rows(task) => ~task'[i].held
  BY <1>3 DEF Handed
<1> QED
  BY <1>4, SupersedeKeeps, OthersAreJudged

\* Holds: a row in review is released to a panel that has yet to speak.
LEMMA LocksAreJudged ==
    ASSUME Inv, Order(task, NoTask), NEW t \in Id,
           HoldTask(t) \/ (ReleaseTask(t) /\ (task[t].kind = "implement"
                                  /\ task[t].state = "review" => AwaitsVerdict(t)))
    PROVE  Judged
<1>1. PICK held \in BOOLEAN :
        /\ task' = [task EXCEPT ![t].held = held]
        /\ ~held /\ task[t].kind = "implement" /\ task[t].state = "review" => AwaitsVerdict(t)
  BY DEF HoldTask, ReleaseTask
<1> DEFINE row == [task[t] EXCEPT !.held = held]
<1>2. task' = [task EXCEPT ![t] = row]
  BY <1>1
<1>3. /\ row.kind = task[t].kind /\ row.target = task[t].target /\ row.round = task[t].round
      /\ row.state = task[t].state /\ row.verdict = task[t].verdict
      /\ row.reviewers = task[t].reviewers /\ row.held = held
  BY ThisRow DEF Row
<1> HIDE DEF row
<1>4. /\ Rows(task') = Rows(task) /\ Len(task') = Len(task) /\ t \in Rows(task)
      /\ Len(task) \in Nat /\ WellFormed(task) /\ WellFormed(task')
      /\ \A i \in Rows(task) : task'[i] = IF i = t THEN row ELSE task[i]
  BY <1>2, HoldKeeps, LenProperties DEF Inv, WellFormed, Rows, Id
<1>5. Untold(task', task)
  BY <1>3, <1>4 DEF Untold, SameRounds
<1>6. \A w : SameCase(task', task, w)
  BY <1>4, <1>5, UntoldCases
<1>7. \A w : Standing(task', w) = Standing(task, w)
  BY <1>3, <1>4 DEF Standing, IsItem, Rows
<1>8. \A w : w # t => IsHeld(task', w) = IsHeld(task, w)
  BY <1>4 DEF IsHeld, IsItem, Rows
<1>9. IsHeld(task', t) = TRUE \/ IsHeld(task', t) = FALSE
  <2>1. IsItem(task', t) => task'[t].held \in BOOLEAN
    BY <1>3, <1>4
  <2> QED
    BY <2>1 DEF IsHeld, IsItem
<1>10. ASSUME IsHeld(task', t) = FALSE, Standing(task, t) = "judged"
       PROVE  Unspoken(task, t) # {}
  <2>1. task[t].kind = "implement" /\ task[t].state = "review" /\ IsItem(task, t) /\ ~held
    BY <1>3, <1>4, <1>10 DEF Standing, IsItem, IsHeld, Rows
  <2>2. PICK r \in Id : Pending(task, r, t)
    BY <2>1, <1>1 DEF AwaitsVerdict, Pending
  <2>3. task[r].round = task[t].round
    BY <2>2, OrderOfRow DEF Id, Rows
  <2>4. r \in Unspoken(task, t)
    BY <2>1, <2>2, <2>3 DEF Unspoken, Bench, Pending, Id
  <2> QED
    BY <2>4
<1> QED
  BY <1>6, <1>7, <1>8, <1>9, <1>10, HoldsAreJudged

-----------------------------------------------------------------------------
(* The steps in which work is handed in, and in which a reviewer speaks.   *)

\* Row by row, what a submission of work does.
LEMMA WorkShape ==
    ASSUME Inv, NEW t \in Id, NEW agent, NEW links \in Submissions,
           SubmitWork(t, agent, links)
    PROVE  /\ task[t].state = "in_progress" /\ task[t].kind = "implement"
           /\ task'[t].state = "review" /\ task'[t].held = task[t].held
           /\ \A i \in Rows(task) : i # t => task'[i] = task[i]
           /\ \A i \in Rows(task') : i \notin Rows(task) =>
                task'[i].state = "ready" /\ ~task'[i].held
<1> DEFINE n == Len(task)
           round == task[t].round + 1
           reviewers == ReviewersOf(task[t])
           row == Reworked(task[t], links, round)
           V == [task EXCEPT ![t] = row]
           S == [i \in 1..Len(reviewers) |-> ReviewRow(reviewers[i], round, t)]
<1>1. task' = V \o S /\ task[t].kind = "implement" /\ task[t].state = "in_progress"
  BY DEF SubmitWork, InProgressBy
<1>2. /\ t \in Rows(task) /\ n \in Nat /\ task[t] \in Row /\ Refers(task[t], n)
      /\ t \in 1..n /\ WellFormed(task) /\ Aimed(task, t)
  BY ThisRow DEF Inv, Rows
<1>3. task[t].target = NoTask /\ round \in Nat
  BY <1>1, <1>2 DEF Aimed, Row
<1>4. row \in Row /\ Refers(row, n) /\ row.state = "review" /\ row.held = task[t].held
  <2>1. row.held = task[t].held
    BY <1>2 DEF Reworked, Submitted, Row
  <2> QED
    BY <1>1, <1>2, <1>3, <2>1, ReworkedRow
<1>5. reviewers \in Seq(ModelName) /\ Len(reviewers) \in Nat
  BY <1>2, SomeReviewer
<1>6. ASSUME NEW i \in 1..Len(reviewers)
      PROVE  /\ S[i] \in Row /\ Refers(S[i], n + Len(reviewers))
             /\ S[i].state = "ready" /\ ~S[i].held
  <2>1. S[i] = ReviewRow(reviewers[i], round, t)
    OBVIOUS
  <2>2. reviewers[i] \in ModelName
    BY <1>5, ElementOfSeq
  <2>3. t \in Nat /\ n + Len(reviewers) \in Nat /\ t <= n + Len(reviewers)
    BY <1>2, <1>5
  <2>4. S[i].state = "ready" /\ ~S[i].held
    BY <2>1 DEF ReviewRow, NewRow
  <2> HIDE DEF S, round, reviewers
  <2> QED
    BY <1>3, <2>1, <2>2, <2>3, <2>4, ReviewRowIsFresh
<1>7. S \in Seq(Row) /\ Len(S) = Len(reviewers) /\ Rows(S) = 1..Len(reviewers)
  <2>1. S \in [1..Len(reviewers) -> Row]
    BY <1>6
  <2> QED
    BY <2>1, <1>5, Tabulated
<1>8. /\ WellFormed(V) /\ Len(V) = n /\ Rows(V) = Rows(task)
      /\ \A i \in Rows(task) : V[i] = IF i = t THEN row ELSE task[i]
  BY <1>2, <1>4, UpdatedRow DEF Rows
<1> HIDE DEF row, V, S, reviewers, round
<1>9. /\ \A i \in Rows(V) : task'[i] = V[i]
      /\ \A i \in Rows(task') : i \notin Rows(V) =>
            i - Len(V) \in Rows(S) /\ task'[i] = S[i - Len(V)]
  <2>1. \A i \in Rows(S) : Refers(S[i], Len(V) + Len(S))
    BY <1>6, <1>7, <1>8
  <2> QED
    BY <1>1, <1>7, <1>8, <2>1, AddedRows
<1>10. \A i \in Rows(task) : task'[i] = IF i = t THEN row ELSE task[i]
  BY <1>8, <1>9
<1>11. \A i \in Rows(task') : i \notin Rows(task) => task'[i].state = "ready" /\ ~task'[i].held
  BY <1>6, <1>7, <1>8, <1>9
<1> QED
  BY <1>1, <1>2, <1>4, <1>10, <1>11

\* A submission of work: the panel of the new version is of the rows it adds.
LEMMA WorkIsJudged ==
    ASSUME Inv, NEW t \in Id, NEW agent, NEW links \in Submissions,
           SubmitWork(t, agent, links), Rows(task') \subseteq Juror
    PROVE  Judged
<1> DEFINE U == task'
<1>1. /\ task[t].state = "in_progress" /\ task[t].kind = "implement"
      /\ U[t].state = "review" /\ U[t].held = task[t].held
      /\ \A i \in Rows(task) : i # t => U[i] = task[i]
      /\ \A i \in Rows(U) : i \notin Rows(task) => U[i].state = "ready" /\ ~U[i].held
  BY WorkShape
<1>2. OpensRound(U, task, t)
  BY WorkKeeps
<1> HIDE DEF U
<1>3. /\ Len(task) \in Nat /\ Len(U) \in Nat /\ Len(task) + 1 <= Len(U) /\ t \in Rows(task)
  BY <1>2, ThisRow, SomeReviewer DEF OpensRound
<1>4. Rows(task) \subseteq Rows(U) /\ Len(task) + 1 \in Rows(U) /\ Len(task) + 1 \notin Rows(task)
  BY <1>3 DEF Rows
<1>5. /\ U[t].kind = "implement" /\ U[t].round = task[t].round + 1 /\ task[t].round \in Nat
      /\ \A i \in Rows(U) : i \notin Rows(task) =>
            U[i].kind = "review" /\ U[i].target = t /\ U[i].round = U[t].round
  BY <1>1, <1>2, <1>3, ThisRow DEF OpensRound, Row
<1>6. ASSUME NEW r \in Rows(task), task[r].kind = "review", task[r].target = t
      PROVE  task[r].round # U[t].round
  <2>1. Aimed(task, r) /\ task[r] \in Row /\ t # NoTask
    BY <1>3, ElementOfSeq DEF Inv, WellFormed, Gate, Rows, NoTask
  <2> QED
    BY <1>5, <1>6, <2>1 DEF Aimed, Row
<1>7. \A w : IsHeld(U, w) = IsHeld(task, w)
  BY <1>1, <1>4, <1>5, UntoldHold
<1>8. ASSUME NEW w, w # t PROVE SameCase(U, task, w) /\ Standing(U, w) = Standing(task, w)
  <2>1. CASE w \in Rows(task)
    <3>1. U[w] = task[w] /\ w \in Rows(U)
      BY <1>1, <1>4, <1>8, <2>1
    <3>2. Bench(U, w) = Bench(task, w)
      BY <3>1, <2>1, <1>1, <1>4, <1>5, <1>8 DEF Bench, IsItem, Rows
    <3>3. \A r \in Bench(task, w) : U[r] = task[r]
      BY <1>1 DEF Bench, Rows
    <3> QED
      BY <3>1, <3>2, <3>3, <2>1
         DEF SameCase, CurrentRound, Unspoken, Opposing, Standing, IsItem, Rows
  <2>2. CASE w \notin Rows(task)
    <3>1. ~IsItem(U, w) /\ ~IsItem(task, w)
      BY <2>2, <1>5 DEF IsItem, Rows
    <3> QED
      BY <3>1 DEF SameCase, CurrentRound, Unspoken, Opposing, Bench, Standing
  <2> QED
    BY <2>1, <2>2
<1>9. IsItem(task, t) /\ IsItem(U, t)
  BY <1>1, <1>3, <1>4, <1>5 DEF IsItem, Rows
<1>10. ASSUME NEW r \in Bench(U, t) PROVE r \in Rows(U) /\ U[r].state = "ready"
  <2>1. r \in Rows(U) /\ U[r].kind = "review" /\ U[r].target = t /\ U[r].round = U[t].round
    BY DEF Bench, Rows
  <2>2. r \notin Rows(task)
    BY <2>1, <1>1, <1>5, <1>6
  <2> QED
    BY <2>1, <2>2, <1>1
<1>11. Len(task) + 1 \in Bench(U, t)
  BY <1>4, <1>5, <1>9 DEF Bench, Rows
<1>12. /\ Unspoken(U, t) # {} /\ Opposing(U, t) = {} /\ Unspoken(U, t) \subseteq Juror
  BY <1>10, <1>11 DEF Unspoken, Opposing, U
<1>13. /\ Standing(task, t) = "open" /\ Standing(U, t) = "judged"
       /\ CurrentRound(U, t) = CurrentRound(task, t) + 1
  BY <1>1, <1>5, <1>9 DEF Standing, CurrentRound
<1> QED
  BY <1>7, <1>8, <1>12, <1>13, HandingInIsJudged DEF U

\* What the tally does to the row p it decides on.
LEMMA AcceptedShape ==
    ASSUME NEW T, WellFormed(T), NEW p \in Rows(T)
    PROVE  /\ Accept(T, p)[p].state \in {"approved", "done"}
           /\ \A i \in Rows(Accept(T, p)) : i \notin Rows(T) => ~Accept(T, p)[i].held
<1> DEFINE state == IF T[p].agentMerge /\ IsNoOp(T[p]) THEN "done" ELSE "approved"
           row == [T[p] EXCEPT !.state = state]
           V == [T EXCEPT ![p] = row]
           merge == MergeRow(T[p].model, p)
           U == Append(V, merge)
<1>1. Accept(T, p) = V \/ Accept(T, p) = U
  <2>1. V = [T EXCEPT ![p].state = state]
    OBVIOUS
  <2> QED
    BY <2>1 DEF Accept
<1>2. T[p] \in Row /\ Len(T) \in Nat /\ state \in {"approved", "done"} /\ ~merge.held
  BY LenProperties, ElementOfSeq DEF WellFormed, Rows, MergeRow, NewRow
<1> HIDE DEF state, merge
<1>3. row \in Row /\ row.state = state
  BY <1>2 DEF Row, State
<1> HIDE DEF row
<1>4. /\ V \in Seq(Row) /\ Len(V) = Len(T)
      /\ \A i \in Rows(T) : V[i] = IF i = p THEN row ELSE T[i]
  BY <1>3, ExceptSeq DEF WellFormed, Rows
<1> HIDE DEF V
<1>5. /\ Len(U) = Len(V) + 1 /\ U[Len(V) + 1] = merge
      /\ \A i \in Rows(V) : U[i] = V[i]
  BY <1>4, LenProperties DEF Rows
<1> HIDE DEF U
<1> QED
  BY <1>1, <1>2, <1>3, <1>4, <1>5 DEF Rows

\* If it rejects the row.
LEMMA RejectedShape ==
    ASSUME NEW T, WellFormed(T), NEW p \in Rows(T)
    PROVE  /\ Reject(T, p)[p].state \in {"ready", "blocked", "superseded"}
           /\ \A i \in Rows(Reject(T, p)) : i \notin Rows(T) => ~Reject(T, p)[i].held
<1>1. ASSUME NEW state \in {"ready", "blocked"}, Reject(T, p) = [T EXCEPT ![p].state = state]
      PROVE  Reject(T, p)[p].state = state /\ Rows(Reject(T, p)) = Rows(T)
  <2>1. T[p] \in Row /\ T \in Seq(Row) /\ Len(T) \in Nat
    BY LenProperties, ElementOfSeq DEF WellFormed, Rows
  <2> DEFINE row == [T[p] EXCEPT !.state = state]
  <2>2. row \in Row /\ row.state = state /\ Reject(T, p) = [T EXCEPT ![p] = row]
    BY <2>1, <1>1 DEF Row, State
  <2> HIDE DEF row
  <2> QED
    BY <2>1, <2>2, ExceptSeq DEF Rows
<1>2. CASE Escalates(T[p]) /\ Reject(T, p) = Supersession(T, p, NextTier(T[p].model), "ready")
  <2>1. Handed(Reject(T, p), T, p)
    BY <1>2, NextTierIsAModel, SupersessionHands DEF Escalates
  <2> QED
    BY <2>1 DEF Handed
<1>3. CASE \E state \in {"ready", "blocked"} : Reject(T, p) = [T EXCEPT ![p].state = state]
  BY <1>1, <1>3
<1>4. \/ Escalates(T[p]) /\ Reject(T, p) = Supersession(T, p, NextTier(T[p].model), "ready")
      \/ \E state \in {"ready", "blocked"} : Reject(T, p) = [T EXCEPT ![p].state = state]
  BY DEF Reject
<1> QED
  BY <1>2, <1>3, <1>4

\* Of work that was handed in, the tally counts the bench.
LEMMA TallyIsBench ==
    ASSUME NEW T, WellFormed(T), Gate(T), NEW p \in Rows(T),
           T[p].kind = "implement", T[p].round > 0
    PROVE  /\ AllDone(T, p) <=> Unspoken(T, p) = {}
           /\ AllApprove(T, p) <=> Unspoken(T, p) = {} /\ Opposing(T, p) = {}
<1>1. Tally(T, p) = Bench(T, p)
  <2>1. ASSUME NEW r \in Tally(T, p) PROVE r \in Bench(T, p)
    <3>1. /\ r \in Rows(T) /\ T[r].target = p /\ T[r].round = T[p].round
          /\ Aimed(T, r) /\ T[r] \in Row /\ p # NoTask
      BY ElementOfSeq DEF Tally, Gate, WellFormed, Rows, NoTask
    <3>2. T[r].kind = "review"
      BY <3>1 DEF Aimed, Row, Kind
    <3> QED
      BY <3>1, <3>2 DEF Bench, IsItem, Rows
  <2>2. Bench(T, p) \subseteq Tally(T, p)
    BY DEF Bench, Tally
  <2> QED
    BY <2>1, <2>2
<1> QED
  BY <1>1 DEF AllDone, AllApprove, Unspoken, Opposing

\* What becomes of the row p in review, or given up, when the tally is taken.
LEMMA Sentenced ==
    ASSUME NEW V, WellFormed(V), Gate(V), NEW p \in Rows(V), V[p].kind = "implement",
           V[p].round > 0, V[p].state \in {"review", "failed"}, V[p].held \in BOOLEAN,
           NEW U, U = Aggregated(V, p), U[p].kind = "implement", p \in Rows(U)
    PROVE  IF Standing(V, p) = "judged" /\ ~IsHeld(V, p) /\ Unspoken(V, p) = {}
           THEN Standing(U, p) \in J!Sentence(Opposing(V, p))
           ELSE Standing(U, p) = Standing(V, p)
<1>1. /\ IsItem(V, p) /\ IsItem(U, p)
      /\ IsHeld(V, p) <=> V[p].held
      /\ Standing(V, p) = IF V[p].state = "review" THEN "judged" ELSE "dropped"
  BY DEF IsItem, IsHeld, Standing, Rows
<1>2. /\ AllDone(V, p) <=> Unspoken(V, p) = {}
      /\ AllApprove(V, p) <=> Unspoken(V, p) = {} /\ Opposing(V, p) = {}
  BY TallyIsBench
<1>3. CASE V[p].held \/ V[p].state = "failed" \/ Unspoken(V, p) # {}
  <2>1. U = V
    BY <1>2, <1>3 DEF Aggregated, IsTerminal
  <2> QED
    BY <2>1, <1>1, <1>3
<1>4. CASE ~V[p].held /\ V[p].state = "review" /\ Unspoken(V, p) = {}
  <2>1. U = IF Opposing(V, p) = {} THEN Accept(V, p) ELSE Reject(V, p)
    BY <1>2, <1>4 DEF Aggregated, IsTerminal
  <2>2. CASE Opposing(V, p) = {}
    <3>1. U[p].state \in {"approved", "done"}
      BY <2>1, <2>2, AcceptedShape
    <3> QED
      BY <3>1, <2>2, <1>1, <1>4 DEF Standing, J!Sentence
  <2>3. CASE Opposing(V, p) # {}
    <3>1. U[p].state \in {"ready", "blocked", "superseded"}
      BY <2>1, <2>3, RejectedShape
    <3> QED
      BY <3>1, <2>3, <1>1, <1>4 DEF Standing, J!Sentence
  <2> QED
    BY <2>2, <2>3
<1> QED
  BY <1>3, <1>4

\* Of w's panel r has spoken, for the work or against it, and nobody else.
SpokenBy(U, T, w, r) ==
    /\ r \in Unspoken(T, w) /\ Unspoken(U, w) = Unspoken(T, w) \ {r}
    /\ \E opposes \in SUBSET {r} : Opposing(U, w) = Opposing(T, w) \cup opposes

\* A verdict, recorded, is that of one of the panel, and leaves other work alone.
LEMMA RecordedVerdict ==
    ASSUME NEW T, WellFormed(T), Gate(T), NEW t \in Rows(T), T[t].kind = "review",
           T[t].state = "in_progress", NEW V, WellFormed(V), SameRounds(V, T),
           Rows(V) = Rows(T), \A i \in Rows(T) : i # t => V[i] = T[i],
           V[t].state = "done", V[t].held = T[t].held, NEW w
    PROVE  /\ Standing(V, w) = Standing(T, w) /\ IsHeld(V, w) = IsHeld(T, w)
           /\ CurrentRound(V, w) = CurrentRound(T, w)
           /\ w # T[t].target => SameCase(V, T, w)
           /\ t \in Bench(T, w) => SpokenBy(V, T, w, t)
<1>1. /\ \A i \in Rows(T) : /\ V[i].kind = T[i].kind /\ V[i].target = T[i].target
                            /\ V[i].round = T[i].round
      /\ IsItem(V, w) <=> IsItem(T, w)
      /\ IsItem(T, w) => w \in Rows(T) /\ w # t
  BY DEF SameRounds, IsItem, Rows
<1>2. /\ Standing(V, w) = Standing(T, w) /\ IsHeld(V, w) = IsHeld(T, w)
      /\ CurrentRound(V, w) = CurrentRound(T, w)
  BY <1>1 DEF Standing, IsHeld, CurrentRound
<1>3. Bench(V, w) = Bench(T, w) /\ Bench(T, w) \subseteq Rows(T)
  BY <1>1 DEF Bench, Rows
<1>4. w # T[t].target => t \notin Bench(T, w)
  BY DEF Bench
<1>5. t \notin Bench(T, w) => Unspoken(V, w) = Unspoken(T, w) /\ Opposing(V, w) = Opposing(T, w)
  BY <1>3 DEF Unspoken, Opposing
<1>6. ASSUME t \in Bench(T, w)
      PROVE  SpokenBy(V, T, w, t)
  <2>1. t \in Unspoken(T, w) /\ Unspoken(V, w) = Unspoken(T, w) \ {t}
    BY <1>3, <1>6 DEF Unspoken
  <2>2. /\ V[t].verdict = "approve" => Opposing(V, w) = Opposing(T, w) \cup {}
        /\ V[t].verdict # "approve" => Opposing(V, w) = Opposing(T, w) \cup {t}
    BY <1>3, <1>6 DEF Opposing
  <2> QED
    BY <2>1, <2>2 DEF SpokenBy
<1> QED
  BY <1>2, <1>4, <1>5, <1>6 DEF SameCase

\* SubmitTask of a review row.
LEMMA ReviewIsJudged ==
    ASSUME Inv, Order(task, NoTask), Orderly(task', task), NEW t \in Id, NEW agent,
           NEW verdict, SubmitReview(t, agent, verdict)
    PROVE  Judged
<1> DEFINE row == Submitted(task[t], "done", verdict, {})
           V == [task EXCEPT ![t] = row]
           U == task'
           p == task[t].target
<1>1. /\ task[t].kind = "review" /\ task[t].state = "in_progress" /\ InProgressBy(t, agent)
      /\ verdict \in {"approve", "reject"}
      /\ U = IF p = NoTask THEN V ELSE Aggregated(V, p)
  BY DEF SubmitReview, InProgressBy
<1>2. /\ t \in Rows(task) /\ task[t] \in Row /\ Refers(task[t], Len(task))
      /\ WellFormed(task) /\ Gate(task) /\ Aimed(task, t) /\ Len(task) \in Nat
  BY ThisRow DEF Inv
<1>3. WellFormed(V) /\ Gate(V) /\ SameRounds(V, task)
  BY <1>1, RecordingKeepsGate
<1>4. row.kind = "review" /\ row.target = p /\ row.state = "done" /\ row.held = task[t].held
  BY <1>1, <1>2 DEF Submitted, Row
<1>5. /\ Rows(V) = Rows(task)
      /\ \A i \in Rows(task) : V[i] = IF i = t THEN row ELSE task[i]
  BY <1>2, ExceptSeq DEF WellFormed, Rows
<1> HIDE DEF U, V, row, p
<1>6. ASSUME NEW w
      PROVE  /\ Standing(V, w) = Standing(task, w) /\ IsHeld(V, w) = IsHeld(task, w)
             /\ CurrentRound(V, w) = CurrentRound(task, w)
             /\ w # p => SameCase(V, task, w)
             /\ t \in Bench(task, w) => SpokenBy(V, task, w, t)
  <2>1. V[t].state = "done" /\ V[t].held = task[t].held /\ \A i \in Rows(task) : i # t => V[i] = task[i]
    BY <1>2, <1>4, <1>5
  <2>2. p = task[t].target
    BY DEF p
  <2> QED
    BY <2>1, <2>2, <1>1, <1>2, <1>3, <1>5, RecordedVerdict
<1>7. CASE p = NoTask
  <2>1. U = V /\ ~IsItem(task, NoTask) /\ ~IsItem(V, NoTask)
    BY <1>1, <1>7 DEF IsItem, NoTask
  <2>2. SameCase(V, task, NoTask)
    BY <2>1 DEF SameCase, CurrentRound, Unspoken, Opposing, Bench
  <2>3. /\ \A w : SameCase(U, task, w) /\ IsHeld(U, w) = IsHeld(task, w)
        /\ \A w : Standing(U, w) = Standing(task, w)
    BY <2>1, <2>2, <1>6, <1>7
  <2> QED
    BY <2>3, MovesAreJudged DEF U
<1>8. CASE p # NoTask
  <2>1. /\ U = Aggregated(V, p) /\ t \in Rows(V) /\ V[t].kind = "review" /\ V[t].target = p
    BY <1>1, <1>2, <1>4, <1>5, <1>8
  <2>2. p \in Rows(V) /\ V[p].kind = "implement" /\ V[p].round > 0
    BY <2>1, <1>3, <1>8, UnderReview
  <2>3. p # t /\ p \in Rows(task) /\ V[p] = task[p]
    BY <2>1, <2>2, <1>5
  <2>4. task[p].state \in {"review", "failed"} /\ task[t].round = task[p].round
    <3>1. Pending(task, t, p)
      BY <1>1 DEF Pending, p
    <3> QED
      BY <3>1, <2>3, <1>2 DEF Order, Told
  <2>5. t \in Bench(task, p)
    BY <2>2, <2>3, <2>4, <1>1, <1>2 DEF Bench, IsItem, Rows, p
  <2>6. WellFormed(U) /\ SameRounds(U, V)
    BY <2>1, <1>3, <1>8, AggregationKeepsGate
  <2>7. OnlyMoves(U, V, p)
    <3>1. OnlyMoves(V, V, p)
      BY DEF OnlyMoves, SameLock, SameState
    <3> QED
      BY <3>1, <2>1, <2>2, <1>3, AcceptMoves, RejectMoves DEF Aggregated
  <2>8. \A i \in Rows(U) : i \notin Rows(V) => ~U[i].held
    BY <2>1, <2>2, <1>3, AcceptedShape, RejectedShape DEF Aggregated
  <2>9. \A i \in Rows(U) : i \notin Rows(V) => U[i].state \in {"backlog", "ready"}
    <3>1. PICK q : MovesOnly(U, task, q)
      BY DEF Orderly, Kept, U
    <3> QED
      BY <3>1, <1>5 DEF MovesOnly
  <2>10. Untold(U, V) /\ MovesOnly(U, V, p)
    BY <2>2, <2>6, <2>7, <2>9 DEF Untold, MovesOnly, OnlyMoves, SameLock, SameState
  <2>11. ASSUME NEW w
         PROVE  /\ SameCase(U, V, w) /\ IsHeld(U, w) = IsHeld(V, w)
                /\ w # p => Standing(U, w) = Standing(V, w)
    <3>1. Rows(V) \subseteq Rows(U)
      BY <2>6, <1>3, LenProperties DEF SameRounds, WellFormed, Rows
    <3>2. IsHeld(U, w) = IsHeld(V, w)
      BY <3>1, <2>6, <2>7, <2>8, UntoldHold DEF SameRounds, OnlyMoves, SameLock
    <3> QED
      BY <3>2, <2>6, <2>10, <1>3, UntoldCases, UntoldStandings
  <2>12. PICK opposes \in SUBSET {t} :
            /\ t \in Unspoken(task, p) /\ Unspoken(V, p) = Unspoken(task, p) \ {t}
            /\ Opposing(V, p) = Opposing(task, p) \cup opposes
    BY <2>5, <1>6 DEF SpokenBy
  <2>13. IF Standing(V, p) = "judged" /\ ~IsHeld(V, p) /\ Unspoken(V, p) = {}
         THEN Standing(U, p) \in J!Sentence(Opposing(V, p))
         ELSE Standing(U, p) = Standing(V, p)
    <3>1. V[p].held \in BOOLEAN
      <4>1. V[p] \in Row
        BY <2>2, <1>3, ElementOfSeq DEF WellFormed, Rows
      <4> QED
        BY <4>1 DEF Row
    <3>2. p \in Rows(U) /\ U[p].kind = "implement"
      BY <2>2, <2>6, <1>3, LenProperties DEF SameRounds, WellFormed, Rows
    <3> QED
      BY <3>1, <3>2, <2>1, <2>2, <2>3, <2>4, <1>3, Sentenced
  <2>14. /\ \A w : IsHeld(U, w) = IsHeld(task, w)
         /\ \A w : w # p => SameCase(U, task, w) /\ Standing(U, w) = Standing(task, w)
         /\ CurrentRound(U, p) = CurrentRound(task, p)
         /\ Unspoken(U, p) = Unspoken(V, p) /\ Opposing(U, p) = Opposing(V, p)
         /\ Standing(V, p) = Standing(task, p) /\ IsHeld(V, p) = IsHeld(task, p)
    BY <2>11, <1>6 DEF SameCase
  <2> QED
    BY <2>12, <2>13, <2>14, SpeakingIsJudged DEF U
<1> QED
  BY <1>7, <1>8

-----------------------------------------------------------------------------
(* The theorem.                                                            *)

\* Every orderly step is a step of Panel, or none.
LEMMA StepIsJudged ==
    ASSUME Inv, Order(task, NoTask), [OrderlyNext]_vars, Rows(task') \subseteq Juror
    PROVE  Judged
<1>1. Orderly(task', task)
  BY StepIsOrderly
<1>2. CASE UNCHANGED vars
  BY <1>2 DEF vars, Judged, Views, Standings, Versions, Juries, Against, HeldItems
<1>3. ASSUME NEW t \in Id, AgentStep(t) PROVE Judged
  BY <1>1, <1>3, RowStepsAreJudged, WorkIsJudged, ReviewIsJudged DEF AgentStep
<1>4. ASSUME NEW t \in Id, NEW agent \in Agent, NEW verdict \in Verdict,
             SubmitMerge(t, agent, verdict)
      PROVE  Judged
  BY <1>1, <1>4, MergeIsJudged
<1>5. ASSUME NEW t \in Id, PromoteTask(t) \/ \E to \in State : TransitionTask(t, to)
      PROVE  Judged
  BY <1>1, <1>5, RowStepsAreJudged
<1>6. ASSUME NEW t \in Id, NEW model \in Models, SupersedeTask(t, model) PROVE Judged
  BY <1>1, <1>6, SupersessionIsJudged
<1>7. ASSUME NEW t \in Id,
             HoldTask(t) \/ (ReleaseTask(t) /\ (task[t].kind = "implement"
                                    /\ task[t].state = "review" => AwaitsVerdict(t)))
      PROVE  Judged
  BY <1>7, LocksAreJudged
<1>8. ASSUME NEW batch \in Batches, CreateTasks(batch) PROVE Judged
  BY <1>1, <1>8, CreationIsJudged
<1> QED
  BY <1>2, <1>3, <1>4, <1>5, <1>6, <1>7, <1>8 DEF OrderlyNext

\* The review gate is what Panel says it is: as long as people are orderly, each version
\* of the work is judged by its own panel, all of it, and as soon as the last has spoken.
THEOREM PanelsJudge == OrderlySpec /\ [](Id \subseteq Juror) => JudgedByItsPanel
<1>1. Init => J!Init
  <2> SUFFICES ASSUME Init PROVE J!Init
    OBVIOUS
  <2>1. Len(task) = 0
    BY EmptySeq DEF Init
  <2>2. \A w : ~IsItem(task, w) /\ Bench(task, w) = {}
    BY <2>1 DEF IsItem, Bench
  <2> QED
    BY <2>2 DEF J!Init, Standing, CurrentRound, Unspoken, Opposing, IsHeld
<1>2. Inv /\ Order(task, NoTask) /\ (Id \subseteq Juror)' /\ [OrderlyNext]_vars => [J!Next]_(J!vars)
  <2> SUFFICES ASSUME Inv, Order(task, NoTask), (Id \subseteq Juror)', [OrderlyNext]_vars
               PROVE  [J!Next]_(J!vars)
    OBVIOUS
  <2>1. Rows(task') \subseteq Juror
    BY DEF Id, Rows
  <2>2. Judged
    BY <2>1, StepIsJudged
  <2> QED
    BY <2>2
       DEF Judged, Views, J!vars, J!panel, Standings, Versions, Juries, Against, HeldItems
<1> QED
  BY <1>1, <1>2, OrderInvariance, PTL DEF OrderlySpec, JudgedByItsPanel, J!Spec
=============================================================================

-------------------------- MODULE DependenciesProofs --------------------------
(***************************************************************************)
(* The dependency graph stays acyclic as long as one client at a time      *)
(* edits it, for every planner, fleet and operator.  The graph of a table  *)
(* is compared with that of another by a map between their rows that turns *)
(* edges into edges: closed sets pull back along it.                       *)
(***************************************************************************)
EXTENDS Dependencies, TaskBoardProofs

\* Acyclic, of any table.
NoCycle(T) == \A t \in Rows(T) : \A d \in T[t].deps : ~Reaches(T, d, t)

\* U has no path between rows of T that T had not, and no cycle if T had none.
Inherits(U, T) ==
    /\ Rows(T) \subseteq Rows(U)
    /\ NoCycle(T) => NoCycle(U)
    /\ \A a, b \in Rows(T) : ~Reaches(T, a, b) => ~Reaches(U, a, b)

\* Edges of U are edges of T once rows are mapped by f, which leaves T's own alone.
MapsEdges(f, U, T) ==
    /\ f \in [Rows(U) -> Rows(T)]
    /\ \A i \in Rows(T) : f[i] = i
    /\ \A i \in Rows(U) : \A d \in U[i].deps : f[d] \in T[f[i]].deps

-----------------------------------------------------------------------------
(* Graphs.                                                                 *)

\* A well formed table's dependencies are rows of it.
LEMMA DepsAreRows ==
    ASSUME NEW T, WellFormed(T), NEW i \in Rows(T)
    PROVE  T[i].deps \subseteq Rows(T)
  BY DEF WellFormed, Refers, Rows

\* What separates two rows of the image separates the rows themselves.
LEMMA PullsBack ==
    ASSUME NEW T, NEW U, WellFormed(U), NEW f, MapsEdges(f, U, T),
           NEW a \in Rows(U), NEW b \in Rows(U), ~Reaches(T, f[a], f[b])
    PROVE  ~Reaches(U, a, b)
<1>1. PICK S \in SUBSET Rows(T) : f[a] \in S /\ Closed(T, S) /\ f[b] \notin S
  BY DEF Reaches, Rows
<1> DEFINE R == {i \in Rows(U) : f[i] \in S}
<1>2. R \in SUBSET Rows(U) /\ a \in R /\ b \notin R
  BY <1>1
<1>3. Closed(U, R)
  <2>1. ASSUME NEW i \in R, NEW d \in U[i].deps PROVE d \in R
    <3>1. d \in Rows(U)
      BY <2>1, DepsAreRows
    <3>2. f[d] \in T[f[i]].deps
      BY <2>1 DEF MapsEdges
    <3>3. f[d] \in S
      BY <3>2, <1>1, <2>1 DEF Closed
    <3> QED
      BY <3>1, <3>3
  <2> QED
    BY <2>1 DEF Closed
<1> HIDE DEF R
<1> QED
  BY <1>2, <1>3 DEF Reaches, Rows

\* A table that maps into another inherits from it.
LEMMA MapInherits ==
    ASSUME NEW T, NEW U, WellFormed(T), WellFormed(U), Rows(T) \subseteq Rows(U),
           NEW f, MapsEdges(f, U, T)
    PROVE  Inherits(U, T)
<1>1. ASSUME NEW a \in Rows(T), NEW b \in Rows(T), ~Reaches(T, a, b)
      PROVE  ~Reaches(U, a, b)
  <2>1. f[a] = a /\ f[b] = b /\ a \in Rows(U) /\ b \in Rows(U)
    BY DEF MapsEdges
  <2> QED
    BY <2>1, <1>1, PullsBack
<1>2. ASSUME NoCycle(T), NEW t \in Rows(U), NEW d \in U[t].deps
      PROVE  ~Reaches(U, d, t)
  <2>1. d \in Rows(U)
    BY DepsAreRows
  <2>2. f[t] \in Rows(T) /\ f[d] \in T[f[t]].deps
    BY DEF MapsEdges
  <2>3. ~Reaches(T, f[d], f[t])
    BY <2>2, <1>2 DEF NoCycle
  <2> QED
    BY <2>1, <2>3, PullsBack
<1> QED
  BY <1>1, <1>2 DEF Inherits, NoCycle

\* Most steps change no dependency, and what they add depends on nothing.
LEMMA SameDepsInherits ==
    ASSUME NEW T, NEW U, WellFormed(T), WellFormed(U), Rows(T) \subseteq Rows(U),
           NEW t \in Rows(T),
           \A i \in Rows(T) : U[i].deps = T[i].deps,
           \A i \in Rows(U) : i \notin Rows(T) => U[i].deps = {}
    PROVE  Inherits(U, T)
<1> DEFINE f == [i \in Rows(U) |-> IF i \in Rows(T) THEN i ELSE t]
<1>1. f \in [Rows(U) -> Rows(T)] /\ \A i \in Rows(T) : f[i] = i
  OBVIOUS
<1>2. ASSUME NEW i \in Rows(U), NEW d \in U[i].deps PROVE f[d] \in T[f[i]].deps
  <2>1. i \in Rows(T) /\ d \in T[i].deps
    BY <1>2
  <2>2. d \in Rows(T)
    BY <2>1, DepsAreRows
  <2> QED
    BY <2>1, <2>2, <1>1
<1> HIDE DEF f
<1>3. MapsEdges(f, U, T)
  BY <1>1, <1>2 DEF MapsEdges
<1> QED
  BY <1>3, MapInherits

\* A row replaced by one with the same dependencies.
LEMMA OneRowInherits ==
    ASSUME NEW T, WellFormed(T), NEW t \in Rows(T), NEW row,
           row.deps = T[t].deps, WellFormed([T EXCEPT ![t] = row])
    PROVE  Inherits([T EXCEPT ![t] = row], T)
<1> DEFINE U == [T EXCEPT ![t] = row]
<1>1. T \in Seq(Row) /\ t \in 1..Len(T)
  BY DEF WellFormed, Rows
<1>2. Len(U) = Len(T) /\ \A i \in 1..Len(T) : U[i] = IF i = t THEN row ELSE T[i]
  BY <1>1, ExceptSeq
<1>3. Rows(U) = Rows(T) /\ \A i \in Rows(T) : U[i].deps = T[i].deps
  BY <1>2 DEF Rows
<1>4. WellFormed(U)
  OBVIOUS
<1> HIDE DEF U
<1>5. Inherits(U, T)
  BY <1>3, <1>4, SameDepsInherits
<1> QED
  BY <1>5 DEF U

\* One step after another.
LEMMA InheritsOn ==
    ASSUME NEW T, NEW U, NEW V, Inherits(U, T), Inherits(V, U)
    PROVE  Inherits(V, T)
  BY DEF Inherits

-----------------------------------------------------------------------------
(* The steps of the board.                                                 *)

\* The dependencies of a row once t has an heir.
Handed(deps, t, heir) == {IF d = t THEN heir ELSE d : d \in deps}

\* Supersession hands every dependency on t to the heir, its own included, and gives
\* the heir what t depends on.
LEMMA SupersessionDeps ==
    ASSUME NEW T, WellFormed(T), NEW t \in Rows(T),
           NEW model \in ModelName, NEW state \in State
    PROVE  LET U == Supersession(T, t, model, state) IN
           /\ \A i \in Rows(T) : U[i].deps = Handed(T[i].deps, t, Len(T) + 1)
           /\ U[Len(T) + 1].deps = Handed(T[t].deps, t, Len(T) + 1)
<1> DEFINE heir == Len(T) + 1
           f == [i \in 1..Len(T) |-> Repointed(T[i], t, heir)]
           old == Retired(f[t], heir)
           g == [f EXCEPT ![t] = old]
           fresh == Replacement(f[t], state, model)
           U == Supersession(T, t, model, state)
<1>1. U = Append(g, fresh)
  BY DEF Supersession, HeirId
<1>2. /\ Len(T) \in Nat /\ t \in Nat /\ t \in 1..Len(T)
      /\ \A i \in Rows(T) : T[i] \in Row /\ Refers(T[i], Len(T))
  BY LenProperties, ElementOfSeq DEF WellFormed, Rows
<1>3. ASSUME NEW i \in Rows(T)
      PROVE  /\ f[i] \in Row /\ Refers(f[i], heir)
             /\ f[i].deps = Handed(T[i].deps, t, heir)
  <2>1. f[i] = Repointed(T[i], t, heir)
    BY DEF Rows
  <2>2. f[i] \in Row /\ Refers(f[i], heir)
    <3> HIDE DEF f
    <3> QED
      BY <2>1, <1>2, RepointedRow
  <2>3. Repointed(T[i], t, heir).deps = Handed(T[i].deps, t, heir)
    BY <1>2 DEF Repointed, Handed, Row
  <2> QED
    BY <2>1, <2>2, <2>3
<1>4. f \in Seq(Row) /\ Len(f) = Len(T)
  <2>1. f \in [1..Len(T) -> Row]
    BY <1>3 DEF Rows
  <2> QED
    BY <2>1, <1>2, Tabulated
<1> HIDE DEF f
<1>5. f[t] \in Row /\ Refers(f[t], heir) /\ f[t].deps = Handed(T[t].deps, t, heir)
  BY <1>3
<1>6. old \in Row /\ old.deps = f[t].deps
  <2>1. old \in Row
    BY <1>2, <1>5, RetiredRow
  <2>2. old.deps = f[t].deps
    BY <1>5 DEF Retired, Row
  <2> QED
    BY <2>1, <2>2
<1>7. fresh.deps = f[t].deps /\ fresh \in Row
  <2>1. fresh \in Row
    BY <1>2, <1>5, ReplacementRow
  <2>2. fresh.deps = f[t].deps
    BY DEF Replacement, NewRow
  <2> QED
    BY <2>1, <2>2
<1> HIDE DEF old, fresh
<1>8. /\ g \in Seq(Row) /\ Len(g) = Len(T)
      /\ \A i \in Rows(T) : g[i] = IF i = t THEN old ELSE f[i]
  BY <1>2, <1>4, <1>6, ExceptSeq DEF Rows
<1> HIDE DEF g, U
<1>9. /\ \A i \in Rows(T) : U[i] = g[i]
      /\ U[heir] = fresh
  BY <1>1, <1>7, <1>8, AppendProperties DEF Rows
<1>10. \A i \in Rows(T) : U[i].deps = Handed(T[i].deps, t, heir)
  BY <1>3, <1>6, <1>8, <1>9
<1>11. U[heir].deps = Handed(T[t].deps, t, heir)
  BY <1>5, <1>7, <1>9
<1> QED
  BY <1>10, <1>11 DEF U

\* Mapping the heir to the row it replaces turns the new graph into the old one.
LEMMA SupersessionInherits ==
    ASSUME NEW T, WellFormed(T), NEW t \in Rows(T),
           NEW model \in ModelName, NEW state \in State
    PROVE  Inherits(Supersession(T, t, model, state), T)
<1> DEFINE U == Supersession(T, t, model, state)
           heir == Len(T) + 1
           f == [i \in Rows(U) |-> IF i = heir THEN t ELSE i]
<1>1. /\ Len(T) \in Nat /\ WellFormed(U) /\ Len(U) = heir
      /\ \A i \in Rows(T) : U[i].deps = Handed(T[i].deps, t, heir)
      /\ U[heir].deps = Handed(T[t].deps, t, heir)
  BY SupersessionShape, SupersessionDeps, LenProperties DEF WellFormed
<1> HIDE DEF U
<1>2. /\ Rows(U) = Rows(T) \cup {heir} /\ heir \notin Rows(T)
  <2>1. heir \notin 1..Len(T)
    BY <1>1
  <2>2. 1..Len(U) = 1..Len(T) \cup {heir}
    <3>1. ASSUME NEW n \in Nat PROVE 1..(n + 1) = 1..n \cup {n + 1}
      OBVIOUS
    <3> QED
      BY <3>1, <1>1
  <2> QED
    BY <2>1, <2>2 DEF Rows
<1> HIDE DEF heir
<1>3. f \in [Rows(U) -> Rows(T)] /\ \A i \in Rows(T) : f[i] = i
  BY <1>2
<1>4. ASSUME NEW i \in Rows(U)
      PROVE  U[i].deps = Handed(T[f[i]].deps, t, heir)
  <2>1. CASE i = heir
    BY <2>1, <1>1
  <2>2. CASE i # heir
    BY <2>2, <1>1, <1>2
  <2> QED
    BY <2>1, <2>2
<1>5. ASSUME NEW i \in Rows(U), NEW d \in U[i].deps PROVE f[d] \in T[f[i]].deps
  <2>1. PICK e \in T[f[i]].deps : d = IF e = t THEN heir ELSE e
    BY <1>4, <1>5 DEF Handed
  <2>2. e \in Rows(T)
    BY <1>3, DepsAreRows
  <2>3. f[d] = e
    BY <2>1, <2>2, <1>2
  <2> QED
    BY <2>3
<1> HIDE DEF f
<1>6. MapsEdges(f, U, T)
  BY <1>3, <1>5 DEF MapsEdges
<1>7. Inherits(U, T)
  BY <1>1, <1>2, <1>6, MapInherits
<1> QED
  BY <1>7 DEF U

\* A step that replaces one row and leaves what it depends on.
LEMMA RowStepInherits ==
    ASSUME Inv, Inv', NEW t \in Id, NEW row, task' = [task EXCEPT ![t] = row],
           row.deps = task[t].deps
    PROVE  Inherits(task', task)
  BY OneRowInherits DEF Inv, Id, Rows

\* The steps that touch the row they are about and no dependency.
LEMMA PlainStepInherits ==
    ASSUME Inv, Inv', NEW t \in Id,
           \/ PromoteTask(t) \/ LeaseLapses(t) \/ HoldTask(t) \/ ReleaseTask(t)
           \/ \E agent, model : ClaimTask(t, agent, model)
           \/ \E agent : HeartbeatTask(t, agent)
           \/ \E agent, verdict : SubmitMerge(t, agent, verdict)
           \/ \E to : TransitionTask(t, to)
    PROVE  Inherits(task', task)
<1>1. task[t] \in Row
  BY ThisRow
<1>2. CASE PromoteTask(t)
  <2>1. task' = [task EXCEPT ![t] = [task[t] EXCEPT !.state = "ready"]]
    BY <1>2 DEF PromoteTask
  <2>2. [task[t] EXCEPT !.state = "ready"].deps = task[t].deps
    BY <1>1 DEF Row
  <2> QED
    BY <2>1, <2>2, RowStepInherits
<1>3. CASE LeaseLapses(t) \/ \E agent : HeartbeatTask(t, agent)
  <2>1. PICK lease : task' = [task EXCEPT ![t] = [task[t] EXCEPT !.lease = lease]]
    BY <1>3 DEF LeaseLapses, HeartbeatTask
  <2>2. [task[t] EXCEPT !.lease = lease].deps = task[t].deps
    BY <1>1 DEF Row
  <2> QED
    BY <2>1, <2>2, RowStepInherits
<1>4. CASE HoldTask(t) \/ ReleaseTask(t)
  <2>1. PICK held : task' = [task EXCEPT ![t] = [task[t] EXCEPT !.held = held]]
    BY <1>4 DEF HoldTask, ReleaseTask
  <2>2. [task[t] EXCEPT !.held = held].deps = task[t].deps
    BY <1>1 DEF Row
  <2> QED
    BY <2>1, <2>2, RowStepInherits
<1>5. ASSUME NEW agent, NEW model, ClaimTask(t, agent, model)
      PROVE  Inherits(task', task)
  <2> DEFINE row == [task[t] EXCEPT
                        !.state = "in_progress", !.assignee = agent, !.lease = "live"]
  <2>1. task' = [task EXCEPT ![t] = row]
    BY <1>5 DEF ClaimTask
  <2>2. row.deps = task[t].deps
    BY <1>1 DEF Row
  <2> QED
    BY <2>1, <2>2, RowStepInherits
<1>6. ASSUME NEW agent, NEW verdict, SubmitMerge(t, agent, verdict)
      PROVE  Inherits(task', task)
  <2>1. task' = [task EXCEPT ![t] = Submitted(task[t], "review", verdict, {})]
    BY <1>6 DEF SubmitMerge
  <2>2. Submitted(task[t], "review", verdict, {}).deps = task[t].deps
    BY <1>1 DEF Submitted, Row
  <2> QED
    BY <2>1, <2>2, RowStepInherits
<1>7. ASSUME NEW to, TransitionTask(t, to)
      PROVE  Inherits(task', task)
  <2>1. task' = [task EXCEPT ![t] = Moved(task[t], to)]
    BY <1>7 DEF TransitionTask
  <2>2. Moved(task[t], to).deps = task[t].deps
    BY <1>1 DEF Moved, Row
  <2> QED
    BY <2>1, <2>2, RowStepInherits
<1> QED
  BY <1>2, <1>3, <1>4, <1>5, <1>6, <1>7

\* Rows that depend on nothing are put after others.
LEMMA ConcatInherits ==
    ASSUME NEW T, WellFormed(T), NEW V \in Seq(Row), NEW S \in Seq(Row),
           Len(V) = Len(T), WellFormed(V \o S), NEW t \in Rows(T),
           \A i \in Rows(T) : V[i].deps = T[i].deps,
           \A i \in Rows(S) : S[i].deps = {}
    PROVE  Inherits(V \o S, T)
<1> DEFINE U == V \o S
<1>1. /\ Len(V) \in Nat /\ Len(S) \in Nat /\ Len(U) = Len(V) + Len(S)
      /\ \A i \in 1..Len(V) + Len(S) :
            U[i] = IF i <= Len(V) THEN V[i] ELSE S[i - Len(V)]
  BY ConcatProperties, LenProperties
<1> HIDE DEF U
<1>2. \A i \in Rows(T) : i \in Rows(U) /\ U[i].deps = T[i].deps
  BY <1>1 DEF Rows
<1>3. ASSUME NEW i \in Rows(U), i \notin Rows(T) PROVE U[i].deps = {}
  <2>1. i - Len(V) \in Rows(S) /\ U[i] = S[i - Len(V)]
    BY <1>1, <1>3 DEF Rows
  <2> QED
    BY <2>1
<1>4. WellFormed(U)
  BY DEF U
<1>5. Inherits(U, T)
  BY <1>2, <1>3, <1>4, SameDepsInherits
<1> QED
  BY <1>5 DEF U

\* A submission of work, with the review rows it spawns.
LEMMA WorkInherits ==
    ASSUME Inv, Inv', NEW t \in Id, NEW agent, NEW links \in Submissions,
           SubmitWork(t, agent, links)
    PROVE  Inherits(task', task)
<1> DEFINE round == task[t].round + 1
           reviewers == ReviewersOf(task[t])
           row == Reworked(task[t], links, round)
           V == [task EXCEPT ![t] = row]
           S == [i \in 1..Len(reviewers) |-> ReviewRow(reviewers[i], round, t)]
<1>1. task' = V \o S /\ task[t].kind = "implement"
  BY DEF SubmitWork
<1>2. /\ t \in Rows(task) /\ t \in 1..Len(task) /\ t \in Nat /\ Len(task) \in Nat
      /\ task[t] \in Row /\ Refers(task[t], Len(task)) /\ Aimed(task, t)
      /\ task \in Seq(Row) /\ WellFormed(task) /\ WellFormed(task')
  BY ThisRow DEF Inv, WellFormed, Rows
<1>3. task[t].target = NoTask /\ round \in Nat
  <2>1. task[t].target = NoTask
    BY <1>1, <1>2 DEF Aimed
  <2>2. task[t].round \in Nat
    BY <1>2 DEF Row
  <2> QED
    BY <2>1, <2>2
<1>4. row \in Row /\ row.deps = task[t].deps
  <2>1. row \in Row
    BY <1>1, <1>2, <1>3, ReworkedRow
  <2>2. row.deps = task[t].deps
    BY <1>2 DEF Reworked, Submitted, Row
  <2> QED
    BY <2>1, <2>2
<1>5. reviewers \in Seq(ModelName) /\ Len(reviewers) \in Nat
  BY <1>2, SomeReviewer
<1>6. ASSUME NEW i \in 1..Len(reviewers) PROVE S[i] \in Row /\ S[i].deps = {}
  <2>1. S[i] = ReviewRow(reviewers[i], round, t) /\ reviewers[i] \in ModelName
    BY <1>5, ElementOfSeq
  <2>2. ReviewRow(reviewers[i], round, t).deps = {}
    BY DEF ReviewRow, NewRow
  <2>3. t <= t
    BY <1>2
  <2> HIDE DEF S, round, reviewers
  <2> QED
    BY <1>2, <1>3, <2>1, <2>2, <2>3, ReviewRowIsFresh
<1>7. S \in Seq(Row) /\ Len(S) = Len(reviewers) /\ Rows(S) = 1..Len(reviewers)
  <2>1. S \in [1..Len(reviewers) -> Row]
    BY <1>6
  <2> QED
    BY <2>1, <1>5, Tabulated
<1> HIDE DEF S, row, reviewers, round
<1>8. /\ V \in Seq(Row) /\ Len(V) = Len(task)
      /\ \A i \in 1..Len(task) : V[i] = IF i = t THEN row ELSE task[i]
  BY <1>2, <1>4, ExceptSeq
<1>9. \A i \in Rows(task) : V[i].deps = task[i].deps
  BY <1>4, <1>8 DEF Rows
<1> HIDE DEF V
<1> QED
  BY <1>1, <1>2, <1>6, <1>7, <1>8, <1>9, ConcatInherits

\* An approval, with the merge row it may spawn.
LEMMA AcceptInherits ==
    ASSUME NEW T, WellFormed(T), NEW p \in Rows(T), WellFormed(Accept(T, p))
    PROVE  Inherits(Accept(T, p), T)
<1> DEFINE state == IF T[p].agentMerge /\ IsNoOp(T[p]) THEN "done" ELSE "approved"
           row == [T[p] EXCEPT !.state = state]
           V == [T EXCEPT ![p] = row]
           merge == MergeRow(T[p].model, p)
<1>1. T[p] \in Row /\ T \in Seq(Row) /\ p \in 1..Len(T) /\ p \in Nat
  BY ElementOfSeq DEF WellFormed, Rows
<1>2. Accept(T, p) = V \/ Accept(T, p) = Append(V, merge)
  <2>1. V = [T EXCEPT ![p].state = state]
    OBVIOUS
  <2> QED
    BY <2>1 DEF Accept
<1>3. row \in Row /\ row.deps = T[p].deps
  <2>1. state \in State
    BY DEF State
  <2> HIDE DEF state
  <2> QED
    BY <2>1, <1>1 DEF Row
<1>4. merge \in Row /\ merge.deps = {}
  <2> DEFINE fresh == NewRow("merge", "ready", T[p].model)
  <2>1. T[p].model \in ModelName
    BY <1>1 DEF Row
  <2>2. fresh \in Row
    BY <2>1, FreshRow DEF Kind, State
  <2>3. fresh.deps = {}
    BY DEF NewRow
  <2>4. merge = [fresh EXCEPT !.target = p]
    BY DEF MergeRow
  <2> HIDE DEF fresh, merge
  <2> QED
    BY <2>2, <2>3, <2>4, <1>1 DEF Row
<1> HIDE DEF row, merge, state
<1>5. /\ V \in Seq(Row) /\ Len(V) = Len(T)
      /\ \A i \in Rows(T) : V[i].deps = T[i].deps
  BY <1>1, <1>3, ExceptSeq DEF Rows
<1>6. CASE Accept(T, p) = V
  <2>1. WellFormed(V)
    BY <1>6
  <2>2. Inherits(V, T)
    BY <2>1, <1>3, OneRowInherits
  <2> HIDE DEF V
  <2> QED
    BY <2>2, <1>6
<1> HIDE DEF V
<1>7. CASE Accept(T, p) = Append(V, merge)
  <2>1. /\ <<merge>> \in Seq(Row) /\ Rows(<<merge>>) = {1}
        /\ <<merge>>[1] = merge /\ Append(V, merge) = V \o <<merge>>
    BY <1>4, <1>5, AppendIsConcat DEF Rows
  <2>2. WellFormed(V \o <<merge>>)
    BY <2>1, <1>7
  <2>3. \A i \in Rows(<<merge>>) : <<merge>>[i].deps = {}
    BY <2>1, <1>4
  <2>4. Inherits(V \o <<merge>>, T)
    BY <2>1, <2>2, <2>3, <1>5, ConcatInherits
  <2> QED
    BY <2>1, <2>4, <1>7
<1> QED
  BY <1>2, <1>6, <1>7

\* A rejection: back to the queue, blocked, or superseded.
LEMMA RejectInherits ==
    ASSUME NEW T, WellFormed(T), NEW p \in Rows(T), WellFormed(Reject(T, p))
    PROVE  Inherits(Reject(T, p), T)
<1>1. T[p] \in Row
  BY ElementOfSeq DEF WellFormed, Rows
<1>2. ASSUME NEW state, Reject(T, p) = [T EXCEPT ![p].state = state]
      PROVE  Inherits(Reject(T, p), T)
  <2> DEFINE row == [T[p] EXCEPT !.state = state]
  <2>1. row.deps = T[p].deps
    BY <1>1 DEF Row
  <2>2. Reject(T, p) = [T EXCEPT ![p] = row]
    BY <1>2
  <2> HIDE DEF row
  <2>3. WellFormed([T EXCEPT ![p] = row])
    BY <2>2
  <2>4. Inherits([T EXCEPT ![p] = row], T)
    BY <2>1, <2>3, OneRowInherits
  <2> QED
    BY <2>2, <2>4
<1>3. CASE Reject(T, p) = Supersession(T, p, NextTier(T[p].model), "ready")
            /\ HasNextTier(T[p].model)
  BY <1>3, NextTierIsAModel, SupersessionInherits DEF State
<1> QED
  BY <1>2, <1>3 DEF Reject, Escalates

\* A verdict, with the tally.
LEMMA ReviewInherits ==
    ASSUME Inv, Inv', NEW t \in Id, NEW agent, NEW verdict, SubmitReview(t, agent, verdict)
    PROVE  Inherits(task', task)
<1> DEFINE row == Submitted(task[t], "done", verdict, {})
           U == [task EXCEPT ![t] = row]
           p == task[t].target
<1>1. /\ InProgressBy(t, agent) /\ task[t].kind = "review"
      /\ verdict \in {"approve", "reject"}
      /\ task' = IF p = NoTask THEN U ELSE Aggregated(U, p)
  BY DEF SubmitReview
<1>2. /\ t \in Rows(task) /\ t \in 1..Len(task) /\ task[t] \in Row /\ task \in Seq(Row)
      /\ WellFormed(task) /\ WellFormed(task')
  BY ThisRow DEF Inv, WellFormed, Rows
<1>3. WellFormed(U) /\ Gate(U)
  BY <1>1, RecordingKeepsGate
<1>4. t \in Rows(U) /\ U[t] = row
  BY <1>2, LenProperties, ExceptSeq DEF Rows, WellFormed
<1>5. row.kind = "review" /\ row.target = p /\ row.deps = task[t].deps
  BY <1>1, <1>2 DEF Submitted, Row
<1> HIDE DEF row, p
<1>6. Inherits(U, task)
  BY <1>2, <1>3, <1>5, OneRowInherits
<1> HIDE DEF U
<1>7. CASE p # NoTask
  <2>1. p \in Rows(U)
    BY <1>3, <1>4, <1>5, <1>7, UnderReview
  <2>2. task' = U \/ task' = Accept(U, p) \/ task' = Reject(U, p)
    BY <1>1, <1>7 DEF Aggregated
  <2>3. CASE task' = U
    BY <2>3, <1>6
  <2>4. CASE task' = Accept(U, p) \/ task' = Reject(U, p)
    <3>1. Inherits(task', U)
      BY <2>1, <2>4, <1>2, <1>3, AcceptInherits, RejectInherits
    <3> QED
      BY <3>1, <1>6, InheritsOn
  <2> QED
    BY <2>2, <2>3, <2>4
<1> QED
  BY <1>1, <1>6, <1>7

\* A reference within the batch resolves to the position that DependsOnInput names, any
\* other one to a row that exists.
LEMMA PlannedDeps ==
    ASSUME NEW batch, Len(batch) \in Nat, Len(task) \in Nat, BatchIsValid(batch),
           NEW i \in 1..Len(batch), NEW d \in PlannedRow(batch, batch[i]).deps
    PROVE  \/ d \in Id
           \/ \E j \in 1..Len(batch) : d = Len(task) + j /\ DependsOnInput(batch, i, j)
<1>1. PICK ref \in batch[i].dependsOn : d = Resolved(batch, ref)
  BY DEF PlannedRow, NewRow
<1>2. CASE Keyed(batch, ref) # {}
  <2>1. Keyed(batch, ref) \in SUBSET (1..Len(batch))
    BY DEF Keyed
  <2>2. \E k \in Keyed(batch, ref) : \A j \in Keyed(batch, ref) : j <= k
    BY <1>2, <2>1, LastPosition
  <2>3. LastKeyed(batch, ref) \in Keyed(batch, ref)
    BY <2>2 DEF LastKeyed
  <2>4. d = Len(task) + LastKeyed(batch, ref) /\ DependsOnInput(batch, i, LastKeyed(batch, ref))
    BY <1>1, <1>2 DEF Resolved, DependsOnInput
  <2> QED
    BY <2>1, <2>3, <2>4
<1>3. CASE Keyed(batch, ref) = {}
  BY <1>1, <1>3 DEF Resolved, BatchIsValid
<1> QED
  BY <1>2, <1>3

\* Planning: the old rows are closed, and below a new one are only inputs of lower rank.
LEMMA CreateInherits ==
    ASSUME Inv, Inv', NEW batch \in Batches, CreateTasks(batch)
    PROVE  Inherits(task', task)
<1> DEFINE n == Len(task)
           S == [i \in 1..Len(batch) |-> PlannedRow(batch, batch[i])]
<1>1. task' = task \o S /\ BatchIsValid(batch)
  BY DEF CreateTasks
<1>2. /\ batch \in Seq(Input) /\ Len(batch) \in Nat /\ n \in Nat
      /\ WellFormed(task) /\ WellFormed(task') /\ task \in Seq(Row)
  BY BatchAssumption, LenProperties DEF Inv, WellFormed
<1>3. S \in Seq(Row) /\ Len(S) = Len(batch)
  <2>1. \A i \in 1..Len(batch) : S[i] \in Row
    BY <1>1, <1>2, PlannedRowIsHarmless
  <2>2. S \in [1..Len(batch) -> Row]
    BY <2>1
  <2> QED
    BY <2>2, <1>2, Tabulated
<1>4. \A i \in 1..Len(batch) : S[i] = PlannedRow(batch, batch[i])
  OBVIOUS
<1> HIDE DEF S
<1>5. /\ Len(task') = n + Len(batch)
      /\ \A i \in 1..n + Len(batch) : task'[i] = IF i <= n THEN task[i] ELSE S[i - n]
  <2>1. /\ Len(task \o S) = n + Len(S)
        /\ \A i \in 1..n + Len(S) : (task \o S)[i] = IF i <= n THEN task[i] ELSE S[i - n]
    BY <1>2, <1>3, ConcatProperties
  <2> HIDE DEF n
  <2> QED
    BY <2>1, <1>1, <1>3
<1>6. Rows(task) = 1..n /\ Rows(task') = 1..(n + Len(batch)) /\ Id = 1..n
  BY <1>5 DEF Rows, Id
<1>7. \A i \in Rows(task) : i \in Rows(task') /\ task'[i] = task[i]
  BY <1>2, <1>5, <1>6
<1>8. ASSUME NEW i \in Rows(task'), i \notin Rows(task), NEW d \in task'[i].deps
      PROVE  \/ d \in Rows(task)
             \/ d - n \in 1..Len(batch) /\ DependsOnInput(batch, i - n, d - n)
  <2>1. i - n \in 1..Len(batch) /\ task'[i] = PlannedRow(batch, batch[i - n])
    BY <1>2, <1>4, <1>5, <1>6, <1>8
  <2>2. \/ d \in Id
        \/ \E j \in 1..Len(batch) : d = n + j /\ DependsOnInput(batch, i - n, j)
    BY <2>1, <1>1, <1>2, <1>8, PlannedDeps
  <2>3. \A j \in 1..Len(batch) : (n + j) - n = j
    BY <1>2
  <2> QED
    BY <2>2, <2>3, <1>6
<1>9. ASSUME NEW R \in SUBSET Rows(task), Closed(task, R)
      PROVE  R \in SUBSET Rows(task') /\ Closed(task', R)
  BY <1>7, <1>9 DEF Closed
<1>10. ASSUME NEW a \in Rows(task), NEW b \in Rows(task), ~Reaches(task, a, b)
       PROVE  ~Reaches(task', a, b)
  <2>1. PICK R \in SUBSET Rows(task) : a \in R /\ Closed(task, R) /\ b \notin R
    BY <1>10 DEF Reaches, Rows
  <2>2. R \in SUBSET Rows(task') /\ Closed(task', R)
    BY <2>1, <1>9
  <2> QED
    BY <2>1, <2>2 DEF Reaches, Rows
<1>11. ASSUME NoCycle(task), NEW t \in Rows(task'), NEW d \in task'[t].deps
       PROVE  ~Reaches(task', d, t)
  <2>1. CASE t \in Rows(task)
    <3>1. d \in Rows(task) /\ ~Reaches(task, d, t)
      BY <2>1, <1>2, <1>7, <1>11, DepsAreRows DEF NoCycle
    <3> QED
      BY <2>1, <3>1, <1>10
  <2>2. CASE t \notin Rows(task) /\ d \in Rows(task)
    <3>1. Closed(task, Rows(task))
      BY <1>2, DepsAreRows DEF Closed
    <3>2. Rows(task) \in SUBSET Rows(task') /\ Closed(task', Rows(task))
      BY <3>1, <1>9
    <3> QED
      BY <2>2, <3>2 DEF Reaches, Rows
  <2>3. CASE t \notin Rows(task) /\ d \notin Rows(task)
    <3>1. PICK rank \in [1..Len(batch) -> 1..Len(batch)] :
                \A i, j \in 1..Len(batch) : DependsOnInput(batch, i, j) => rank[j] < rank[i]
      BY PlannerAssumption
    <3>2. /\ d \in Rows(task') /\ t - n \in 1..Len(batch)
          /\ d - n \in 1..Len(batch) /\ DependsOnInput(batch, t - n, d - n)
      <4>1. d \in Rows(task')
        BY <1>2, <1>11, DepsAreRows
      <4>2. d - n \in 1..Len(batch) /\ DependsOnInput(batch, t - n, d - n)
        BY <2>3, <1>8, <1>11
      <4>3. t - n \in 1..Len(batch)
        BY <2>3, <1>2, <1>6
      <4> QED
        BY <4>1, <4>2, <4>3
    <3> DEFINE R == Rows(task) \cup
                    {k \in Rows(task') : k - n \in 1..Len(batch) /\ rank[k - n] <= rank[d - n]}
    <3>3. /\ rank[d - n] \in Nat /\ rank[t - n] \in Nat /\ rank[d - n] < rank[t - n]
      BY <3>1, <3>2
    <3>4. R \in SUBSET Rows(task') /\ d \in R /\ t \notin R
      BY <2>3, <3>2, <3>3, <1>7
    <3>5. ASSUME NEW k \in R, NEW e \in task'[k].deps PROVE e \in R
      <4>1. k \in Rows(task') /\ e \in Rows(task')
        BY <3>4, <3>5, <1>2, DepsAreRows
      <4>2. CASE k \in Rows(task)
        BY <4>2, <3>5, <1>2, <1>7, DepsAreRows
      <4>3. CASE k \notin Rows(task)
        <5>1. k - n \in 1..Len(batch) /\ rank[k - n] <= rank[d - n]
          BY <4>3
        <5>2. \/ e \in Rows(task)
              \/ e - n \in 1..Len(batch) /\ rank[e - n] < rank[k - n]
          BY <4>1, <4>3, <5>1, <3>1, <3>5, <1>8
        <5>3. e - n \in 1..Len(batch) /\ rank[e - n] < rank[k - n]
                => rank[e - n] <= rank[d - n]
          <6>1. \A j \in 1..Len(batch) : rank[j] \in Nat
            BY <3>1
          <6> QED
            BY <6>1, <5>1, <3>3, SMTT(30)
        <5> QED
          BY <4>1, <5>2, <5>3
      <4> QED
        BY <4>2, <4>3
    <3>6. Closed(task', R)
      BY <3>5 DEF Closed
    <3> HIDE DEF R
    <3> QED
      BY <3>4, <3>6 DEF Reaches, Rows
  <2> QED
    BY <2>1, <2>2, <2>3
<1> QED
  BY <1>7, <1>10, <1>11 DEF Inherits, NoCycle

\* Whatever the board does, it closes no cycle and joins no rows that were apart.
LEMMA BoardInherits ==
    ASSUME Inv, Inv', Next
    PROVE  Inherits(task', task)
<1>1. ASSUME NEW batch \in Batches, CreateTasks(batch) PROVE Inherits(task', task)
  BY <1>1, CreateInherits
<1>2. ASSUME NEW t \in Id, AgentStep(t) PROVE Inherits(task', task)
  <2>1. ASSUME NEW agent \in Agent, NEW links \in Submissions, SubmitWork(t, agent, links)
        PROVE  Inherits(task', task)
    BY <2>1, WorkInherits
  <2>2. ASSUME NEW agent \in Agent, NEW verdict \in Verdict, SubmitReview(t, agent, verdict)
        PROVE  Inherits(task', task)
    BY <2>2, ReviewInherits
  <2> QED
    BY <1>2, <2>1, <2>2, PlainStepInherits DEF AgentStep
<1>3. ASSUME NEW t \in Id, NEW model \in Models, SupersedeTask(t, model)
      PROVE  Inherits(task', task)
  <2>1. task' = Supersession(task, t, model, "backlog") /\ model \in ModelName
    BY <1>3 DEF SupersedeTask, ModelName
  <2>2. t \in Rows(task) /\ WellFormed(task)
    BY ThisRow DEF Inv
  <2> QED
    BY <2>1, <2>2, SupersessionInherits DEF State
<1> QED
  BY <1>1, <1>2, <1>3, PlainStepInherits DEF Next

-----------------------------------------------------------------------------
(* Writing an edit that was safe when it was checked, and still is.        *)

From(T, x) == {y \in Rows(T) : Reaches(T, x, y)}

\* What a row reaches is a closed set that holds it.
LEMMA FromIsClosed ==
    ASSUME NEW T, WellFormed(T), NEW x \in Rows(T)
    PROVE  From(T, x) \in SUBSET Rows(T) /\ x \in From(T, x) /\ Closed(T, From(T, x))
<1>1. x \in From(T, x)
  BY DEF From, Reaches
<1>2. ASSUME NEW y \in From(T, x), NEW d \in T[y].deps PROVE d \in From(T, x)
  <2>1. y \in Rows(T) /\ Reaches(T, x, y)
    BY <1>2 DEF From
  <2>2. d \in Rows(T)
    BY <2>1, <1>2, DepsAreRows
  <2>3. Reaches(T, x, d)
    BY <2>1, <1>2 DEF Reaches, Closed
  <2> QED
    BY <2>2, <2>3 DEF From
<1> QED
  BY <1>1, <1>2 DEF From, Closed

\* Paths join.
LEMMA ReachesOn ==
    ASSUME NEW T, NEW x, NEW y, NEW z, Reaches(T, x, y), Reaches(T, y, z)
    PROVE  Reaches(T, x, z)
  BY DEF Reaches

\* An edge leads somewhere.
LEMMA EdgeReaches ==
    ASSUME NEW T, NEW y, NEW d \in T[y].deps
    PROVE  Reaches(T, y, d)
  BY DEF Reaches, Closed

\* New dependencies that do not reach the row close no cycle, through the row or past
\* it: a path from one of the others' dependencies that now passes the row either does
\* not come back, or showed that a new dependency reached the row all along.
LEMMA SafeWrite ==
    ASSUME NEW T, WellFormed(T), NoCycle(T), NEW t \in Rows(T),
           NEW D \in SUBSET Rows(T), \A d \in D : ~Reaches(T, d, t),
           NEW U, Rows(U) = Rows(T), U[t].deps = D,
           \A i \in Rows(T) : i # t => U[i].deps = T[i].deps
    PROVE  NoCycle(U)
<1>1. ASSUME NEW R \in SUBSET Rows(T), Closed(T, R), t \notin R PROVE Closed(U, R)
  BY <1>1 DEF Closed
<1>2. ASSUME NEW u \in Rows(U), NEW d \in U[u].deps
      PROVE  \E R \in SUBSET Rows(U) : d \in R /\ Closed(U, R) /\ u \notin R
  <2>1. CASE u = t
    <3>1. d \in Rows(T) /\ ~Reaches(T, d, t)
      BY <2>1, <1>2
    <3>2. /\ From(T, d) \in SUBSET Rows(T) /\ d \in From(T, d) /\ Closed(T, From(T, d))
          /\ t \notin From(T, d)
      BY <3>1, FromIsClosed DEF From
    <3> QED
      BY <2>1, <3>2, <1>1
  <2>2. CASE u # t
    <3>1. d \in T[u].deps /\ u \in Rows(T)
      BY <2>2, <1>2
    <3>2. d \in Rows(T) /\ ~Reaches(T, d, u)
      BY <3>1, DepsAreRows DEF NoCycle
    <3>3. /\ From(T, d) \in SUBSET Rows(T) /\ d \in From(T, d) /\ Closed(T, From(T, d))
          /\ u \notin From(T, d)
      BY <3>2, FromIsClosed DEF From
    <3>4. CASE t \notin From(T, d)
      BY <3>3, <3>4, <1>1
    <3>5. CASE t \in From(T, d)
      <4> DEFINE R == From(T, d) \cup UNION {From(T, e) : e \in D}
      <4>1. \A e \in D : /\ From(T, e) \in SUBSET Rows(T) /\ e \in From(T, e)
                         /\ Closed(T, From(T, e))
        BY FromIsClosed
      <4>2. R \in SUBSET Rows(T) /\ D \subseteq R /\ d \in R
        BY <3>3, <4>1
      <4>3. ASSUME NEW i \in R, i # t PROVE U[i].deps \subseteq R
        <5>1. U[i].deps = T[i].deps
          BY <4>2, <4>3
        <5>2. CASE i \in From(T, d)
          BY <5>1, <5>2, <3>3 DEF Closed
        <5>3. CASE \E e \in D : i \in From(T, e)
          BY <5>1, <5>3, <4>1 DEF Closed
        <5> QED
          BY <5>2, <5>3
      <4>4. Closed(U, R)
        BY <4>2, <4>3 DEF Closed
      <4>5. ASSUME NEW e \in D PROVE u \notin From(T, e)
        <5>1. SUFFICES ASSUME Reaches(T, e, u) PROVE FALSE
          BY DEF From
        <5>2. Reaches(T, u, d) /\ Reaches(T, d, t)
          BY <3>1, <3>5, EdgeReaches DEF From
        <5>3. Reaches(T, e, t)
          BY <5>1, <5>2, ReachesOn
        <5> QED
          BY <5>3
      <4>6. u \notin R
        BY <3>3, <4>5
      <4> HIDE DEF R
      <4> QED
        BY <4>2, <4>4, <4>6
    <3> QED
      BY <3>4, <3>5
  <2> QED
    BY <2>1, <2>2
<1> QED
  BY <1>2 DEF NoCycle, Reaches, Rows

-----------------------------------------------------------------------------
(* The invariant and the theorem.                                          *)

\* A pending edit is about rows of the table and would not close a cycle now either.
StillSafe(edit) ==
    /\ edit.row \in Rows(task)
    /\ edit.deps \subseteq Rows(task)
    /\ \A d \in edit.deps : ~Reaches(task, d, edit.row)

DepInv ==
    /\ Inv
    /\ NoCycle(task)
    /\ \A edit \in edits : edit.editor \in Editor /\ StillSafe(edit)
    /\ \A edit, other \in edits : edit = other

OneEditor == \A e, f \in Editor : e = f

\* What a step of the board leaves of it.
LEMMA BoardStepKeeps ==
    ASSUME DepInv, Next, UNCHANGED edits
    PROVE  DepInv'
<1>1. Inv'
  BY NextKeepsInv DEF DepInv
<1>2. Inherits(task', task)
  BY <1>1, BoardInherits DEF DepInv
<1>3. NoCycle(task')
  BY <1>2 DEF DepInv, Inherits
<1>4. ASSUME NEW edit \in edits PROVE edit.editor \in Editor /\ StillSafe(edit)'
  <2>1. edit.editor \in Editor /\ StillSafe(edit)
    BY DEF DepInv
  <2>2. /\ edit.row \in Rows(task') /\ edit.deps \subseteq Rows(task')
        /\ \A d \in edit.deps : ~Reaches(task', d, edit.row)
    BY <2>1, <1>2 DEF StillSafe, Inherits
  <2> QED
    BY <2>1, <2>2 DEF StillSafe
<1> QED
  BY <1>1, <1>3, <1>4 DEF DepInv

\* The first database call: nobody else's edit is pending.
LEMMA CheckKeeps ==
    ASSUME OneEditor, DepInv, NEW e \in Editor, NEW t \in Id, NEW deps \in SUBSET Id,
           CheckEdit(e, t, deps)
    PROVE  DepInv'
<1> DEFINE edit == [editor |-> e, row |-> t, deps |-> deps]
<1>1. /\ task' = task /\ edits' = edits \cup {edit}
      /\ \A other \in edits : other.editor # e
      /\ \A d \in deps : ~Reaches(task, d, t)
  BY DEF CheckEdit, WouldCreateCycle
<1>2. edits = {}
  BY <1>1 DEF DepInv, OneEditor
<1>3. Inv'
  BY <1>1 DEF DepInv, Inv, WellFormed, Gate
<1>4. edit.editor \in Editor /\ StillSafe(edit)'
  BY <1>1 DEF StillSafe, Id, Rows
<1> HIDE DEF edit
<1> QED
  BY <1>1, <1>2, <1>3, <1>4 DEF DepInv

\* The second.
LEMMA WriteKeeps ==
    ASSUME DepInv, NEW edit \in edits, WriteEdit(edit)
    PROVE  DepInv'
<1> DEFINE t == edit.row
           row == [task[t] EXCEPT !.deps = edit.deps]
<1>1. task' = [task EXCEPT ![t] = row] /\ edits' = edits \ {edit}
  BY DEF WriteEdit
<1>2. /\ Inv /\ NoCycle(task) /\ edits' = {}
      /\ t \in Rows(task) /\ edit.deps \subseteq Rows(task)
      /\ \A d \in edit.deps : ~Reaches(task, d, t)
  BY <1>1 DEF DepInv, StillSafe
<1>3. /\ t \in Id /\ t \in 1..Len(task) /\ Len(task) \in Nat
      /\ task[t] \in Row /\ Refers(task[t], Len(task))
      /\ task \in Seq(Row) /\ WellFormed(task)
  BY <1>2, ThisRow DEF Id, Rows, Inv, WellFormed
<1>4. edit.deps \subseteq 1..Len(task) /\ edit.deps \in SUBSET Nat
  BY <1>2 DEF Rows
<1>5. row \in Row /\ Refers(row, Len(task)) /\ row.deps = edit.deps
  BY <1>3, <1>4 DEF Row, Refers
<1>6. Calm(row, task[t])
  BY <1>3 DEF Row, Calm, SameReview, IsAccepted, VerdictIsFinal
<1> HIDE DEF row, t
<1>7. Inv'
  BY <1>1, <1>2, <1>3, <1>5, <1>6, CalmStep
<1>8. /\ Len(task') = Len(task)
      /\ \A i \in 1..Len(task) : task'[i] = IF i = t THEN row ELSE task[i]
  BY <1>1, <1>3, <1>5, ExceptSeq
<1>9. NoCycle(task')
  <2>1. /\ Rows(task') = Rows(task) /\ task'[t].deps = edit.deps
        /\ \A i \in Rows(task) : i # t => task'[i].deps = task[i].deps
    BY <1>3, <1>5, <1>8 DEF Rows
  <2> QED
    BY <2>1, <1>2, <1>3, SafeWrite
<1> QED
  BY <1>2, <1>7, <1>9 DEF DepInv

\* As long as no two edits are under way at once, no row ever waits for itself, through
\* any number of rows, whatever is planned, superseded or escalated between the check
\* of an edit and its write.
THEOREM SerialEditsStayAcyclic == OneEditor => (DepSpec => []Acyclic)
<1> SUFFICES ASSUME OneEditor PROVE DepSpec => []Acyclic
  OBVIOUS
<1>1. DepInit => DepInv
  <2> SUFFICES ASSUME DepInit PROVE DepInv
    OBVIOUS
  <2>1. task = <<>> /\ task \in Seq(Row) /\ Len(task) = 0 /\ edits = {}
    BY EmptySeq DEF DepInit, Init
  <2> QED
    BY <2>1 DEF DepInv, NoCycle, Inv, WellFormed, Gate, Rows
<1>2. DepInv /\ [DepNext]_depvars => DepInv'
  <2> SUFFICES ASSUME DepInv, [DepNext]_depvars PROVE DepInv'
    OBVIOUS
  <2>1. CASE Next /\ UNCHANGED edits
    BY <2>1, BoardStepKeeps
  <2>2. ASSUME NEW e \in Editor, NEW t \in Id, NEW deps \in SUBSET Id, CheckEdit(e, t, deps)
        PROVE  DepInv'
    BY <2>2, CheckKeeps
  <2>3. ASSUME NEW edit \in edits, WriteEdit(edit) PROVE DepInv'
    BY <2>3, WriteKeeps
  <2>4. ASSUME NEW edit \in edits, DropEdit(edit) PROVE DepInv'
    BY <2>4 DEF DropEdit, DepInv, StillSafe, Inv, WellFormed, Gate
  <2>5. CASE UNCHANGED depvars
    BY <2>5 DEF depvars, DepInv, StillSafe, Inv, WellFormed, Gate
  <2> QED
    BY <2>1, <2>2, <2>3, <2>4, <2>5 DEF DepNext, EditStep
<1>3. DepInv => Acyclic
  BY DEF DepInv, NoCycle, Acyclic, Id, Rows
<1> QED
  BY <1>1, <1>2, <1>3, PTL DEF DepSpec
=============================================================================

---------------------------- MODULE TaskBoardOrder ----------------------------
(***************************************************************************)
(* Theorems about OrderlySpec: what the task board keeps as long as no     *)
(* person cuts a review round short, replaces finished work or builds on a *)
(* row that was replaced, for every fleet, ladder, thresholds and planner. *)
(***************************************************************************)
EXTENDS TaskBoardProofs

-----------------------------------------------------------------------------
(* The inductive invariant.  What makes the loop safe is Told: a reviewer  *)
(* that has not spoken is one of the latest round of a row that is still   *)
(* in review, or given up.  So no verdict is late.                         *)

\* The states in which nobody works on a row; and those that rest on its dependencies.
Queued == {"backlog", "ready", "review", "approved"}
Working == {"in_progress", "review", "approved", "done"}

Unleased(row) == row.state \in Queued => row.lease = "none"
OnlyReplacedOnce(row) == row.supersededBy # NoTask => row.state = "superseded"
NoReviewOfReview(row) == row.kind = "review" => row.state # "approved"

\* r is a reviewer of p that has yet to speak.
Pending(T, r, p) == T[r].kind = "review" /\ T[r].target = p /\ T[r].state # "done"

Told(T, r) ==
    \A p \in Rows(T) :
        Pending(T, r, p) => T[p].round = T[r].round /\ T[p].state \in {"review", "failed"}

Awaits(T, p) ==
    T[p].kind = "implement" /\ T[p].state = "review" /\ ~T[p].held =>
        \E r \in Rows(T) : Pending(T, r, p) /\ T[r].round = T[p].round

BuildsOnCurrent(T, i) == \A d \in T[i].deps : T[d].supersededBy = NoTask

RestsOn(T, i) == T[i].state \in Working => \A d \in T[i].deps : T[d].state = "done"

\* The invariant of a table.  Between a verdict and its tally, and between a submission
\* and its review rows, the row x under review awaits nobody yet; x is NoTask otherwise.
Order(T, x) ==
    \A i \in Rows(T) :
        /\ Unleased(T[i]) /\ OnlyReplacedOnce(T[i]) /\ NoReviewOfReview(T[i])
        /\ Told(T, i) /\ BuildsOnCurrent(T, i) /\ RestsOn(T, i)
        /\ i # x => Awaits(T, i)

\* Work in the queue was there before, or comes back to it; rejected, within its budget.
Owed == {"backlog", "ready", "in_progress"}

Requeued(new, old) ==
    /\ new.model = old.model /\ new.round = old.round
    /\ \/ old.state \in Owed \cup {"approved", "blocked"}
       \/ old.state = "review" /\ ~OverThreshold(new)

\* Work under review, or through it, was so before; or has been handed in for a new round.
ThroughReview(new, old) ==
    \/ old.state \in {new.state, "review"} /\ new.round = old.round
    \/ new.state = "review" /\ old.state = "in_progress" /\ new.round = old.round + 1

\* What a step keeps of a row: where it ended, and what replaced it; nobody is handed
\* a row that is leased; verdicts come from those who work; and work goes these ways,
\* through review under the name of who handed it in.
Keeps(new, old) ==
    /\ old.state \in Final => new.state = old.state
    /\ old.supersededBy # NoTask => new.supersededBy = old.supersededBy
    /\ new.state = "in_progress" /\ new.assignee # old.assignee => old.lease # "live"
    /\ new.verdict # old.verdict => old.state = "in_progress"
    /\ old.kind = "implement" =>
        /\ new.state \in Owed => Requeued(new, old)
        /\ new.state \in {"review", "approved"} =>
                ThroughReview(new, old) /\ new.assignee = old.assignee
        /\ new.state = "done" =>
                old.state \in {"approved", "done"} \/ (old.state = "review" /\ IsNoOp(old))
        /\ old.state = "approved" /\ new.state = "approved" /\ new.held = old.held =>
                new = old

\* A row that does not change.
LEMMA StillKeeps ==
    ASSUME NEW row PROVE Keeps(row, row)
  BY DEF Keeps, Requeued, ThroughReview, Owed

\* No work but p moves, and what is added is not under way.
MovesOnly(U, T, p) ==
    /\ \A i \in Rows(T) : T[i].kind = "implement" /\ i # p => U[i].state = T[i].state
    /\ \A i \in Rows(U) : i \notin Rows(T) => U[i].state \in {"backlog", "ready"}

Kept(U, T) ==
    /\ \A i \in Rows(T) : Keeps(U[i], T[i])
    /\ \E p : MovesOnly(U, T, p)

\* A table that does not change.
LEMMA StillKept ==
    ASSUME NEW T PROVE Kept(T, T)
  BY StillKeeps DEF Kept, MovesOnly

-----------------------------------------------------------------------------
(* One row changes.                                                        *)

\* Row t may become row, if y is the row that then awaits nobody.
Fits(T, t, row, y) ==
    /\ row.kind = T[t].kind /\ row.target = T[t].target /\ row.deps = T[t].deps
    /\ row.supersededBy = T[t].supersededBy
    /\ T[t].state \in Final => row.state = T[t].state
    /\ Unleased(row) /\ NoReviewOfReview(row)
    /\ row.kind = "review" => row.round = T[t].round
    /\ row.kind = "review" /\ row.state = "done" /\ T[t].state # "done" => y = row.target
    /\ row.state \in Working =>
            T[t].state \in Working \/ \A d \in row.deps : T[d].state = "done"
    /\ \A r \in Rows(T) : Pending(T, r, t) =>
            row.round = T[r].round /\ row.state \in {"review", "failed"}
    /\ \/ t = y
       \/ ~(row.kind = "implement" /\ row.state = "review" /\ ~row.held)
       \/ \E r \in Rows(T) : Pending(T, r, t) /\ T[r].round = row.round

\* U is T with row in place of row t.
Replaced(U, T, t, row) ==
    /\ Rows(U) = Rows(T) /\ t \in Rows(T)
    /\ \A i \in Rows(T) : U[i] = IF i = t THEN row ELSE T[i]

\* In a gated table no review row reviews itself or another, and ids are of the table.
LEMMA ReviewTargets ==
    ASSUME NEW T, WellFormed(T), Gate(T), NEW r \in Rows(T)
    PROVE  /\ \A p \in Rows(T) : Pending(T, r, p) => T[p].kind = "implement"
           /\ T[r].deps \subseteq Rows(T)
<1>1. Aimed(T, r) /\ Refers(T[r], Len(T))
  BY DEF Gate, WellFormed
<1>2. \A p \in Rows(T) : p # NoTask
  BY DEF Rows, NoTask
<1> QED
  BY <1>1, <1>2 DEF Aimed, Refers, Rows, Pending

\* A row that fits keeps the order.
LEMMA FitsKeepsOrder ==
    ASSUME NEW T, WellFormed(T), Gate(T), NEW x, NEW y, Order(T, x),
           NEW t, NEW row, NEW U, Replaced(U, T, t, row), Fits(T, t, row, y),
           x \in {NoTask, t, y}
    PROVE  Order(U, y)
<1>1. \A i \in Rows(T) : i # NoTask
  BY DEF Rows, NoTask
<1>2. /\ t \in Rows(T) /\ Rows(U) = Rows(T) /\ U[t] = row
      /\ \A i \in Rows(T) : i # t => U[i] = T[i]
  BY DEF Replaced
<1>3. ASSUME NEW i \in Rows(T)
      PROVE  Unleased(U[i]) /\ OnlyReplacedOnce(U[i]) /\ NoReviewOfReview(U[i])
  <2>1. CASE i = t
    <3>1. OnlyReplacedOnce(row)
      BY <1>2 DEF Order, Fits, OnlyReplacedOnce, Final
    <3> QED
      BY <2>1, <3>1, <1>2 DEF Fits
  <2>2. CASE i # t
    BY <2>2, <1>2 DEF Order
  <2> QED
    BY <2>1, <2>2
<1>4. ASSUME NEW i \in Rows(T), NEW p \in Rows(T), Pending(U, i, p)
      PROVE  /\ Pending(T, i, p) /\ U[i].round = T[i].round /\ (i = t => p # t)
  <2>1. CASE i = t
    <3>1. row.kind = "review" /\ row.target = p /\ row.state # "done"
      BY <1>2, <1>4, <2>1 DEF Pending
    <3>2. Pending(T, t, p) /\ row.round = T[t].round
      BY <3>1 DEF Fits, Final, Pending
    <3>3. T[p].kind = "implement"
      BY <3>2, <1>2, ReviewTargets
    <3> QED
      BY <2>1, <3>2, <3>3, <1>2 DEF Pending
  <2>2. CASE i # t
    BY <2>2, <1>2, <1>4 DEF Pending
  <2> QED
    BY <2>1, <2>2
<1>5. ASSUME NEW i \in Rows(T) PROVE Told(U, i)
  <2> SUFFICES ASSUME NEW p \in Rows(T), Pending(U, i, p)
               PROVE  U[p].round = U[i].round /\ U[p].state \in {"review", "failed"}
    BY <1>2 DEF Told
  <2>1. Pending(T, i, p) /\ U[i].round = T[i].round
    BY <1>4
  <2>2. T[p].round = T[i].round /\ T[p].state \in {"review", "failed"}
    BY <2>1 DEF Order, Told
  <2>3. CASE p = t
    BY <2>1, <2>3, <1>2 DEF Fits
  <2>4. CASE p # t
    BY <2>1, <2>2, <2>4, <1>2
  <2> QED
    BY <2>3, <2>4
<1>6. ASSUME NEW i \in Rows(T) PROVE U[i].deps = T[i].deps /\ U[i].supersededBy = T[i].supersededBy
  BY <1>2 DEF Fits
<1>7. ASSUME NEW i \in Rows(T) PROVE T[i].state = "done" => U[i].state = "done"
  BY <1>2 DEF Fits, Final
<1>8. ASSUME NEW i \in Rows(T) PROVE BuildsOnCurrent(U, i) /\ RestsOn(U, i)
  <2>1. T[i].deps \subseteq Rows(T)
    BY ReviewTargets
  <2>2. BuildsOnCurrent(T, i) /\ RestsOn(T, i)
    BY DEF Order
  <2>3. BuildsOnCurrent(U, i)
    BY <2>1, <2>2, <1>6 DEF BuildsOnCurrent
  <2>4. U[i].state \in Working => \A d \in T[i].deps : T[d].state = "done"
    <3>1. CASE i = t
      BY <3>1, <2>2, <1>2 DEF Fits, RestsOn
    <3>2. CASE i # t
      BY <3>2, <2>2, <1>2 DEF RestsOn
    <3> QED
      BY <3>1, <3>2
  <2> QED
    BY <2>1, <2>3, <2>4, <1>6, <1>7 DEF RestsOn
<1>9. ASSUME NEW r \in Rows(T), NEW p \in Rows(T), Pending(T, r, p), p # y
      PROVE  Pending(U, r, p) /\ U[r].round = T[r].round
  <2>1. CASE r = t
    BY <2>1, <1>2, <1>9 DEF Fits, Pending
  <2>2. CASE r # t
    BY <2>2, <1>2, <1>9 DEF Pending
  <2> QED
    BY <2>1, <2>2
<1>10. ASSUME NEW i \in Rows(T), i # y PROVE Awaits(U, i)
  <2>1. CASE i = t
    <3> SUFFICES ASSUME row.kind = "implement" /\ row.state = "review" /\ ~row.held
                 PROVE  \E r \in Rows(T) : Pending(U, r, t) /\ U[r].round = row.round
      BY <2>1, <1>2 DEF Awaits
    <3>1. PICK r \in Rows(T) : Pending(T, r, t) /\ T[r].round = row.round
      BY <2>1, <1>10 DEF Fits
    <3> QED
      BY <3>1, <2>1, <1>2, <1>9, <1>10
  <2>2. CASE i # t
    <3>1. U[i] = T[i] /\ Awaits(T, i)
      BY <2>2, <1>1, <1>2, <1>10 DEF Order
    <3>2. SUFFICES ASSUME T[i].kind = "implement" /\ T[i].state = "review" /\ ~T[i].held
                   PROVE  \E r \in Rows(T) : Pending(U, r, i) /\ U[r].round = T[i].round
      BY <3>1, <1>2 DEF Awaits
    <3>3. PICK r \in Rows(T) : Pending(T, r, i) /\ T[r].round = T[i].round
      BY <3>1, <3>2 DEF Awaits
    <3> QED
      BY <3>3, <1>9, <1>10
  <2> QED
    BY <2>1, <2>2
<1> QED
  BY <1>2, <1>3, <1>5, <1>8, <1>10 DEF Order

-----------------------------------------------------------------------------
(* A row is replaced.                                                      *)

\* Row t of T is retired in favour of a new row, to which the dependencies on it go.
Handed(U, T, t) ==
    LET heir == Len(T) + 1
    IN  /\ Rows(U) = Rows(T) \cup {heir}
        /\ \A i \in Rows(T) :
            /\ U[i].kind = T[i].kind /\ U[i].target = T[i].target
            /\ U[i].round = T[i].round /\ U[i].held = T[i].held
            /\ U[i].lease = T[i].lease /\ U[i].assignee = T[i].assignee
            /\ U[i].model = T[i].model /\ U[i].verdict = T[i].verdict
            /\ U[i].deps = {IF d = t THEN heir ELSE d : d \in T[i].deps}
            /\ U[i].state = IF i = t THEN "superseded" ELSE T[i].state
            /\ U[i].supersededBy = IF i = t THEN heir ELSE T[i].supersededBy
            /\ i # t /\ t \notin T[i].deps => U[i] = T[i]
        /\ U[heir].deps = U[t].deps /\ U[heir].state \in {"backlog", "ready"}
        /\ U[heir].lease = "none" /\ U[heir].supersededBy = NoTask
        /\ U[heir].target = NoTask /\ U[heir].round = 0 /\ ~U[heir].held

\* Supersession, column by column.
LEMMA SupersessionHands ==
    ASSUME NEW T, WellFormed(T), NEW t \in Rows(T),
           NEW model \in ModelName, NEW state \in {"backlog", "ready"}
    PROVE  Handed(Supersession(T, t, model, state), T, t)
<1> DEFINE heir == Len(T) + 1
           f == [i \in 1..Len(T) |-> Repointed(T[i], t, heir)]
           old == Retired(f[t], heir)
           g == [f EXCEPT ![t] = old]
           fresh == Replacement(f[t], state, model)
           U == Supersession(T, t, model, state)
<1>1. U = Append(g, fresh)
  BY DEF Supersession, HeirId
<1>2. /\ Len(T) \in Nat /\ heir \in Nat /\ t \in Nat /\ heir \notin Rows(T)
      /\ \A i \in Rows(T) : T[i] \in Row /\ Refers(T[i], Len(T))
  BY LenProperties, ElementOfSeq DEF WellFormed, Rows
<1>3. ASSUME NEW i \in Rows(T) PROVE f[i] = Repointed(T[i], t, heir) /\ f[i] \in Row
  <2>1. f[i] = Repointed(T[i], t, heir)
    BY DEF Rows
  <2> HIDE DEF f
  <2> QED
    BY <2>1, <1>2, RepointedRow
<1>4. f \in Seq(Row) /\ Len(f) = Len(T) /\ Rows(f) = Rows(T)
  <2>1. f \in [1..Len(T) -> Row]
    BY <1>3 DEF Rows
  <2> QED
    BY <2>1, <1>2, Tabulated DEF Rows
<1> HIDE DEF f
<1>5. ASSUME NEW i \in Rows(T)
      PROVE  /\ f[i].kind = T[i].kind /\ f[i].target = T[i].target
             /\ f[i].round = T[i].round /\ f[i].held = T[i].held
             /\ f[i].lease = T[i].lease /\ f[i].assignee = T[i].assignee
             /\ f[i].model = T[i].model /\ f[i].verdict = T[i].verdict
             /\ f[i].deps = {IF d = t THEN heir ELSE d : d \in T[i].deps}
             /\ f[i].state = T[i].state /\ f[i].supersededBy = T[i].supersededBy
  <2>1. T[i] \in Row /\ f[i] = Repointed(T[i], t, heir)
    BY <1>2, <1>3
  <2> QED
    BY <2>1 DEF Repointed, Row
<1>6. /\ old.kind = f[t].kind /\ old.target = f[t].target
      /\ old.round = f[t].round /\ old.held = f[t].held
      /\ old.lease = f[t].lease /\ old.assignee = f[t].assignee
      /\ old.model = f[t].model /\ old.verdict = f[t].verdict /\ old.deps = f[t].deps
      /\ old.state = "superseded" /\ old.supersededBy = heir
  <2>1. f[t] \in Row
    BY <1>3
  <2> QED
    BY <2>1 DEF Retired, Row
<1>7. /\ fresh.deps = f[t].deps /\ fresh.state = state /\ fresh.lease = "none"
      /\ fresh.supersededBy = NoTask /\ fresh.target = NoTask /\ fresh.round = 0
      /\ ~fresh.held
  BY DEF Replacement, NewRow
<1>8. old \in Row
  <2>1. Refers(f[t], heir)
    BY <1>2, <1>3, RepointedRow
  <2> QED
    BY <2>1, <1>2, <1>3, RetiredRow
<1> HIDE DEF old, fresh
<1>9. /\ g \in Seq(Row) /\ Len(g) = Len(T)
      /\ \A i \in Rows(T) : g[i] = IF i = t THEN old ELSE f[i]
  BY <1>4, <1>8, ExceptSeq DEF Rows
<1> HIDE DEF g, U
<1>10. fresh \in Row
  <2>1. Refers(f[t], heir)
    BY <1>2, <1>3, RepointedRow
  <2> QED
    BY <2>1, <1>2, <1>3, ReplacementRow DEF fresh, State
<1>11. /\ Len(U) = heir /\ U[heir] = fresh
       /\ \A i \in Rows(T) : U[i] = g[i]
  BY <1>1, <1>9, <1>10, AppendProperties DEF Rows
<1>12. Rows(U) = Rows(T) \cup {heir}
  BY <1>2, <1>11 DEF Rows
<1> HIDE DEF heir
<1>13. ASSUME NEW i \in Rows(T)
       PROVE  /\ U[i].kind = T[i].kind /\ U[i].target = T[i].target
              /\ U[i].round = T[i].round /\ U[i].held = T[i].held
              /\ U[i].lease = T[i].lease /\ U[i].assignee = T[i].assignee
              /\ U[i].model = T[i].model /\ U[i].verdict = T[i].verdict
              /\ U[i].deps = {IF d = t THEN heir ELSE d : d \in T[i].deps}
              /\ U[i].state = IF i = t THEN "superseded" ELSE T[i].state
              /\ U[i].supersededBy = IF i = t THEN heir ELSE T[i].supersededBy
  <2>1. CASE i = t
    <3>1. U[i] = old
      BY <2>1, <1>9, <1>11
    <3> QED
      BY <2>1, <3>1, <1>5, <1>6
  <2>2. CASE i # t
    <3>1. U[i] = f[i]
      BY <2>2, <1>9, <1>11
    <3> QED
      BY <2>2, <3>1, <1>5
  <2> QED
    BY <2>1, <2>2
<1>14. U[heir].deps = U[t].deps
  BY <1>5, <1>7, <1>11, <1>13
<1>15. /\ U[heir].state \in {"backlog", "ready"}
       /\ U[heir].lease = "none" /\ U[heir].supersededBy = NoTask
       /\ U[heir].target = NoTask /\ U[heir].round = 0 /\ ~U[heir].held
  BY <1>7, <1>11
<1>16. ASSUME NEW i \in Rows(T), i # t, t \notin T[i].deps
       PROVE  U[i] = T[i]
  <2>1. /\ U[i] = Repointed(T[i], t, heir)
        /\ {IF d = t THEN heir ELSE d : d \in T[i].deps} = T[i].deps
    BY <1>3, <1>9, <1>11, <1>16
  <2> QED
    BY <2>1, <1>2 DEF Repointed, Row
<1> QED
  BY <1>12, <1>13, <1>14, <1>15, <1>16 DEF Handed, U, heir

\* Replacing a row that is not finished, and that no reviewer is about to speak of, keeps
\* the order: nothing that was built on it had begun.
LEMMA HandingKeepsOrder ==
    ASSUME NEW T, WellFormed(T), Gate(T), NEW x, Order(T, x), NEW t \in Rows(T),
           x \in {NoTask, t}, NEW U, Handed(U, T, t), T[t].state \notin Final,
           \A r \in Rows(T) : ~Pending(T, r, t)
    PROVE  Order(U, NoTask)
<1> DEFINE heir == Len(T) + 1
<1>1. /\ heir \notin Rows(T) /\ Rows(U) = Rows(T) \cup {heir}
      /\ heir # NoTask /\ \A i \in Rows(T) : i # NoTask
  BY LenProperties DEF WellFormed, Rows, Handed, NoTask
<1>2. ASSUME NEW i \in Rows(T)
      PROVE  /\ U[i].kind = T[i].kind /\ U[i].target = T[i].target
             /\ U[i].round = T[i].round /\ U[i].held = T[i].held
             /\ U[i].lease = T[i].lease
             /\ U[i].deps = {IF d = t THEN heir ELSE d : d \in T[i].deps}
             /\ U[i].state = IF i = t THEN "superseded" ELSE T[i].state
             /\ U[i].supersededBy = IF i = t THEN heir ELSE T[i].supersededBy
  BY DEF Handed
<1>3. /\ U[heir].deps = U[t].deps /\ U[heir].state \in {"backlog", "ready"}
      /\ U[heir].lease = "none" /\ U[heir].supersededBy = NoTask
      /\ U[heir].target = NoTask
  BY DEF Handed
<1> HIDE DEF heir
<1>4. T[t].state # "done" /\ T[t].state # "superseded"
  BY DEF Final
<1>5. ASSUME NEW i \in Rows(T)
      PROVE  Unleased(U[i]) /\ OnlyReplacedOnce(U[i]) /\ NoReviewOfReview(U[i])
  <2>1. Unleased(T[i]) /\ OnlyReplacedOnce(T[i]) /\ NoReviewOfReview(T[i])
    BY DEF Order
  <2> QED
    BY <2>1, <1>2 DEF Unleased, OnlyReplacedOnce, NoReviewOfReview, Queued
<1>6. ASSUME NEW i \in Rows(T), NEW p \in Rows(T)
      PROVE  Pending(U, i, p) <=> Pending(T, i, p)
  BY <1>2, <1>4 DEF Pending
<1>7. ASSUME NEW i \in Rows(T) PROVE Told(U, i)
  <2>1. Told(T, i)
    BY DEF Order
  <2>2. ASSUME NEW p \in Rows(U), Pending(U, i, p)
        PROVE  U[p].round = U[i].round /\ U[p].state \in {"review", "failed"}
    <3>1. CASE p = heir
      <4>1. T[i].target \in 0..Len(T) /\ Len(T) \in Nat
        BY LenProperties DEF WellFormed, Refers
      <4> QED
        BY <3>1, <4>1, <2>2, <1>2 DEF Pending, heir
    <3>2. CASE p \in Rows(T)
      <4>1. Pending(T, i, p) /\ p # t
        BY <3>2, <2>2, <1>6
      <4> QED
        BY <3>2, <4>1, <2>1, <1>2 DEF Told
    <3> QED
      BY <3>1, <3>2, <1>1
  <2> QED
    BY <2>2 DEF Told
<1>8. ASSUME NEW i \in Rows(T)
      PROVE  \A d \in U[i].deps : U[d].supersededBy = NoTask
  <2> SUFFICES ASSUME NEW d \in U[i].deps PROVE U[d].supersededBy = NoTask
    OBVIOUS
  <2>1. T[i].deps \subseteq Rows(T) /\ BuildsOnCurrent(T, i)
    BY ReviewTargets DEF Order
  <2>2. d = heir \/ (d \in T[i].deps /\ d # t)
    BY <1>2
  <2> QED
    BY <2>1, <2>2, <1>2, <1>3 DEF BuildsOnCurrent
<1>9. ASSUME NEW i \in Rows(T) PROVE RestsOn(U, i)
  <2> SUFFICES ASSUME U[i].state \in Working, NEW d \in U[i].deps
               PROVE  U[d].state = "done"
    BY DEF RestsOn
  <2>1. T[i].deps \subseteq Rows(T) /\ RestsOn(T, i)
    BY ReviewTargets DEF Order
  <2>2. i # t /\ T[i].state \in Working
    BY <1>2 DEF Working
  <2>3. \A e \in T[i].deps : T[e].state = "done" /\ e # t
    BY <2>1, <2>2, <1>4 DEF RestsOn
  <2>4. d \in T[i].deps
    BY <2>3, <1>2
  <2> QED
    BY <2>1, <2>3, <2>4, <1>2
<1>10. ASSUME NEW i \in Rows(T) PROVE Awaits(U, i)
  <2>1. CASE i = t
    BY <2>1, <1>2 DEF Awaits
  <2>2. CASE i # t
    <3>1. Awaits(T, i)
      BY <2>2, <1>1 DEF Order
    <3> QED
      BY <2>2, <3>1, <1>1, <1>2, <1>6 DEF Awaits
  <2> QED
    BY <2>1, <2>2
<1>11. /\ Unleased(U[heir]) /\ OnlyReplacedOnce(U[heir]) /\ NoReviewOfReview(U[heir])
       /\ RestsOn(U, heir) /\ Awaits(U, heir)
  BY <1>3 DEF Unleased, OnlyReplacedOnce, NoReviewOfReview, RestsOn, Working, Awaits
<1>12. Told(U, heir)
  BY <1>1, <1>3 DEF Told, Pending
<1>13. BuildsOnCurrent(U, heir)
  BY <1>3, <1>8 DEF BuildsOnCurrent
<1> QED
  BY <1>1, <1>5, <1>7, <1>8, <1>9, <1>10, <1>11, <1>12, <1>13 DEF Order, BuildsOnCurrent

-----------------------------------------------------------------------------
(* Rows are added.                                                         *)

\* Row i of U, which is new, is about work in review if it is a review, and builds on
\* nothing that was replaced.
Fresh(U, T, i) ==
    /\ U[i].state \in {"backlog", "ready"} /\ U[i].lease = "none"
    /\ U[i].supersededBy = NoTask
    /\ U[i].kind = "review" /\ U[i].target # NoTask =>
        /\ U[i].target \in Rows(T)
        /\ T[U[i].target].round = U[i].round /\ T[U[i].target].state = "review"
    /\ \A d \in U[i].deps : d \in Rows(T) => T[d].supersededBy = NoTask

Extended(U, T) ==
    /\ Rows(T) \subseteq Rows(U)
    /\ \A i \in Rows(T) : U[i] = T[i]
    /\ \A i \in Rows(U) : i \notin Rows(T) => Fresh(U, T, i)

\* Adding such rows keeps the order; and gives the row x its reviewers.
LEMMA FreshKeepsOrder ==
    ASSUME NEW T, WellFormed(T), NEW x, Order(T, x), NEW U, WellFormed(U),
           Extended(U, T),
           x # NoTask => \E r \in Rows(U) :
                            r \notin Rows(T) /\ Pending(U, r, x) /\ U[r].round = U[x].round
    PROVE  Order(U, NoTask)
<1>1. /\ Rows(T) \subseteq Rows(U) /\ \A i \in Rows(U) : i # NoTask
      /\ \A i \in Rows(T) : U[i] = T[i]
      /\ \A i \in Rows(U) : U[i].target \in Rows(U) \cup {NoTask} /\ U[i].deps \subseteq Rows(U)
  <2>1. \A i \in Rows(U) : U[i].target \in Rows(U) \cup {NoTask} /\ U[i].deps \subseteq Rows(U)
    BY LenProperties DEF WellFormed, Refers, Rows, NoTask
  <2> QED
    BY <2>1 DEF Extended, Rows, NoTask
<1>2. ASSUME NEW i \in Rows(T)
      PROVE  /\ Unleased(U[i]) /\ OnlyReplacedOnce(U[i]) /\ NoReviewOfReview(U[i])
             /\ Told(U, i) /\ BuildsOnCurrent(U, i) /\ RestsOn(U, i)
  <2>1. /\ Unleased(T[i]) /\ OnlyReplacedOnce(T[i]) /\ NoReviewOfReview(T[i])
        /\ Told(T, i) /\ BuildsOnCurrent(T, i) /\ RestsOn(T, i)
        /\ U[i] = T[i] /\ T[i].deps \subseteq Rows(T)
    BY <1>1 DEF Order, WellFormed, Refers, Rows
  <2>2. BuildsOnCurrent(U, i) /\ RestsOn(U, i)
    BY <2>1, <1>1 DEF BuildsOnCurrent, RestsOn
  <2>3. ASSUME NEW p \in Rows(U), Pending(U, i, p)
        PROVE  U[p].round = U[i].round /\ U[p].state \in {"review", "failed"}
    <3>1. p \in Rows(T)
      <4>1. T[i].target \in 0..Len(T) /\ T[i].target = p
        BY <2>1, <2>3 DEF WellFormed, Refers, Pending
      <4> QED
        BY <4>1, <1>1, LenProperties DEF Rows, NoTask, WellFormed
    <3>2. Pending(T, i, p)
      BY <2>1, <2>3 DEF Pending
    <3> QED
      BY <3>1, <3>2, <2>1, <1>1 DEF Told
  <2> QED
    BY <2>1, <2>2, <2>3 DEF Told
<1>3. ASSUME NEW i \in Rows(U), i \notin Rows(T)
      PROVE  /\ Unleased(U[i]) /\ OnlyReplacedOnce(U[i]) /\ NoReviewOfReview(U[i])
             /\ Told(U, i) /\ BuildsOnCurrent(U, i) /\ RestsOn(U, i) /\ Awaits(U, i)
  <2>1. Fresh(U, T, i)
    BY <1>3 DEF Extended
  <2>2. /\ Unleased(U[i]) /\ OnlyReplacedOnce(U[i]) /\ NoReviewOfReview(U[i])
        /\ RestsOn(U, i) /\ Awaits(U, i)
    BY <2>1 DEF Fresh, Unleased, OnlyReplacedOnce, NoReviewOfReview, RestsOn, Working, Awaits
  <2>3. Told(U, i)
    BY <2>1, <1>1 DEF Fresh, Told, Pending
  <2>4. BuildsOnCurrent(U, i)
    <3> SUFFICES ASSUME NEW d \in U[i].deps PROVE U[d].supersededBy = NoTask
      BY DEF BuildsOnCurrent
    <3>1. CASE d \in Rows(T)
      BY <3>1, <2>1, <1>1 DEF Fresh
    <3>2. CASE d \notin Rows(T)
      <4>1. Fresh(U, T, d)
        BY <3>2, <1>1 DEF Extended
      <4> QED
        BY <4>1 DEF Fresh
    <3> QED
      BY <3>1, <3>2
  <2> QED
    BY <2>2, <2>3, <2>4
<1>4. ASSUME NEW i \in Rows(T) PROVE Awaits(U, i)
  <2>1. CASE i = x
    BY <2>1, <1>1 DEF Awaits
  <2>2. CASE i # x
    <3>1. Awaits(T, i)
      BY <2>2 DEF Order
    <3> QED
      BY <3>1, <1>1 DEF Awaits, Pending
  <2> QED
    BY <2>1, <2>2
<1> QED
  BY <1>2, <1>3, <1>4 DEF Order

-----------------------------------------------------------------------------
(* The steps that change one row.                                          *)

Orderly(U, T) == Order(U, NoTask) /\ Kept(U, T)

\* Nobody is about to speak of a row that is not in review, nor given up.
LEMMA NobodyPending ==
    ASSUME NEW T, NEW x, Order(T, x), NEW t \in Rows(T), T[t].state \notin {"review", "failed"}
    PROVE  \A r \in Rows(T) : ~Pending(T, r, t)
  BY DEF Order, Told

\* The facts about the row a step is about.
LEMMA OrderOfRow ==
    ASSUME Inv, Order(task, NoTask), NEW t \in Id
    PROVE  /\ t # NoTask /\ Unleased(task[t]) /\ NoReviewOfReview(task[t])
           /\ RestsOn(task, t) /\ Awaits(task, t)
           /\ \A r \in Rows(task) : Pending(task, r, t) =>
                    task[t].round = task[r].round /\ task[t].state \in {"review", "failed"}
  BY DEF Order, Told, Id, Rows, NoTask

\* Putting a row that fits in place of another keeps the order.
LEMMA FittingStep ==
    ASSUME Inv, Order(task, NoTask), NEW t \in Id, NEW row \in Row, Refers(row, Len(task)),
           task' = [task EXCEPT ![t] = row], Fits(task, t, row, NoTask), Keeps(row, task[t])
    PROVE  Orderly(task', task)
<1>1. /\ Rows(task') = Rows(task) /\ t \in Rows(task)
      /\ \A i \in Rows(task) : task'[i] = IF i = t THEN row ELSE task[i]
  BY UpdatedRow DEF Inv, Id, Rows
<1>2. Replaced(task', task, t, row)
  BY <1>1 DEF Replaced
<1>3. Order(task', NoTask)
  BY <1>2, FitsKeepsOrder DEF Inv
<1>4. Kept(task', task)
  BY <1>1, StillKeeps DEF Kept, MovesOnly
<1> QED
  BY <1>3, <1>4 DEF Orderly

\* PromoteTask.
LEMMA PromoteIsOrderly ==
    ASSUME Inv, Order(task, NoTask), NEW t \in Id, PromoteTask(t)
    PROVE  Orderly(task', task)
<1> DEFINE row == [task[t] EXCEPT !.state = "ready"]
<1>1. task' = [task EXCEPT ![t] = row]
  BY DEF PromoteTask
<1>2. task[t] \in Row /\ Refers(task[t], Len(task)) /\ task[t].state = "backlog"
  BY ThisRow DEF PromoteTask
<1>3. row \in Row /\ Refers(row, Len(task))
  BY <1>2 DEF Row, State, Refers
<1>4. \A r \in Rows(task) : ~Pending(task, r, t)
  BY <1>2, OrderOfRow
<1>5. Fits(task, t, row, NoTask)
  BY <1>2, <1>4, OrderOfRow
     DEF Fits, Row, Final, Working, Queued, Unleased, NoReviewOfReview
<1>6. Keeps(row, task[t])
  BY <1>2 DEF Keeps, Requeued, ThroughReview, Owed, Row, Final
<1> QED
  BY <1>1, <1>3, <1>5, <1>6, FittingStep

\* ClaimTask finds the dependencies done, and no live lease on a row that waits.
LEMMA ClaimIsOrderly ==
    ASSUME Inv, Order(task, NoTask), NEW t \in Id, NEW agent \in Agent, NEW model,
           ClaimTask(t, agent, model)
    PROVE  Orderly(task', task)
<1> DEFINE row == [task[t] EXCEPT
                    !.state = "in_progress", !.assignee = agent, !.lease = "live"]
<1>1. task' = [task EXCEPT ![t] = row]
  BY DEF ClaimTask
<1>2. /\ task[t] \in Row /\ Refers(task[t], Len(task))
      /\ \/ task[t].state = "ready"
         \/ task[t].state = "in_progress" /\ task[t].lease = "lapsed"
      /\ \A d \in task[t].deps : task[d].state = "done"
  BY ThisRow DEF ClaimTask, Claimable
<1>3. row \in Row /\ Refers(row, Len(task))
  BY <1>2 DEF Row, State, Lease, Refers
<1>4. \A r \in Rows(task) : ~Pending(task, r, t)
  BY <1>2, OrderOfRow
<1>5. Fits(task, t, row, NoTask)
  BY <1>2, <1>4 DEF Fits, Row, Final, Queued, Unleased, NoReviewOfReview
<1>6. Keeps(row, task[t])
  BY <1>2, OrderOfRow DEF Keeps, Requeued, Owed, Row, Final, Unleased, Queued
<1> QED
  BY <1>1, <1>3, <1>5, <1>6, FittingStep

\* HeartbeatTask.
LEMMA HeartbeatIsOrderly ==
    ASSUME Inv, Order(task, NoTask), NEW t \in Id, NEW agent, HeartbeatTask(t, agent)
    PROVE  Orderly(task', task)
<1> DEFINE row == [task[t] EXCEPT !.lease = "live"]
<1>1. task' = [task EXCEPT ![t] = row]
  BY DEF HeartbeatTask
<1>2. task[t] \in Row /\ Refers(task[t], Len(task)) /\ task[t].state = "in_progress"
  BY ThisRow DEF HeartbeatTask, InProgressBy
<1>3. row \in Row /\ Refers(row, Len(task))
  BY <1>2 DEF Row, Lease, Refers
<1>4. \A r \in Rows(task) : ~Pending(task, r, t)
  BY <1>2, OrderOfRow
<1>5. Fits(task, t, row, NoTask)
  BY <1>2, <1>4 DEF Fits, Row, Final, Queued, Working, Unleased, NoReviewOfReview
<1>6. Keeps(row, task[t])
  BY <1>2 DEF Keeps, Requeued, ThroughReview, Owed, Row, Final
<1> QED
  BY <1>1, <1>3, <1>5, <1>6, FittingStep

\* The clock: a leased row is not in review.
LEMMA LapseIsOrderly ==
    ASSUME Inv, Order(task, NoTask), NEW t \in Id, LeaseLapses(t)
    PROVE  Orderly(task', task)
<1> DEFINE row == [task[t] EXCEPT !.lease = "lapsed"]
<1>1. task' = [task EXCEPT ![t] = row]
  BY DEF LeaseLapses
<1>2. /\ task[t] \in Row /\ Refers(task[t], Len(task)) /\ task[t].lease = "live"
      /\ task[t].state \notin Queued
  BY ThisRow, OrderOfRow DEF LeaseLapses, Unleased
<1>3. row \in Row /\ Refers(row, Len(task))
  BY <1>2 DEF Row, Lease, Refers
<1>4. Fits(task, t, row, NoTask)
  BY <1>2, OrderOfRow DEF Fits, Row, Queued, Unleased, NoReviewOfReview
<1>5. Keeps(row, task[t])
  BY <1>2 DEF Keeps, Requeued, ThroughReview, Owed, Row, Queued
<1> QED
  BY <1>1, <1>3, <1>4, <1>5, FittingStep

\* SubmitTask of a merge row.
LEMMA MergeIsOrderly ==
    ASSUME Inv, Order(task, NoTask), NEW t \in Id, NEW agent, NEW verdict \in Verdict,
           SubmitMerge(t, agent, verdict)
    PROVE  Orderly(task', task)
<1> DEFINE row == Submitted(task[t], "review", verdict, {})
<1>1. /\ task' = [task EXCEPT ![t] = row]
      /\ task[t].kind = "merge" /\ task[t].state = "in_progress"
  BY DEF SubmitMerge, InProgressBy
<1>2. task[t] \in Row /\ Refers(task[t], Len(task))
  BY ThisRow
<1>3. row \in Row /\ Refers(row, Len(task))
  <2>1. task[t].links \cup {} \in SUBSET Link
    BY <1>2 DEF Row
  <2>2. row \in Row
    BY <1>2, <2>1 DEF Submitted, Row, State, Lease
  <2> QED
    BY <1>2, <2>2 DEF Submitted, Row, Refers
<1>4. \A r \in Rows(task) : ~Pending(task, r, t)
  BY <1>1, OrderOfRow
<1>5. Fits(task, t, row, NoTask)
  BY <1>1, <1>2, <1>4 DEF Submitted, Fits, Row, Final, Working, Unleased, NoReviewOfReview
<1>6. Keeps(row, task[t])
  BY <1>1, <1>2 DEF Submitted, Keeps, Row, Final
<1> QED
  BY <1>1, <1>3, <1>5, <1>6, FittingStep

\* TransitionTask: only a row that is given up for failed leaves a reviewer behind.
LEMMA TransitionIsOrderly ==
    ASSUME Inv, Order(task, NoTask), NEW t \in Id, NEW to \in State, TransitionTask(t, to),
           to \in {"blocked", "superseded"} => ~AwaitsVerdict(t)
    PROVE  Orderly(task', task)
<1> DEFINE row == Moved(task[t], to)
           old == task[t].state
<1>1. task' = [task EXCEPT ![t] = row] /\ CanTransition(task[t], to)
  BY DEF TransitionTask
<1>2. /\ task[t] \in Row /\ Refers(task[t], Len(task))
      /\ Unleased(task[t]) /\ NoReviewOfReview(task[t])
  BY ThisRow, OrderOfRow
<1>3. row \in Row /\ Refers(row, Len(task))
  BY <1>2 DEF Moved, Row, Lease, Refers
<1>4. /\ row.kind = task[t].kind /\ row.target = task[t].target /\ row.deps = task[t].deps
      /\ row.supersededBy = task[t].supersededBy /\ row.round = task[t].round
      /\ row.state = to /\ row.model = task[t].model /\ row.verdict = task[t].verdict
      /\ row.lease = IF old = "blocked" THEN "none" ELSE task[t].lease
  BY <1>2 DEF Moved, Row
<1>5. \/ to = "done" /\ (old = "approved" \/ (old = "in_progress" /\ row.kind = "merge"))
      \/ to = "ready" /\ old \in {"approved", "blocked"}
      \/ to \in {"blocked", "superseded"} /\ old \in Active
      \/ to = "failed" /\ old \in Active \cup {"blocked"}
      \/ to = "abandoned" /\ old = "approved"
  BY <1>1, <1>4 DEF CanTransition
<1> HIDE DEF row
<1>6. old \notin Final
  BY <1>5 DEF Final, Active
<1>7. ASSUME NEW r \in Rows(task), Pending(task, r, t)
      PROVE  row.round = task[r].round /\ row.state \in {"review", "failed"}
  <2>1. task[t].round = task[r].round /\ old \in {"review", "failed"}
    BY <1>7, OrderOfRow
  <2>2. AwaitsVerdict(t)
    BY <1>7 DEF AwaitsVerdict, Pending, Id, Rows
  <2> QED
    BY <2>1, <2>2, <1>4, <1>5
<1>8. /\ Unleased(row) /\ NoReviewOfReview(row)
      /\ row.kind = "review" => row.state # "done"
      /\ row.state \in Working => old \in Working
      /\ row.state # "review"
  BY <1>2, <1>4, <1>5 DEF Unleased, NoReviewOfReview, Queued, Working
<1>9. Fits(task, t, row, NoTask)
  BY <1>4, <1>6, <1>7, <1>8 DEF Fits
<1>10. Keeps(row, task[t])
  BY <1>4, <1>5, <1>6 DEF Keeps, Requeued, Owed, Active
<1> QED
  BY <1>1, <1>3, <1>9, <1>10, FittingStep

\* HoldTask and ReleaseTask: a row in review is released to reviewers of its round.
LEMMA HoldIsOrderly ==
    ASSUME Inv, Order(task, NoTask), NEW t \in Id,
           HoldTask(t) \/ (ReleaseTask(t) /\ (task[t].kind = "implement"
                                  /\ task[t].state = "review" => AwaitsVerdict(t)))
    PROVE  Orderly(task', task)
<1>1. PICK held \in BOOLEAN :
        /\ task' = [task EXCEPT ![t].held = held]
        /\ ~held /\ task[t].kind = "implement" /\ task[t].state = "review" => AwaitsVerdict(t)
  BY DEF HoldTask, ReleaseTask
<1> DEFINE row == [task[t] EXCEPT !.held = held]
<1>2. task' = [task EXCEPT ![t] = row]
  BY <1>1
<1>3. /\ task[t] \in Row /\ Refers(task[t], Len(task))
      /\ Unleased(task[t]) /\ NoReviewOfReview(task[t])
  BY ThisRow, OrderOfRow
<1>4. row \in Row /\ Refers(row, Len(task))
  BY <1>3 DEF Row, Refers
<1>5. /\ row.kind = task[t].kind /\ row.target = task[t].target /\ row.deps = task[t].deps
      /\ row.supersededBy = task[t].supersededBy /\ row.round = task[t].round
      /\ row.state = task[t].state /\ row.lease = task[t].lease /\ row.held = held
      /\ row.assignee = task[t].assignee /\ row.model = task[t].model
      /\ row.verdict = task[t].verdict
      /\ held = task[t].held => row = task[t]
  BY <1>3 DEF Row
<1> HIDE DEF row
<1>6. AwaitsVerdict(t) =>
        \E r \in Rows(task) : Pending(task, r, t) /\ task[r].round = row.round
  BY <1>5, OrderOfRow DEF AwaitsVerdict, Pending, Id, Rows
<1>7. Fits(task, t, row, NoTask)
  <2>1. Unleased(row) /\ NoReviewOfReview(row)
    BY <1>3, <1>5 DEF Unleased, NoReviewOfReview
  <2>2. \A r \in Rows(task) : Pending(task, r, t) =>
            row.round = task[r].round /\ row.state \in {"review", "failed"}
    BY <1>5, OrderOfRow
  <2>3. \/ ~(row.kind = "implement" /\ row.state = "review" /\ ~row.held)
        \/ \E r \in Rows(task) : Pending(task, r, t) /\ task[r].round = row.round
    BY <1>1, <1>5, <1>6
  <2> QED
    BY <1>5, <2>1, <2>2, <2>3 DEF Fits
<1>8. Keeps(row, task[t])
  BY <1>5 DEF Keeps, Requeued, ThroughReview, Owed
<1> QED
  BY <1>2, <1>4, <1>7, <1>8, FittingStep

-----------------------------------------------------------------------------
(* The steps that add rows.                                                *)

\* CreateTasks, of rows that build on current ones.
LEMMA CreateIsOrderly ==
    ASSUME Inv, Order(task, NoTask), NEW batch \in Batches, CreateTasks(batch),
           NamesCurrentRows(batch)
    PROVE  Orderly(task', task)
<1> DEFINE S == [i \in 1..Len(batch) |-> PlannedRow(batch, batch[i])]
<1>1. task' = task \o S /\ BatchIsValid(batch)
  BY DEF CreateTasks
<1>2. /\ batch \in Seq(Input) /\ Len(batch) \in Nat
      /\ Len(task) \in Nat /\ WellFormed(task) /\ Gate(task)
  BY BatchAssumption, LenProperties DEF Inv, WellFormed
<1>3. ASSUME NEW i \in 1..Len(batch)
      PROVE  /\ S[i] \in Row /\ Refers(S[i], Len(task) + Len(batch))
             /\ S[i].kind = "implement" /\ S[i].state = "backlog" /\ S[i].lease = "none"
             /\ S[i].supersededBy = NoTask
             /\ \A d \in S[i].deps : d \in Rows(task) => task[d].supersededBy = NoTask
  <2>1. S[i] = PlannedRow(batch, batch[i])
    OBVIOUS
  <2>2. S[i] \in Row /\ Refers(S[i], Len(task) + Len(batch))
    BY <1>1, <1>2, <2>1, PlannedRowIsHarmless
  <2>3. /\ S[i].kind = "implement" /\ S[i].state = "backlog" /\ S[i].lease = "none"
        /\ S[i].supersededBy = NoTask
    BY <2>1 DEF PlannedRow, NewRow
  <2> QED
    BY <2>1, <2>2, <2>3 DEF NamesCurrentRows, Id, Rows
<1>4. S \in Seq(Row) /\ Len(S) = Len(batch) /\ Rows(S) = 1..Len(batch)
  <2>1. S \in [1..Len(batch) -> Row]
    BY <1>3
  <2> QED
    BY <2>1, <1>2, Tabulated
<1> HIDE DEF S
<1>5. /\ WellFormed(task') /\ Len(task') = Len(task) + Len(S)
      /\ \A i \in Rows(task) : task'[i] = task[i]
      /\ \A i \in Rows(task') : i \notin Rows(task) =>
            i - Len(task) \in Rows(S) /\ task'[i] = S[i - Len(task)]
  BY <1>1, <1>2, <1>3, <1>4, AddedRows
<1>6. Extended(task', task)
  <2>1. Rows(task) \subseteq Rows(task')
    BY <1>2, <1>4, <1>5 DEF Rows
  <2>2. ASSUME NEW i \in Rows(task'), i \notin Rows(task) PROVE Fresh(task', task, i)
    <3>1. i - Len(task) \in 1..Len(batch) /\ task'[i] = S[i - Len(task)]
      BY <2>2, <1>4, <1>5
    <3> QED
      BY <3>1, <1>3 DEF Fresh
  <2> QED
    BY <2>1, <2>2, <1>5 DEF Extended
<1>7. Order(task', NoTask)
  BY <1>2, <1>5, <1>6, FreshKeepsOrder
<1>8. Kept(task', task)
  <2>1. MovesOnly(task', task, NoTask)
    BY <1>5, <1>6 DEF MovesOnly, Extended, Fresh
  <2> QED
    BY <2>1, <1>5, StillKeeps DEF Kept
<1> QED
  BY <1>7, <1>8 DEF Orderly

\* SubmitTask of an implement row: nobody is about to speak of the round that was, and
\* the reviewers of the new one are.
LEMMA WorkIsOrderly ==
    ASSUME Inv, Order(task, NoTask), NEW t \in Id, NEW agent, NEW links \in Submissions,
           SubmitWork(t, agent, links)
    PROVE  Orderly(task', task)
<1> DEFINE n == Len(task)
           round == task[t].round + 1
           reviewers == ReviewersOf(task[t])
           row == Reworked(task[t], links, round)
           V == [task EXCEPT ![t] = row]
           S == [i \in 1..Len(reviewers) |-> ReviewRow(reviewers[i], round, t)]
           U == task'
<1>1. U = V \o S /\ task[t].kind = "implement" /\ task[t].state = "in_progress"
  BY DEF SubmitWork, InProgressBy
<1>2. /\ t \in Rows(task) /\ n \in Nat /\ task[t] \in Row /\ Refers(task[t], n)
      /\ t \in 1..n /\ t # NoTask /\ WellFormed(task) /\ Gate(task) /\ Aimed(task, t)
  BY ThisRow, OrderOfRow DEF Inv, Rows
<1>3. task[t].target = NoTask /\ round \in Nat /\ round > 0
  BY <1>1, <1>2 DEF Aimed, Row
<1>4. /\ row \in Row /\ Refers(row, n) /\ row.kind = "implement"
      /\ row.target = NoTask /\ row.state = "review" /\ row.round = round
  BY <1>1, <1>2, <1>3, ReworkedRow
<1>5. /\ row.deps = task[t].deps /\ row.supersededBy = task[t].supersededBy
      /\ row.lease = "none" /\ row.assignee = task[t].assignee
  BY <1>2 DEF Reworked, Submitted, Row
<1>6. /\ reviewers \in Seq(ModelName) /\ Len(reviewers) \in Nat /\ Len(reviewers) >= 1
  BY <1>2, SomeReviewer
<1>7. ASSUME NEW i \in 1..Len(reviewers)
      PROVE  /\ S[i] \in Row /\ Refers(S[i], n + Len(reviewers))
             /\ S[i].kind = "review" /\ S[i].target = t /\ S[i].round = round
             /\ S[i].state = "ready" /\ S[i].lease = "none"
             /\ S[i].supersededBy = NoTask /\ S[i].deps = {}
  <2>1. S[i] = ReviewRow(reviewers[i], round, t)
    OBVIOUS
  <2>2. reviewers[i] \in ModelName
    BY <1>6, ElementOfSeq
  <2>3. t \in Nat /\ n + Len(reviewers) \in Nat /\ t <= n + Len(reviewers)
    BY <1>2, <1>6
  <2>4. /\ S[i].state = "ready" /\ S[i].lease = "none"
        /\ S[i].supersededBy = NoTask /\ S[i].deps = {}
    BY <2>1 DEF ReviewRow, NewRow
  <2> HIDE DEF S, round, reviewers
  <2> QED
    BY <1>3, <2>1, <2>2, <2>3, <2>4, ReviewRowIsFresh
<1>8. S \in Seq(Row) /\ Len(S) = Len(reviewers) /\ Rows(S) = 1..Len(reviewers)
  <2>1. S \in [1..Len(reviewers) -> Row]
    BY <1>7
  <2> QED
    BY <2>1, <1>6, Tabulated
<1>9. /\ WellFormed(V) /\ Len(V) = n /\ Rows(V) = Rows(task)
      /\ \A i \in Rows(task) : V[i] = IF i = t THEN row ELSE task[i]
  BY <1>2, <1>4, UpdatedRow DEF Rows
<1> HIDE DEF row, V, S, reviewers, round, U
<1>10. Order(V, t)
  <2>1. \A r \in Rows(task) : ~Pending(task, r, t)
    BY <1>1, OrderOfRow
  <2>2. Fits(task, t, row, t)
    BY <1>1, <1>3, <1>4, <1>5, <2>1
       DEF Fits, Final, Working, Unleased, NoReviewOfReview
  <2>3. Replaced(V, task, t, row)
    BY <1>2, <1>9 DEF Replaced
  <2> QED
    BY <1>2, <2>2, <2>3, FitsKeepsOrder
<1>11. /\ WellFormed(U) /\ Len(U) = n + Len(S)
       /\ \A i \in Rows(V) : U[i] = V[i]
       /\ \A i \in Rows(U) : i \notin Rows(V) =>
            i - Len(V) \in Rows(S) /\ U[i] = S[i - Len(V)]
  <2>1. \A i \in Rows(S) : Refers(S[i], Len(V) + Len(S))
    BY <1>7, <1>8, <1>9
  <2>2. U = V \o S /\ WellFormed(V) /\ S \in Seq(Row) /\ Len(V) = n
    BY <1>1, <1>8, <1>9
  <2> QED
    BY <2>1, <2>2, AddedRows
<1>12. ASSUME NEW i \in Rows(U), i \notin Rows(V)
       PROVE  Fresh(U, V, i) /\ Pending(U, i, t) /\ U[i].round = round
  <2>1. /\ U[i].kind = "review" /\ U[i].target = t /\ U[i].round = round
        /\ U[i].state = "ready" /\ U[i].lease = "none"
        /\ U[i].supersededBy = NoTask /\ U[i].deps = {}
    BY <1>12, <1>7, <1>8, <1>9, <1>11
  <2>2. t \in Rows(V) /\ V[t].round = round /\ V[t].state = "review"
    BY <1>2, <1>4, <1>9
  <2> QED
    BY <2>1, <2>2 DEF Fresh, Pending
<1>13. n + 1 \in Rows(U) /\ n + 1 \notin Rows(V) /\ Rows(V) \subseteq Rows(U)
  BY <1>2, <1>6, <1>8, <1>9, <1>11 DEF Rows
<1>14. Extended(U, V)
  BY <1>11, <1>12, <1>13 DEF Extended
<1>15. \E r \in Rows(U) : r \notin Rows(V) /\ Pending(U, r, t) /\ U[r].round = U[t].round
  BY <1>2, <1>4, <1>9, <1>11, <1>12, <1>13
<1>16. Order(U, NoTask)
  BY <1>9, <1>10, <1>11, <1>14, <1>15, FreshKeepsOrder
<1>17. Kept(U, task)
  <2>1. Keeps(row, task[t])
    BY <1>1, <1>4, <1>5 DEF Keeps, ThroughReview, Owed, Final, round
  <2>2. MovesOnly(U, task, t)
    BY <1>9, <1>11, <1>14 DEF MovesOnly, Extended, Fresh
  <2> QED
    BY <2>1, <2>2, <1>9, <1>11, StillKeeps DEF Kept
<1> QED
  BY <1>16, <1>17 DEF Orderly, U

-----------------------------------------------------------------------------
(* Supersession, and a verdict with its tally.                             *)

\* A row that is handed over was not finished, and had not been replaced.
LEMMA HandingKeepsRows ==
    ASSUME NEW T, NEW x, Order(T, x), NEW t \in Rows(T), NEW U, Handed(U, T, t),
           T[t].state \notin Final
    PROVE  Kept(U, T)
<1>0. MovesOnly(U, T, t)
  BY DEF Handed, MovesOnly
<1> SUFFICES ASSUME NEW i \in Rows(T) PROVE Keeps(U[i], T[i])
  BY <1>0 DEF Kept
<1>1. /\ U[i].assignee = T[i].assignee /\ U[i].model = T[i].model
      /\ U[i].verdict = T[i].verdict /\ U[i].round = T[i].round
      /\ U[i].state = IF i = t THEN "superseded" ELSE T[i].state
      /\ i # t => U[i].supersededBy = T[i].supersededBy
  BY DEF Handed
<1>2. i = t => T[i].supersededBy = NoTask
  BY DEF Order, OnlyReplacedOnce, Final
<1>3. T[i].state = "approved" /\ i # t => U[i] = T[i]
  BY DEF Order, RestsOn, Working, Final, Handed
<1> QED
  BY <1>1, <1>2, <1>3 DEF Keeps, Requeued, ThroughReview, Owed

\* SupersedeTask, of a row that is not finished and awaits no verdict.
LEMMA SupersedeIsOrderly ==
    ASSUME Inv, Order(task, NoTask), NEW t \in Id, NEW model \in Models,
           SupersedeTask(t, model), ~AwaitsVerdict(t), task[t].state \notin Final
    PROVE  Orderly(task', task)
<1>1. task' = Supersession(task, t, model, "backlog") /\ model \in ModelName
  BY DEF SupersedeTask, ModelName
<1>2. t \in Rows(task) /\ WellFormed(task) /\ Gate(task)
  BY DEF Id, Rows, Inv
<1>3. Handed(task', task, t)
  BY <1>1, <1>2, SupersessionHands
<1>4. \A r \in Rows(task) : ~Pending(task, r, t)
  BY DEF AwaitsVerdict, Pending, Id, Rows
<1>5. Order(task', NoTask)
  BY <1>2, <1>3, <1>4, HandingKeepsOrder
<1>6. Kept(task', task)
  BY <1>2, <1>3, HandingKeepsRows
<1> QED
  BY <1>5, <1>6 DEF Orderly

\* What a tally does to the row p in review: its state becomes one of these.
LEMMA DecidingKeepsOrder ==
    ASSUME NEW T, WellFormed(T), Gate(T), NEW p \in Rows(T), Order(T, p),
           T[p].state = "review", \A r \in Rows(T) : ~Pending(T, r, p),
           NEW state \in {"ready", "blocked", "approved", "done"},
           T[p].kind = "implement", state = "ready" => ~OverThreshold(T[p]),
           state = "done" => IsNoOp(T[p])
    PROVE  LET U == [T EXCEPT ![p].state = state] IN
           WellFormed(U) /\ Order(U, NoTask) /\ Kept(U, T) /\ Rows(U) = Rows(T)
<1> DEFINE row == [T[p] EXCEPT !.state = state]
           U == [T EXCEPT ![p] = row]
<1>1. U = [T EXCEPT ![p].state = state]
  OBVIOUS
<1>2. /\ T[p] \in Row /\ Refers(T[p], Len(T))
      /\ Unleased(T[p]) /\ OnlyReplacedOnce(T[p])
  BY ElementOfSeq DEF WellFormed, Rows, Order
<1>3. row \in Row /\ Refers(row, Len(T))
  BY <1>2 DEF Row, State, Refers
<1>4. /\ row.kind = "implement" /\ row.target = T[p].target /\ row.deps = T[p].deps
      /\ row.supersededBy = T[p].supersededBy /\ row.state = state
      /\ row.lease = T[p].lease /\ row.assignee = T[p].assignee
      /\ row.model = T[p].model /\ row.verdict = T[p].verdict /\ row.round = T[p].round
  BY <1>2 DEF Row
<1>5. /\ WellFormed(U) /\ Rows(U) = Rows(T)
      /\ \A i \in Rows(T) : U[i] = IF i = p THEN row ELSE T[i]
  BY <1>3, UpdatedRow DEF Rows
<1> HIDE DEF row, U
<1>6. Fits(T, p, row, NoTask)
  BY <1>2, <1>4 DEF Fits, Final, Working, Queued, Unleased, NoReviewOfReview
<1>7. Replaced(U, T, p, row)
  BY <1>5 DEF Replaced
<1>8. Order(U, NoTask)
  BY <1>6, <1>7, FitsKeepsOrder
<1>9. Kept(U, T)
  <2>1. Keeps(row, T[p])
    BY <1>4 DEF Keeps, Requeued, ThroughReview, Owed, Final, OverThreshold
  <2>2. MovesOnly(U, T, p)
    BY <1>5 DEF MovesOnly
  <2> QED
    BY <2>1, <2>2, <1>5, StillKeeps DEF Kept
<1> QED
  BY <1>1, <1>5, <1>8, <1>9

\* The tally of row p, whose reviewers are all of its round: if they have all spoken it
\* leaves review, and if not it awaits the others.
LEMMA TallyKeepsOrder ==
    ASSUME NEW T, WellFormed(T), Gate(T), NEW p \in Rows(T), Order(T, p),
           T[p].kind = "implement", T[p].round > 0, T[p].state \in {"review", "failed"}
    PROVE  Order(Aggregated(T, p), NoTask) /\ Kept(Aggregated(T, p), T)
<1>1. p # NoTask /\ Len(T) \in Nat /\ T[p] \in Row
  BY LenProperties, ElementOfSeq DEF Rows, NoTask, WellFormed
<1>2. CASE T[p].held \/ IsTerminal(T[p]) \/ ~AllDone(T, p)
  <2>1. Aggregated(T, p) = T
    BY <1>2 DEF Aggregated
  <2>2. ASSUME NEW i \in Rows(T), i \in Tally(T, p), T[i].state # "done"
        PROVE  Pending(T, i, p) /\ T[i].round = T[p].round
    <3>1. T[i].target = p /\ T[i].round = T[p].round /\ Aimed(T, i) /\ T[i] \in Row
      BY <2>2, ElementOfSeq DEF Tally, Gate, WellFormed, Rows
    <3>2. T[i].kind = "review"
      BY <3>1, <1>1 DEF Aimed, Row, Kind
    <3> QED
      BY <2>2, <3>1, <3>2 DEF Pending
  <2>3. ~AllDone(T, p) => \E i \in Rows(T) : i \in Tally(T, p) /\ T[i].state # "done"
    BY DEF AllDone, Tally, Rows
  <2>4. Awaits(T, p)
    BY <1>2, <2>2, <2>3 DEF Awaits, IsTerminal
  <2>5. Order(T, NoTask)
    BY <2>4 DEF Order
  <2>6. Kept(T, T)
    BY StillKept
  <2> QED
    BY <2>1, <2>5, <2>6
<1>3. CASE ~(T[p].held \/ IsTerminal(T[p]) \/ ~AllDone(T, p))
  <2>1. T[p].state = "review"
    BY <1>3 DEF IsTerminal
  <2>2. ASSUME NEW r \in Rows(T), Pending(T, r, p) PROVE FALSE
    <3>1. T[r].round = T[p].round
      BY <2>2 DEF Order, Told
    <3>2. r \in Tally(T, p) /\ T[r].state # "done"
      BY <2>2, <3>1 DEF Pending, Tally, Rows
    <3> QED
      BY <1>3, <3>2 DEF AllDone
  <2>3. CASE AllApprove(T, p)
    <3> DEFINE state == IF T[p].agentMerge /\ IsNoOp(T[p]) THEN "done" ELSE "approved"
               V == [T EXCEPT ![p].state = state]
               merge == MergeRow(T[p].model, p)
               U == Append(V, merge)
    <3>1. Aggregated(T, p) = V \/ Aggregated(T, p) = U
      BY <1>3, <2>3 DEF Aggregated, Accept
    <3>2. /\ state \in {"ready", "blocked", "approved", "done"}
          /\ state = "ready" => ~OverThreshold(T[p])
          /\ state = "done" => IsNoOp(T[p])
      OBVIOUS
    <3> HIDE DEF state
    <3>3. WellFormed(V) /\ Order(V, NoTask) /\ Kept(V, T) /\ Rows(V) = Rows(T)
      BY <2>1, <2>2, <3>2, DecidingKeepsOrder, ZenonT(30)
    <3>4. merge \in Row /\ Refers(merge, Len(V) + 1)
      <4> DEFINE fresh == NewRow("merge", "ready", T[p].model)
      <4>1. fresh \in Row /\ T[p].model \in ModelName
        BY <1>1, FreshRow DEF Kind, State, Row
      <4>2. merge = [fresh EXCEPT !.target = p] /\ p \in Nat
        BY DEF MergeRow, Rows
      <4>3. merge \in Row
        <5> HIDE DEF fresh, merge
        <5> QED
          BY <4>1, <4>2 DEF Row
      <4>4. Len(V) \in Nat /\ p <= Len(V)
        BY <3>3, LenProperties DEF WellFormed, Rows
      <4> HIDE DEF V
      <4> QED
        BY <4>2, <4>3, <4>4 DEF MergeRow, NewRow, Refers, NoTask
    <3>5. /\ merge.kind = "merge" /\ merge.state = "ready" /\ merge.lease = "none"
          /\ merge.supersededBy = NoTask /\ merge.deps = {}
      BY DEF MergeRow, NewRow
    <3> HIDE DEF V, merge, U
    <3>6. /\ WellFormed(U) /\ Len(U) = Len(V) + 1 /\ Len(V) \in Nat
          /\ \A i \in Rows(V) : U[i] = V[i]
          /\ U[Len(V) + 1] = merge
      BY <3>3, <3>4, AddedRow, LenProperties DEF U, WellFormed
    <3>7. Extended(U, V)
      <4>1. Rows(V) \subseteq Rows(U) /\ \A i \in Rows(U) : i \notin Rows(V) => U[i] = merge
        BY <3>6 DEF Rows
      <4> QED
        BY <3>5, <3>6, <4>1 DEF Extended, Fresh
    <3>8. Order(U, NoTask)
      BY <3>3, <3>6, <3>7, FreshKeepsOrder
    <3>9. Kept(U, T)
      <4>1. PICK q : MovesOnly(V, T, q)
        BY <3>3 DEF Kept
      <4>2. MovesOnly(U, T, q)
        BY <3>3, <3>6, <3>7, <4>1 DEF MovesOnly, Extended, Fresh
      <4> QED
        BY <3>3, <3>6, <4>2 DEF Kept
    <3> QED
      BY <3>1, <3>3, <3>8, <3>9
  <2>4. CASE ~AllApprove(T, p)
    <3>1. Aggregated(T, p) = Reject(T, p)
      BY <1>3, <2>4 DEF Aggregated
    <3>2. ASSUME NEW state \in {"ready", "blocked"},
                 state = "ready" => ~OverThreshold(T[p])
          PROVE  LET U == [T EXCEPT ![p].state = state] IN Order(U, NoTask) /\ Kept(U, T)
      BY <2>1, <2>2, <3>2, DecidingKeepsOrder
    <3>3. CASE Escalates(T[p]) /\ Reject(T, p) = Supersession(T, p, NextTier(T[p].model), "ready")
      <4>1. NextTier(T[p].model) \in ModelName
        BY <3>3, NextTierIsAModel DEF Escalates
      <4>2. Handed(Reject(T, p), T, p)
        BY <3>3, <4>1, SupersessionHands
      <4>3. T[p].state \notin Final
        BY <2>1 DEF Final
      <4> QED
        BY <4>2, <4>3, <2>2, <3>1, HandingKeepsOrder, HandingKeepsRows
    <3> QED
      BY <3>1, <3>2, <3>3 DEF Reject
  <2> QED
    BY <2>3, <2>4
<1> QED
  BY <1>2, <1>3

\* SubmitTask of a review row, by one of the latest round.
LEMMA ReviewIsOrderly ==
    ASSUME Inv, Order(task, NoTask), NEW t \in Id, NEW agent, NEW verdict,
           SubmitReview(t, agent, verdict)
    PROVE  Orderly(task', task)
<1> DEFINE row == Submitted(task[t], "done", verdict, {})
           U == [task EXCEPT ![t] = row]
           p == task[t].target
<1>1. /\ InProgressBy(t, agent) /\ task[t].kind = "review" /\ task[t].state = "in_progress"
      /\ verdict \in {"approve", "reject"}
      /\ task' = IF p = NoTask THEN U ELSE Aggregated(U, p)
  BY DEF SubmitReview, InProgressBy
<1>2. /\ t \in Rows(task) /\ task[t] \in Row /\ Refers(task[t], Len(task))
      /\ WellFormed(task) /\ Gate(task)
  BY ThisRow DEF Inv
<1>3. WellFormed(U) /\ Gate(U)
  BY <1>1, RecordingKeepsGate
<1>4. /\ row.kind = "review" /\ row.target = p /\ row.deps = task[t].deps
      /\ row.supersededBy = task[t].supersededBy /\ row.round = task[t].round
      /\ row.state = "done"
  BY <1>1, <1>2 DEF Submitted, Row
<1>5. /\ Rows(U) = Rows(task)
      /\ \A i \in Rows(task) : U[i] = IF i = t THEN row ELSE task[i]
  BY <1>2, ExceptSeq DEF WellFormed, Rows
<1> HIDE DEF U, row, p
<1>6. Order(U, p)
  <2>1. \A r \in Rows(task) : ~Pending(task, r, t)
    BY <1>1, OrderOfRow
  <2>2. Fits(task, t, row, p)
    BY <1>1, <1>4, <2>1 DEF Fits, Final, Working, Queued, Unleased, NoReviewOfReview, p
  <2>3. Replaced(U, task, t, row)
    BY <1>2, <1>5 DEF Replaced
  <2> QED
    BY <1>2, <2>2, <2>3, FitsKeepsOrder
<1>7. ASSUME NEW W, Kept(W, U) PROVE Kept(W, task)
  <2>0. PICK q : MovesOnly(W, U, q)
    BY <1>7 DEF Kept
  <2>2. MovesOnly(W, task, q)
    BY <2>0, <1>1, <1>5 DEF MovesOnly
  <2> SUFFICES ASSUME NEW i \in Rows(task) PROVE Keeps(W[i], task[i])
    BY <2>2 DEF Kept
  <2>1. Keeps(W[i], U[i])
    BY <1>5, <1>7 DEF Kept
  <2> QED
    BY <2>1, <1>1, <1>4, <1>5 DEF Keeps, Requeued, Final
<1>8. CASE p = NoTask
  <2>1. Kept(U, U)
    BY StillKept
  <2> QED
    BY <1>1, <1>6, <1>7, <1>8, <2>1 DEF Orderly
<1>9. CASE p # NoTask
  <2>1. p \in Rows(U) /\ U[p].kind = "implement" /\ U[p].round > 0
    BY <1>2, <1>3, <1>4, <1>5, <1>9, UnderReview
  <2>2. U[p].state \in {"review", "failed"}
    <3>1. p # t /\ p \in Rows(task)
      BY <2>1, <1>4, <1>5
    <3>2. Pending(task, t, p)
      BY <1>1 DEF Pending, p
    <3> QED
      BY <3>1, <3>2, <1>2, <1>5 DEF Order, Told
  <2>3. Order(Aggregated(U, p), NoTask) /\ Kept(Aggregated(U, p), U)
    BY <2>1, <2>2, <1>3, <1>6, TallyKeepsOrder
  <2> QED
    BY <2>3, <1>1, <1>7, <1>9 DEF Orderly
<1> QED
  BY <1>8, <1>9

\* A transition is one of one row.
LEMMA OneTransition ==
    ASSUME Inv, NEW p \in Id, NEW to, TransitionTask(p, to)
    PROVE  /\ task'[p].state = to
           /\ \A i \in Id : i # p => task'[i] = task[i]
<1>1. task[p] \in Row /\ task \in Seq(Row) /\ p \in 1..Len(task) /\ Len(task) \in Nat
  BY ThisRow DEF Inv, WellFormed, Id
<1>2. Moved(task[p], to).state = to
  BY <1>1 DEF Moved, Row
<1>3. task' = [task EXCEPT ![p] = Moved(task[p], to)]
  BY DEF TransitionTask
<1> HIDE DEF Moved
<1> QED
  BY <1>1, <1>2, <1>3 DEF Id

-----------------------------------------------------------------------------
(* The theorems.                                                           *)

\* An orderly step is one of the steps of the board.
LEMMA OrderlyIsNext == OrderlyNext => Next
  BY DEF OrderlyNext, Next

\* Every orderly step keeps the order, and of every row what is to be kept.
LEMMA StepIsOrderly ==
    ASSUME Inv, Order(task, NoTask), [OrderlyNext]_vars
    PROVE  Orderly(task', task)
<1>1. CASE UNCHANGED vars
  <2>1. task' = task /\ Kept(task, task)
    BY <1>1, StillKept DEF vars
  <2> QED
    BY <2>1 DEF Orderly
<1>2. ASSUME NEW batch \in Batches, CreateTasks(batch), NamesCurrentRows(batch)
      PROVE  Orderly(task', task)
  BY <1>2, CreateIsOrderly
<1>3. ASSUME NEW t \in Id, AgentStep(t) PROVE Orderly(task', task)
  BY <1>3, LapseIsOrderly, ClaimIsOrderly, HeartbeatIsOrderly, WorkIsOrderly,
     ReviewIsOrderly DEF AgentStep
<1>4. ASSUME NEW t \in Id, NEW agent \in Agent, NEW verdict \in Verdict,
             SubmitMerge(t, agent, verdict)
      PROVE  Orderly(task', task)
  BY <1>4, MergeIsOrderly
<1>5. ASSUME NEW t \in Id, NEW to \in State, TransitionTask(t, to),
             to \in {"blocked", "superseded"} => ~AwaitsVerdict(t)
      PROVE  Orderly(task', task)
  BY <1>5, TransitionIsOrderly
<1>6. ASSUME NEW t \in Id, NEW model \in Models, SupersedeTask(t, model),
             ~AwaitsVerdict(t), task[t].state \notin Final
      PROVE  Orderly(task', task)
  BY <1>6, SupersedeIsOrderly
<1>7. ASSUME NEW t \in Id,
             HoldTask(t) \/ (ReleaseTask(t) /\ (task[t].kind = "implement"
                                    /\ task[t].state = "review" => AwaitsVerdict(t)))
      PROVE  Orderly(task', task)
  BY <1>7, HoldIsOrderly
<1> QED
  BY <1>1, <1>2, <1>3, <1>4, <1>5, <1>6, <1>7, PromoteIsOrderly DEF OrderlyNext

\* The invariant: as long as people are orderly, no reviewer is ever left behind.
THEOREM OrderInvariance == OrderlySpec => [](Inv /\ Order(task, NoTask))
<1>1. Init => Order(task, NoTask)
  <2> SUFFICES ASSUME Init PROVE Order(task, NoTask)
    OBVIOUS
  <2>1. task = <<>> /\ Len(task) = 0
    BY EmptySeq DEF Init
  <2> QED
    BY <2>1 DEF Order, Rows
<1>2. [OrderlyNext]_vars => [Next]_vars
  BY OrderlyIsNext
<1>3. Inv /\ Order(task, NoTask) /\ [OrderlyNext]_vars => Order(task, NoTask)'
  BY StepIsOrderly DEF Orderly
<1> QED
  BY <1>1, <1>2, <1>3, Invariance, PTL DEF OrderlySpec, Spec

\* A row goes back to the queue without a lease: two agents never work on one branch
\* because the queue was asked for one that is still taken.
THEOREM ReadyRowsAreFree == OrderlySpec => []ReadyRowIsFree
<1>1. Order(task, NoTask) => ReadyRowIsFree
  BY DEF Order, Unleased, Queued, ReadyRowIsFree, Id, Rows
<1> QED
  BY <1>1, OrderInvariance, PTL

\* The last verdict of a round decides it: work in review always awaits a reviewer of
\* its latest round.
THEOREM VerdictsAct == OrderlySpec => []VerdictsAreActedOn
<1>1. Order(task, NoTask) => VerdictsAreActedOn
  <2> SUFFICES ASSUME Order(task, NoTask), NEW p \in Id,
                      task[p].kind = "implement", task[p].state = "review", ~task[p].held
               PROVE  \E r \in RoundOf(p, task[p].round) : task[r].state # "done"
    BY DEF VerdictsAreActedOn
  <2>1. p \in Rows(task) /\ p # NoTask
    BY DEF Id, Rows, NoTask
  <2>2. PICK r \in Rows(task) : Pending(task, r, p) /\ task[r].round = task[p].round
    BY <2>1 DEF Order, Awaits
  <2> QED
    BY <2>2 DEF Pending, RoundOf, Id, Rows
<1> QED
  BY <1>1, OrderInvariance, PTL

\* Work is in flight, or finished, on finished dependencies only, whatever escalation
\* and supersession do to the rows it depends on.
THEOREM BuiltOnFinished == OrderlySpec => []BuiltOnFinishedWork
<1>1. Order(task, NoTask) => BuiltOnFinishedWork
  BY DEF Order, RestsOn, Working, BuiltOnFinishedWork, Id, Rows
<1> QED
  BY <1>1, OrderInvariance, PTL

\* Whoever waits for a row waits for the one that took its place last.
THEOREM HeirsAreFollowed == OrderlySpec => []DependentsFollow
<1>1. Order(task, NoTask) => DependentsFollow
  BY DEF Order, BuildsOnCurrent, DependentsFollow, Id, Rows
<1> QED
  BY <1>1, OrderInvariance, PTL

\* No row is replaced twice, by people or by the ladder.
THEOREM OneHeirOnly == OrderlySpec => OneHeir
<1> DEFINE A == \A t \in Id :
        task[t].supersededBy # NoTask => task'[t].supersededBy = task[t].supersededBy
<1>1. Inv /\ Order(task, NoTask) /\ [OrderlyNext]_vars => [A]_vars
  BY StepIsOrderly DEF Orderly, Kept, Keeps, Id, Rows
<1> QED
  BY <1>1, OrderInvariance, PTL DEF OrderlySpec, OneHeir

\* "done/failed are terminal": no verdict, nor anybody else, brings finished work back.
THEOREM DoneStaysDone == OrderlySpec => DoneIsTerminal
<1> DEFINE A == \A p \in Id :
        task[p].state = "done" => task'[p].state \in {"done", "superseded"}
<1>1. Inv /\ Order(task, NoTask) /\ [OrderlyNext]_vars => [A]_vars
  BY StepIsOrderly DEF Orderly, Kept, Keeps, Final, Id, Rows
<1> QED
  BY <1>1, OrderInvariance, PTL DEF OrderlySpec, DoneIsTerminal

\* Nobody is handed a row that another agent holds a live lease on.
THEOREM ClaimsFindNoLease == OrderlySpec => ClaimNeedsNoLiveLease
<1> DEFINE A == \A t \in Id :
        /\ task'[t].state = "in_progress"
        /\ task'[t].assignee # task[t].assignee
        => task[t].lease # "live"
<1>1. Inv /\ Order(task, NoTask) /\ [OrderlyNext]_vars => [A]_vars
  BY StepIsOrderly DEF Orderly, Kept, Keeps, Id, Rows
<1> QED
  BY <1>1, OrderInvariance, PTL DEF OrderlySpec, ClaimNeedsNoLiveLease

-----------------------------------------------------------------------------
(* The circuit breaker.                                                    *)

\* Work whose latest round was rejected is in the queue within its budget only.
Afforded(T, p) ==
    /\ T[p].kind = "implement" /\ T[p].state \in Owed
    /\ \E r \in Rows(T) : IsReviewOf(T, r, p) /\ T[r].verdict = "reject"
    => ~OverThreshold(T[p])

\* A person puts work that the breaker blocked back in flight within its budget only.
UnblocksWithinBudget ==
    \A p \in Id :
        task[p].kind = "implement" /\ task[p].state = "blocked" /\ task'[p].state \in Active =>
            ~OverThreshold(task[p])

\* A rejection is followed by rework only if the breaker has not tripped.
LEMMA StepIsAfforded ==
    ASSUME Inv, Inv', Order(task, NoTask), Next, Orderly(task', task), UnblocksWithinBudget,
           \A p \in Rows(task) : Afforded(task, p)
    PROVE  \A p \in Rows(task') : Afforded(task', p)
<1> DEFINE U == task'
<1>1. /\ WellFormed(task) /\ Gate(task) /\ WellFormed(U) /\ Gate(U)
      /\ \A i \in Rows(task) : task[i] \in Row
      /\ \A i \in Rows(U) : U[i] \in Row /\ i # NoTask
  BY ElementOfSeq DEF Inv, WellFormed, Rows, NoTask
<1>2. SameRounds(U, task) \/ \E t \in Id : OpensRound(U, task, t)
  BY RoundStep
<1>3. \A i \in Rows(task) : Keeps(U[i], task[i])
  BY DEF Orderly, Kept
<1>4. UnblocksWithinBudget /\ \A i \in Rows(task) : i \in Id
  BY DEF Id, Rows
<1> HIDE DEF U
<1> SUFFICES ASSUME NEW p \in Rows(U), U[p].kind = "implement", U[p].state \in Owed,
                    NEW r \in Rows(U), IsReviewOf(U, r, p), U[r].verdict = "reject"
             PROVE  ~OverThreshold(U[p])
  BY DEF Afforded, U
<1>5. /\ U[r].kind = "review" /\ U[r].target = p /\ U[r].round = U[p].round
      /\ U[r].round >= 1 /\ U[p].round \in Nat
  BY <1>1 DEF IsReviewOf, Gate, Aimed, Row
<1>6. p \in Rows(task) /\ task[p].kind = "implement"
  BY <1>2, <1>5 DEF SameRounds, OpensRound
<1>7. Requeued(U[p], task[p]) /\ task[p].state \notin Final
  BY <1>3, <1>6 DEF Keeps, Final, Owed
<1>8. r \in Rows(task) /\ IsReviewOf(task, r, p)
  <2>1. U[p].round = task[p].round /\ task[p].round \in Nat
    BY <1>1, <1>6, <1>7 DEF Requeued, Row
  <2>2. CASE SameRounds(U, task)
    BY <2>1, <2>2, <1>1, <1>5 DEF SameRounds, IsReviewOf
  <2>3. ASSUME NEW t \in Id, OpensRound(U, task, t)
        PROVE  r \in Rows(task) /\ IsReviewOf(task, r, p)
    <3>1. r \in Rows(task)
      BY <2>1, <2>3, <1>5, <1>6 DEF OpensRound
    <3>2. r # t /\ U[r].round = task[r].round
      BY <2>3, <3>1, <1>5 DEF OpensRound
    <3> QED
      BY <2>1, <2>3, <3>1, <3>2, <1>5 DEF OpensRound, IsReviewOf
  <2> QED
    BY <2>2, <2>3, <1>2
<1>9. OverThreshold(U[p]) <=> OverThreshold(task[p])
  BY <1>7 DEF Requeued, OverThreshold
<1>10. CASE task[r].verdict # U[r].verdict
  <2>1. task[r].state = "in_progress"
    BY <1>3, <1>8, <1>10 DEF Keeps
  <2>2. Pending(task, r, p)
    BY <2>1, <1>8 DEF Pending, IsReviewOf
  <2>3. task[p].state \in {"review", "failed"}
    BY <2>2, <1>6, <1>8 DEF Order, Told
  <2> QED
    BY <2>3, <1>7 DEF Requeued, Owed, Final
<1>11. CASE task[r].verdict = "reject"
  <2>1. task[p].state # "approved"
    BY <1>1, <1>6, <1>8, <1>11 DEF Gate, Unanimous, IsAccepted
  <2>2. CASE task[p].state \in Owed
    BY <2>2, <1>6, <1>8, <1>9, <1>11 DEF Afforded
  <2>3. CASE task[p].state = "blocked"
    BY <2>3, <1>4, <1>6, <1>9 DEF UnblocksWithinBudget, Owed, Active, U
  <2> QED
    BY <2>1, <2>2, <2>3, <1>7 DEF Requeued
<1> QED
  BY <1>10, <1>11

\* The circuit breaker holds: while nobody unblocks what it has blocked, work whose
\* latest round was rejected goes back to a worker only within its model's threshold.
THEOREM ReworkIsBudgeted ==
    OrderlySpec /\ [][UnblocksWithinBudget]_vars => []ReworkWithinBudget
<1> DEFINE Budget == \A p \in Rows(task) : Afforded(task, p)
<1>1. OrderlySpec => Init /\ [][OrderlyNext]_vars /\ [](Inv /\ Order(task, NoTask))
  BY OrderInvariance DEF OrderlySpec
<1>2. Init => Budget
  <2> SUFFICES ASSUME Init PROVE Budget
    OBVIOUS
  <2>1. task = <<>> /\ Len(task) = 0
    BY EmptySeq DEF Init
  <2> QED
    BY <2>1 DEF Rows
<1>3. Inv /\ Inv' /\ Order(task, NoTask) /\ Budget /\ [OrderlyNext]_vars
      /\ [UnblocksWithinBudget]_vars => Budget'
  <2> SUFFICES ASSUME Inv, Inv', Order(task, NoTask), Budget, [OrderlyNext]_vars,
                      [UnblocksWithinBudget]_vars
               PROVE  Budget'
    OBVIOUS
  <2>1. CASE UNCHANGED vars
    BY <2>1 DEF vars
  <2>2. CASE OrderlyNext /\ UnblocksWithinBudget
    BY <2>2, OrderlyIsNext, StepIsOrderly, StepIsAfforded
  <2> QED
    BY <2>1, <2>2
<1>4. Inv /\ Budget => ReworkWithinBudget
  <2> SUFFICES ASSUME Inv, Budget, NEW p \in Id, task[p].kind = "implement",
                      task[p].state \in {"ready", "in_progress"},
                      NEW r \in RoundOf(p, task[p].round), task[r].verdict = "reject"
               PROVE  task[p].round <= ThresholdFor(task[p].model)
    BY DEF ReworkWithinBudget
  <2>1. p \in Rows(task) /\ task[p] \in Row
    BY ThisRow
  <2>2. r \in Rows(task) /\ IsReviewOf(task, r, p)
    BY DEF RoundOf, IsReviewOf, Id, Rows
  <2>3. ~OverThreshold(task[p])
    BY <2>1, <2>2 DEF Afforded, Owed
  <2>4. ThresholdFor(task[p].model) \in Int
    BY ThresholdAssumption DEF ThresholdFor, TierDefaults
  <2> QED
    BY <2>1, <2>3, <2>4 DEF OverThreshold, Row
<1> HIDE DEF Budget
<1> QED
  BY <1>1, <1>2, <1>3, <1>4, PTL
=============================================================================

--------------------------- MODULE TaskBoardProofs ---------------------------
(***************************************************************************)
(* Theorems about TaskBoard, for every fleet of agents, ladder, thresholds *)
(* and planner: the review gate, the separation of rounds, holds and       *)
(* off-ramps.  The operators of the aggregator take a table, so the        *)
(* invariants are stated of a table T and applied to task at the end.      *)
(***************************************************************************)
EXTENDS TaskBoard, TLAPS, SequenceTheorems, FiniteSetTheorems, WellFoundedInduction

Rows(T) == 1..Len(T)

\* The ids a row names are among the first n.
Refers(row, n) ==
    /\ row.target \in 0..n
    /\ row.supersededBy \in 0..n
    /\ row.deps \subseteq 1..n

\* TypeOK, of any table.
WellFormed(T) == T \in Seq(Row) /\ \A i \in Rows(T) : Refers(T[i], Len(T))

-----------------------------------------------------------------------------
(* Tables and rows.                                                        *)

\* Adding rows invalidates no id.
LEMMA RefersOn ==
    ASSUME NEW row, NEW n \in Nat, NEW m \in Nat, n <= m, Refers(row, n)
    PROVE  Refers(row, m)
  BY DEF Refers

\* A column-wise well-typed row put in place of another keeps a table well formed.
LEMMA UpdatedRow ==
    ASSUME NEW T, WellFormed(T), NEW t \in Rows(T),
           NEW row \in Row, Refers(row, Len(T))
    PROVE  /\ WellFormed([T EXCEPT ![t] = row])
           /\ Len([T EXCEPT ![t] = row]) = Len(T)
           /\ \A i \in Rows(T) :
                [T EXCEPT ![t] = row][i] = IF i = t THEN row ELSE T[i]
<1>1. T \in Seq(Row)
  BY DEF WellFormed
<1>2. /\ [T EXCEPT ![t] = row] \in Seq(Row)
      /\ Len([T EXCEPT ![t] = row]) = Len(T)
      /\ \A i \in Rows(T) :
            [T EXCEPT ![t] = row][i] = IF i = t THEN row ELSE T[i]
  BY <1>1, ExceptSeq DEF Rows
<1> QED
  BY <1>2 DEF WellFormed, Rows

\* Rows put after a well formed table, naming old and new ids only, keep it well
\* formed.
LEMMA AddedRows ==
    ASSUME NEW T, WellFormed(T), NEW S \in Seq(Row),
           \A i \in Rows(S) : Refers(S[i], Len(T) + Len(S))
    PROVE  /\ WellFormed(T \o S)
           /\ Len(T \o S) = Len(T) + Len(S)
           /\ \A i \in Rows(T) : (T \o S)[i] = T[i]
           /\ \A i \in Rows(T \o S) : i \notin Rows(T) =>
                i - Len(T) \in Rows(S) /\ (T \o S)[i] = S[i - Len(T)]
<1>1. T \in Seq(Row) /\ Len(T) \in Nat /\ Len(S) \in Nat
  BY LenProperties DEF WellFormed
<1>2. /\ T \o S \in Seq(Row)
      /\ Len(T \o S) = Len(T) + Len(S)
      /\ \A i \in 1..Len(T) + Len(S) :
            (T \o S)[i] = IF i <= Len(T) THEN T[i] ELSE S[i - Len(T)]
  BY <1>1, ConcatProperties
<1>3. \A i \in Rows(T \o S) : i \notin Rows(T) =>
            i - Len(T) \in Rows(S) /\ (T \o S)[i] = S[i - Len(T)]
  BY <1>1, <1>2 DEF Rows
<1>4. \A i \in Rows(T) : (T \o S)[i] = T[i]
  BY <1>1, <1>2 DEF Rows
<1>5. ASSUME NEW i \in Rows(T \o S)
      PROVE  Refers((T \o S)[i], Len(T \o S))
  <2>1. CASE i \in Rows(T)
    <3>1. Refers(T[i], Len(T))
      BY <2>1 DEF WellFormed
    <3>2. Refers(T[i], Len(T) + Len(S))
      BY <3>1, <1>1, RefersOn
    <3> QED
      BY <3>2, <2>1, <1>4, <1>2
  <2>2. CASE i \notin Rows(T)
    BY <2>2, <1>3, <1>2
  <2> QED
    BY <2>1, <2>2
<1> QED
  BY <1>2, <1>3, <1>4, <1>5 DEF WellFormed

\* The same for a single row.
LEMMA AddedRow ==
    ASSUME NEW T, WellFormed(T), NEW row \in Row, Refers(row, Len(T) + 1)
    PROVE  /\ WellFormed(Append(T, row))
           /\ Len(Append(T, row)) = Len(T) + 1
           /\ \A i \in Rows(T) : Append(T, row)[i] = T[i]
           /\ Append(T, row)[Len(T) + 1] = row
<1>1. T \in Seq(Row) /\ Len(T) \in Nat
  BY LenProperties DEF WellFormed
<1>2. /\ Append(T, row) \in Seq(Row)
      /\ Len(Append(T, row)) = Len(T) + 1
      /\ \A i \in 1..Len(T) : Append(T, row)[i] = T[i]
      /\ Append(T, row)[Len(T) + 1] = row
  BY <1>1, AppendProperties
<1>3. ASSUME NEW i \in Rows(Append(T, row))
      PROVE  Refers(Append(T, row)[i], Len(T) + 1)
  <2>1. CASE i \in Rows(T)
    <3>1. Refers(T[i], Len(T))
      BY <2>1 DEF WellFormed
    <3>2. Refers(T[i], Len(T) + 1)
      BY <3>1, <1>1, RefersOn
    <3> QED
      BY <3>2, <2>1, <1>2 DEF Rows
  <2>2. CASE i \notin Rows(T)
    BY <2>2, <1>1, <1>2 DEF Rows
  <2> QED
    BY <2>1, <2>2
<1> QED
  BY <1>2, <1>3 DEF WellFormed, Rows

\* A function on 1..n with values in S is a sequence of them.
LEMMA Tabulated ==
    ASSUME NEW S, NEW n \in Nat, NEW f \in [1..n -> S]
    PROVE  f \in Seq(S) /\ Len(f) = n /\ Rows(f) = 1..n
<1>1. f \in Seq(S)
  BY SeqDef
<1> QED
  BY <1>1, LenProperties DEF Rows

-----------------------------------------------------------------------------
(* What each table operator makes of a well formed table.                  *)

\* A fresh row is well typed and names nothing.
LEMMA FreshRow ==
    ASSUME NEW kind \in Kind, NEW state \in State, NEW model \in ModelName
    PROVE  /\ NewRow(kind, state, model) \in Row
           /\ \A n \in Nat : Refers(NewRow(kind, state, model), n)
  BY DEF NewRow, Row, Refers, Lease, Verdict, NoTask, Link

\* Two rows compared, by what the properties read.
SameReview(row, other) ==
    /\ row.kind = other.kind
    /\ row.target = other.target
    /\ row.round = other.round
    /\ row.reviewers = other.reviewers
    /\ row.kind # "merge" => row.verdict = other.verdict

SameState(row, other) == row.state = other.state

SameLock(row, other) ==
    row.held = other.held /\ row.assignee = other.assignee /\ row.verdict = other.verdict

InState(row, state) == row.state = state

\* A row that has been nowhere yet, of the kind of another.
Newborn(row, other, state) ==
    /\ row.kind = other.kind
    /\ row.state = state
    /\ row.target = NoTask
    /\ row.round = 0
    /\ row.verdict = "none"

\* The two edits Supersession makes to a row: its dependencies, and its retirement.
LEMMA RepointedRow ==
    ASSUME NEW row \in Row, NEW n \in Nat, Refers(row, n), NEW t \in Nat
    PROVE  /\ Repointed(row, t, n + 1) \in Row
           /\ Refers(Repointed(row, t, n + 1), n + 1)
           /\ SameReview(Repointed(row, t, n + 1), row)
           /\ SameState(Repointed(row, t, n + 1), row)
           /\ SameLock(Repointed(row, t, n + 1), row)
  BY DEF Repointed, Row, Refers, SameReview, SameState, SameLock

\* The old row keeps all but its state and its link to the replacement.
LEMMA RetiredRow ==
    ASSUME NEW row \in Row, NEW n \in Nat, Refers(row, n)
    PROVE  /\ Retired(row, n) \in Row
           /\ Refers(Retired(row, n), n)
           /\ InState(Retired(row, n), "superseded")
           /\ SameReview(Retired(row, n), row)
           /\ SameLock(Retired(row, n), row)
<1>1. Retired(row, n) \in Row
  BY DEF Retired, Row, State
<1>2. Refers(Retired(row, n), n)
  BY DEF Retired, Row, Refers
<1>3. /\ InState(Retired(row, n), "superseded")
      /\ SameReview(Retired(row, n), row) /\ SameLock(Retired(row, n), row)
  BY DEF Retired, Row, InState, SameReview, SameLock
<1> QED
  BY <1>1, <1>2, <1>3

\* The row Supersession inserts.
LEMMA ReplacementRow ==
    ASSUME NEW row \in Row, NEW state \in State, NEW model \in ModelName,
           NEW n \in Nat, Refers(row, n)
    PROVE  /\ Replacement(row, state, model) \in Row
           /\ Refers(Replacement(row, state, model), n)
           /\ Newborn(Replacement(row, state, model), row, state)
<1>1. Replacement(row, state, model) \in Row
  BY DEF Replacement, NewRow, Row, NoTask, Lease, Verdict, Link
<1>2. Refers(Replacement(row, state, model), n)
  BY DEF Replacement, NewRow, Row, NoTask, Refers
<1>3. Newborn(Replacement(row, state, model), row, state)
  BY DEF Replacement, NewRow, Newborn
<1> QED
  BY <1>1, <1>2, <1>3

\* Supersession appends one fresh row of the same kind, takes the old row out of
\* the running, and changes nothing else that the properties read.
LEMMA SupersessionShape ==
    ASSUME NEW T, WellFormed(T), NEW t \in Rows(T),
           NEW model \in ModelName, NEW state \in State
    PROVE  LET U == Supersession(T, t, model, state) IN
           /\ WellFormed(U)
           /\ Len(U) = Len(T) + 1
           /\ \A i \in Rows(T) : /\ SameReview(U[i], T[i])
                                 /\ SameLock(U[i], T[i])
                                 /\ i # t => SameState(U[i], T[i])
           /\ InState(U[t], "superseded")
           /\ Newborn(U[Len(T) + 1], T[t], state)
<1> DEFINE heir == Len(T) + 1
           f == [i \in 1..Len(T) |-> Repointed(T[i], t, heir)]
           old == Retired(f[t], heir)
           g == [f EXCEPT ![t] = old]
           fresh == Replacement(f[t], state, model)
           U == Supersession(T, t, model, state)
<1>1. U = Append(g, fresh)
  BY DEF Supersession, HeirId
<1>2. /\ T \in Seq(Row) /\ Len(T) \in Nat /\ heir \in Nat /\ t \in Nat
      /\ \A i \in Rows(T) : T[i] \in Row /\ Refers(T[i], Len(T))
  BY LenProperties, ElementOfSeq DEF WellFormed, Rows
<1>3. ASSUME NEW i \in Rows(T)
      PROVE  /\ f[i] \in Row /\ Refers(f[i], heir)
             /\ SameReview(f[i], T[i]) /\ SameLock(f[i], T[i])
             /\ SameState(f[i], T[i])
  <2>1. f[i] = Repointed(T[i], t, heir)
    BY DEF Rows
  <2> HIDE DEF f
  <2> QED
    BY <2>1, <1>2, RepointedRow
<1>4. /\ f \in Seq(Row) /\ Len(f) = Len(T) /\ Rows(f) = Rows(T)
  <2>1. f \in [1..Len(T) -> Row]
    BY <1>3 DEF Rows
  <2> QED
    BY <2>1, <1>2, Tabulated DEF Rows
<1> HIDE DEF f
<1>5. /\ f[t] \in Row /\ Refers(f[t], heir)
      /\ SameReview(f[t], T[t]) /\ SameLock(f[t], T[t])
  BY <1>3
<1>6. /\ old \in Row /\ Refers(old, heir) /\ InState(old, "superseded")
      /\ SameReview(old, f[t]) /\ SameLock(old, f[t])
  BY <1>2, <1>5, RetiredRow
<1>7. fresh \in Row /\ Refers(fresh, heir) /\ Newborn(fresh, f[t], state)
  BY <1>2, <1>5, ReplacementRow
<1> HIDE DEF old, fresh
<1>8. /\ SameReview(old, T[t]) /\ SameLock(old, T[t])
      /\ Newborn(fresh, T[t], state)
  BY <1>5, <1>6, <1>7 DEF SameReview, SameLock, Newborn
<1>9. /\ g \in Seq(Row) /\ Len(g) = Len(T)
      /\ \A i \in Rows(T) : g[i] = IF i = t THEN old ELSE f[i]
  BY <1>4, <1>6, ExceptSeq DEF Rows
<1> HIDE DEF g, U
<1>10. /\ U \in Seq(Row) /\ Len(U) = heir
       /\ \A i \in Rows(T) : U[i] = g[i]
       /\ U[heir] = fresh
  BY <1>1, <1>7, <1>9, AppendProperties DEF Rows
<1>11. ASSUME NEW i \in Rows(U) PROVE Refers(U[i], Len(U))
  <2>1. CASE i \in Rows(T)
    BY <2>1, <1>3, <1>6, <1>9, <1>10
  <2>2. CASE i \notin Rows(T)
    <3>1. i = heir
      BY <2>2, <1>2, <1>10 DEF Rows
    <3> QED
      BY <3>1, <1>7, <1>10
  <2> QED
    BY <2>1, <2>2
<1>12. WellFormed(U)
  BY <1>10, <1>11 DEF WellFormed
<1> QED
  BY <1>3, <1>6, <1>8, <1>9, <1>10, <1>12 DEF U

-----------------------------------------------------------------------------
(* The review gate as an inductive invariant of a table.  ApprovedIsUnanimous *)
(* alone is not inductive: the tally that lets a row through must be known to *)
(* be non-empty and to hold reviews only, and a verdict once recorded must be *)
(* known to stay.                                                          *)

\* r reviews p's latest round.
IsReviewOf(T, r, p) ==
    T[r].kind = "review" /\ T[r].target = p /\ T[r].round = T[p].round

IsAccepted(row) == row.kind = "implement" /\ row.state \in {"approved", "done"}

\* A review row with a verdict is out of play.
VerdictIsFinal(row) ==
    row.kind = "review" /\ row.verdict # "none" => row.state \in {"done", "superseded"}

\* Only review rows of work that was submitted count in a tally of a round, and only
\* they and merge rows get a verdict.
Aimed(T, i) ==
    /\ T[i].kind = "implement" => T[i].target = NoTask /\ T[i].verdict = "none"
    /\ T[i].kind = "merge" => T[i].round = 0
    /\ T[i].kind = "review" /\ T[i].target # NoTask =>
        /\ T[T[i].target].kind = "implement"
        /\ T[i].round >= 1
        /\ T[i].round <= T[T[i].target].round

\* Work that was submitted has a reviewer of its latest round.
HasReviewer(T, p) ==
    T[p].kind = "implement" /\ T[p].round > 0 => \E r \in Rows(T) : IsReviewOf(T, r, p)

Unanimous(T, p) ==
    IsAccepted(T[p]) =>
        /\ T[p].round > 0
        /\ \A r \in Rows(T) : IsReviewOf(T, r, p) => T[r].verdict = "approve"

Gate(T) ==
    \A i \in Rows(T) :
        VerdictIsFinal(T[i]) /\ Aimed(T, i) /\ HasReviewer(T, i) /\ Unanimous(T, i)

\* What the gate allows to happen to a row by itself.
Calm(new, old) ==
    /\ SameReview(new, old)
    /\ IsAccepted(new) => IsAccepted(old)
    /\ VerdictIsFinal(old) => VerdictIsFinal(new)

\* What it allows a row to be inserted as.
Harmless(row) ==
    /\ row.target = NoTask \/ row.kind = "merge"
    /\ row.round = 0 /\ row.verdict = "none" /\ ~IsAccepted(row)

\* A step that leaves the rounds of T alone.
Quiet(U, T) ==
    /\ Len(T) <= Len(U)
    /\ \A i \in Rows(T) : Calm(U[i], T[i])
    /\ \A i \in Rows(U) : i \notin Rows(T) => Harmless(U[i])

\* A step that opens no round: rows keep what the rounds are about, and those that are
\* added are about none.
SameRounds(U, T) ==
    /\ Len(T) <= Len(U)
    /\ \A i \in Rows(T) :
        /\ U[i].kind = T[i].kind /\ U[i].target = T[i].target
        /\ U[i].round = T[i].round /\ U[i].reviewers = T[i].reviewers
    /\ \A i \in Rows(U) : i \notin Rows(T) =>
        /\ U[i].target = NoTask \/ U[i].kind = "merge"
        /\ U[i].round = 0

\* A step that opens the next round of t, with a row for each reviewer.
OpensRound(U, T, t) ==
    /\ t \in Rows(T) /\ T[t].kind = "implement"
    /\ Len(U) = Len(T) + Len(ReviewersOf(T[t]))
    /\ \A i \in Rows(T) :
        /\ U[i].kind = T[i].kind /\ U[i].target = T[i].target
        /\ U[i].round = IF i = t THEN T[t].round + 1 ELSE T[i].round
        /\ U[i].reviewers = T[i].reviewers
    /\ \A i \in Rows(U) : i \notin Rows(T) =>
        U[i].kind = "review" /\ U[i].target = t /\ U[i].round = T[t].round + 1

\* A quiet change opens no round.
LEMMA QuietOpensNoRound ==
    ASSUME NEW T, NEW U, Quiet(U, T)
    PROVE  SameRounds(U, T)
  BY DEF Quiet, Calm, SameReview, Harmless, SameRounds

\* Nor do two changes that open none.
LEMMA SameRoundsTwice ==
    ASSUME NEW T, NEW V, NEW U, WellFormed(T), WellFormed(V), WellFormed(U),
           SameRounds(V, T), SameRounds(U, V)
    PROVE  SameRounds(U, T)
<1>1. Len(T) \in Nat /\ Len(V) \in Nat /\ Len(U) \in Nat
  BY LenProperties DEF WellFormed
<1>2. Len(T) <= Len(U) /\ Rows(T) \subseteq Rows(V)
  BY <1>1 DEF SameRounds, Rows
<1>3. ASSUME NEW i \in Rows(U), i \notin Rows(T)
      PROVE  (U[i].target = NoTask \/ U[i].kind = "merge") /\ U[i].round = 0
  <2>1. CASE i \in Rows(V)
    BY <2>1, <1>3 DEF SameRounds
  <2>2. CASE i \notin Rows(V)
    BY <2>2, <1>3 DEF SameRounds
  <2> QED
    BY <2>1, <2>2
<1> QED
  BY <1>2, <1>3 DEF SameRounds

\* Every quiet step preserves the gate.
LEMMA QuietKeepsGate ==
    ASSUME NEW T, NEW U, WellFormed(T), WellFormed(U), Gate(T), Quiet(U, T)
    PROVE  Gate(U)
<1>1. /\ Len(T) \in Nat /\ Len(U) \in Nat /\ Len(T) <= Len(U)
      /\ Rows(T) \subseteq Rows(U)
      /\ \A i \in Rows(T) : T[i] \in Row /\ Refers(T[i], Len(T))
      /\ \A i \in Rows(U) : U[i] \in Row /\ Refers(U[i], Len(U))
  BY LenProperties, ElementOfSeq DEF WellFormed, Rows, Quiet
<1>2. ASSUME NEW i \in Rows(T)
      PROVE  /\ U[i].kind = T[i].kind /\ U[i].target = T[i].target
             /\ U[i].round = T[i].round
             /\ T[i].kind # "merge" => U[i].verdict = T[i].verdict
             /\ IsAccepted(U[i]) => IsAccepted(T[i])
             /\ VerdictIsFinal(T[i]) => VerdictIsFinal(U[i])
             /\ T[i].target # NoTask => T[i].target \in Rows(T)
  BY <1>1 DEF Quiet, Calm, SameReview, Refers, NoTask, Rows, Row
<1>3. ASSUME NEW i \in Rows(U), i \notin Rows(T)
      PROVE  /\ U[i].target = NoTask \/ U[i].kind = "merge"
             /\ U[i].round = 0 /\ U[i].verdict = "none" /\ ~IsAccepted(U[i])
  BY <1>3 DEF Quiet, Harmless
<1>4. ASSUME NEW i \in Rows(U) PROVE VerdictIsFinal(U[i])
  BY <1>2, <1>3 DEF Gate, VerdictIsFinal
<1>5. ASSUME NEW i \in Rows(U) PROVE Aimed(U, i)
  <2>1. CASE i \in Rows(T)
    <3>1. Aimed(T, i)
      BY <2>1 DEF Gate
    <3> QED
      BY <3>1, <2>1, <1>2 DEF Aimed
  <2>2. CASE i \notin Rows(T)
    BY <2>2, <1>3 DEF Aimed
  <2> QED
    BY <2>1, <2>2
<1>6. ASSUME NEW i \in Rows(U) PROVE HasReviewer(U, i)
  <2>1. CASE i \in Rows(T)
    <3>1. HasReviewer(T, i)
      BY <2>1 DEF Gate
    <3>2. SUFFICES ASSUME NEW r \in Rows(T), IsReviewOf(T, r, i)
                   PROVE  IsReviewOf(U, r, i)
      BY <3>1, <2>1, <1>1, <1>2 DEF HasReviewer
    <3> QED
      BY <3>2, <2>1, <1>2 DEF IsReviewOf
  <2>2. CASE i \notin Rows(T)
    BY <2>2, <1>3 DEF HasReviewer
  <2> QED
    BY <2>1, <2>2
<1>7. ASSUME NEW i \in Rows(U) PROVE Unanimous(U, i)
  <2>1. SUFFICES ASSUME IsAccepted(U[i])
                 PROVE  /\ U[i].round > 0
                        /\ \A r \in Rows(U) :
                            IsReviewOf(U, r, i) => U[r].verdict = "approve"
    BY DEF Unanimous
  <2>2. i \in Rows(T)
    BY <2>1, <1>3
  <2>3. /\ T[i].round > 0
        /\ \A r \in Rows(T) : IsReviewOf(T, r, i) => T[r].verdict = "approve"
    BY <2>1, <2>2, <1>2 DEF Gate, Unanimous
  <2>4. ASSUME NEW r \in Rows(U), IsReviewOf(U, r, i)
        PROVE  U[r].verdict = "approve"
    <3>1. r \in Rows(T)
      BY <2>2, <2>4, <1>1, <1>3 DEF IsReviewOf, NoTask, Rows
    <3>2. IsReviewOf(T, r, i)
      BY <3>1, <2>2, <2>4, <1>2 DEF IsReviewOf
    <3> QED
      BY <3>1, <3>2, <2>3, <1>2 DEF IsReviewOf
  <2> QED
    BY <2>2, <2>3, <2>4, <1>2
<1> QED
  BY <1>4, <1>5, <1>6, <1>7 DEF Gate

-----------------------------------------------------------------------------
(* The two shapes most steps have.                                         *)

\* A row is replaced.
LEMMA OneRow ==
    ASSUME NEW T, WellFormed(T), NEW t \in Rows(T), NEW row \in Row,
           Refers(row, Len(T)), Calm(row, T[t])
    PROVE  /\ WellFormed([T EXCEPT ![t] = row])
           /\ Quiet([T EXCEPT ![t] = row], T)
<1>1. \A i \in Rows(T) : Calm(T[i], T[i])
  BY DEF Calm, SameReview
<1>2. Len(T) \in Nat
  BY LenProperties DEF WellFormed
<1> QED
  BY <1>1, <1>2, UpdatedRow DEF Quiet, Rows

\* Rows are added.
LEMMA MoreRows ==
    ASSUME NEW T, WellFormed(T), NEW S \in Seq(Row),
           \A i \in Rows(S) : Refers(S[i], Len(T) + Len(S)) /\ Harmless(S[i])
    PROVE  WellFormed(T \o S) /\ Quiet(T \o S, T)
<1>1. \A i \in Rows(T) : Calm(T[i], T[i])
  BY DEF Calm, SameReview
<1>2. Len(T) \in Nat /\ Len(S) \in Nat
  BY LenProperties DEF WellFormed
<1>3. /\ WellFormed(T \o S)
      /\ Len(T \o S) = Len(T) + Len(S)
      /\ \A i \in Rows(T) : (T \o S)[i] = T[i]
      /\ \A i \in Rows(T \o S) : i \notin Rows(T) =>
            i - Len(T) \in Rows(S) /\ (T \o S)[i] = S[i - Len(T)]
  BY AddedRows
<1>4. \A i \in Rows(T) : Calm((T \o S)[i], T[i])
  BY <1>1, <1>3
<1>5. \A i \in Rows(T \o S) : i \notin Rows(T) => Harmless((T \o S)[i])
  BY <1>3
<1>6. Len(T) <= Len(T \o S)
  BY <1>2, <1>3
<1> QED
  BY <1>3, <1>4, <1>5, <1>6 DEF Quiet

Inv == WellFormed(task) /\ Gate(task)

\* The facts about the row a step is about.
LEMMA ThisRow ==
    ASSUME Inv, NEW t \in Id
    PROVE  /\ t \in Rows(task) /\ Len(task) \in Nat
           /\ task[t] \in Row /\ Refers(task[t], Len(task))
           /\ VerdictIsFinal(task[t]) /\ Aimed(task, t)
           /\ HasReviewer(task, t) /\ Unanimous(task, t)
  BY LenProperties, ElementOfSeq DEF Inv, WellFormed, Gate, Id, Rows

\* Replacing one row by a calm one preserves the invariant.
LEMMA CalmStep ==
    ASSUME Inv, NEW t \in Id, NEW row \in Row, Refers(row, Len(task)),
           Calm(row, task[t]), task' = [task EXCEPT ![t] = row]
    PROVE  Inv' /\ Quiet(task', task)
<1>1. t \in Rows(task)
  BY DEF Id, Rows
<1>2. WellFormed(task') /\ Quiet(task', task)
  BY <1>1, OneRow DEF Inv
<1> QED
  BY <1>2, QuietKeepsGate DEF Inv

\* PromoteTask moves a backlog row, which nobody has accepted, to the queue.
LEMMA PromoteKeeps ==
    ASSUME Inv, NEW t \in Id, PromoteTask(t)
    PROVE  Inv' /\ Quiet(task', task)
<1> DEFINE row == [task[t] EXCEPT !.state = "ready"]
<1>1. task' = [task EXCEPT ![t] = row]
  BY DEF PromoteTask
<1>2. task[t] \in Row /\ Refers(task[t], Len(task)) /\ task[t].state = "backlog"
  BY ThisRow DEF PromoteTask
<1>3. row \in Row /\ Refers(row, Len(task))
  BY <1>2 DEF Row, State, Refers
<1>4. Calm(row, task[t])
  BY <1>2 DEF Row, Calm, SameReview, IsAccepted, VerdictIsFinal
<1> QED
  BY <1>1, <1>3, <1>4, CalmStep

\* ClaimTask takes a row that is neither accepted nor a reviewer that has spoken.
LEMMA ClaimKeeps ==
    ASSUME Inv, NEW t \in Id, NEW agent \in Agent, NEW model, ClaimTask(t, agent, model)
    PROVE  Inv' /\ Quiet(task', task)
<1> DEFINE row == [task[t] EXCEPT
                    !.state = "in_progress", !.assignee = agent, !.lease = "live"]
<1>1. task' = [task EXCEPT ![t] = row]
  BY DEF ClaimTask
<1>2. /\ task[t] \in Row /\ Refers(task[t], Len(task))
      /\ task[t].state \in {"ready", "in_progress"}
  BY ThisRow DEF ClaimTask, Claimable
<1>3. row \in Row /\ Refers(row, Len(task))
  BY <1>2 DEF Row, State, Lease, Refers
<1>4. Calm(row, task[t])
  BY <1>2 DEF Row, Calm, SameReview, IsAccepted, VerdictIsFinal
<1> QED
  BY <1>1, <1>3, <1>4, CalmStep

\* Heartbeats and the clock touch the lease only.
LEMMA LeaseKeeps ==
    ASSUME Inv, NEW t \in Id, NEW lease \in Lease,
           task' = [task EXCEPT ![t].lease = lease]
    PROVE  Inv' /\ Quiet(task', task)
<1> DEFINE row == [task[t] EXCEPT !.lease = lease]
<1>1. task' = [task EXCEPT ![t] = row]
  OBVIOUS
<1>2. task[t] \in Row /\ Refers(task[t], Len(task))
  BY ThisRow
<1>3. row \in Row /\ Refers(row, Len(task))
  BY <1>2 DEF Row, Refers
<1>4. Calm(row, task[t])
  BY <1>2 DEF Row, Calm, SameReview, IsAccepted, VerdictIsFinal
<1> QED
  BY <1>1, <1>3, <1>4, CalmStep

\* HoldTask and ReleaseTask touch the hold only.
LEMMA HoldKeeps ==
    ASSUME Inv, NEW t \in Id, HoldTask(t) \/ ReleaseTask(t)
    PROVE  Inv' /\ Quiet(task', task)
<1>1. PICK held \in BOOLEAN : task' = [task EXCEPT ![t].held = held]
  BY DEF HoldTask, ReleaseTask
<1> DEFINE row == [task[t] EXCEPT !.held = held]
<1>2. task' = [task EXCEPT ![t] = row]
  BY <1>1
<1>3. task[t] \in Row /\ Refers(task[t], Len(task))
  BY ThisRow
<1>4. row \in Row /\ Refers(row, Len(task))
  BY <1>3 DEF Row, Refers
<1>5. Calm(row, task[t])
  BY <1>3 DEF Row, Calm, SameReview, IsAccepted, VerdictIsFinal
<1> QED
  BY <1>2, <1>4, <1>5, CalmStep

\* TransitionTask finishes accepted work only, and never moves a verdict.
LEMMA TransitionKeeps ==
    ASSUME Inv, NEW t \in Id, NEW to \in State, TransitionTask(t, to)
    PROVE  Inv' /\ Quiet(task', task)
<1> DEFINE row == Moved(task[t], to)
<1>1. task' = [task EXCEPT ![t] = row] /\ CanTransition(task[t], to)
  BY DEF TransitionTask
<1>2. /\ task[t] \in Row /\ Refers(task[t], Len(task))
  BY ThisRow
<1>3. row \in Row /\ Refers(row, Len(task))
  BY <1>2 DEF Moved, Row, Lease, Refers
<1>4. SameReview(row, task[t]) /\ row.state = to
  BY <1>2 DEF Moved, Row, SameReview
<1>5. Calm(row, task[t])
  BY <1>1, <1>2, <1>4
     DEF CanTransition, Row, State, Active, Calm, SameReview, IsAccepted, VerdictIsFinal
<1> QED
  BY <1>1, <1>3, <1>5, CalmStep

-----------------------------------------------------------------------------
(* Planning and supersession: what they add is harmless.                   *)

\* A non-empty set of numbers has a least one.
LEMMA LeastNumber ==
    ASSUME NEW S \in SUBSET Nat, S # {}
    PROVE  \E m \in S : \A k \in S : m <= k
<1> DEFINE smaller == {pair \in Nat \X Nat : pair[1] < pair[2]}
<1>1. IsWellFoundedOn(smaller, Nat)
  BY NatLessThanWellFounded, Zenon DEF OpToRel
<1>2. PICK m \in S : \A k \in S : <<k, m>> \notin smaller
  <2> HIDE DEF smaller
  <2> QED
    BY <1>1, WFMin
<1>3. ASSUME NEW k \in S PROVE m <= k
  <2>1. k \in Nat /\ m \in Nat /\ <<k, m>> \notin smaller
    BY <1>2
  <2>2. ~(k < m)
    BY <2>1
  <2> QED
    BY <2>1, <2>2
<1> QED
  BY <1>3

\* A non-empty set of positions has a last one.
LEMMA LastPosition ==
    ASSUME NEW n \in Nat, NEW S \in SUBSET (1..n), S # {}
    PROVE  \E i \in S : \A j \in S : j <= i
<1> DEFINE fromEnd == {n - i : i \in S}
<1>1. PICK i \in S : TRUE
  OBVIOUS
<1>2. fromEnd \in SUBSET Nat /\ n - i \in fromEnd
  BY <1>1
<1>3. PICK m \in fromEnd : \A k \in fromEnd : m <= k
  <2> HIDE DEF fromEnd
  <2> QED
    BY <1>2, LeastNumber
<1>4. PICK last \in S : m = n - last
  OBVIOUS
<1>5. ASSUME NEW j \in S PROVE j <= last
  <2>1. n - j \in fromEnd
    OBVIOUS
  <2>2. n - last <= n - j
    BY <2>1, <1>3, <1>4
  <2>3. n \in Int /\ last \in Int /\ j \in Int
    OBVIOUS
  <2> HIDE DEF fromEnd
  <2> QED
    BY <2>2, <2>3
<1> QED
  BY <1>5

\* A reference a batch may hold resolves to a row, old or new.
LEMMA ResolvedToRow ==
    ASSUME NEW batch, Len(batch) \in Nat, Len(task) \in Nat,
           NEW ref, Keyed(batch, ref) # {} \/ ref \in Id
    PROVE  Resolved(batch, ref) \in 1..(Len(task) + Len(batch))
<1>1. CASE Keyed(batch, ref) # {}
  <2>1. Keyed(batch, ref) \in SUBSET (1..Len(batch))
    BY DEF Keyed
  <2>2. \E i \in Keyed(batch, ref) : \A j \in Keyed(batch, ref) : j <= i
    BY <1>1, <2>1, LastPosition
  <2>3. LastKeyed(batch, ref) \in Keyed(batch, ref)
    BY <2>2 DEF LastKeyed
  <2>4. LastKeyed(batch, ref) \in 1..Len(batch)
    BY <2>1, <2>3
  <2> QED
    BY <1>1, <2>4 DEF Resolved
<1>2. CASE Keyed(batch, ref) = {}
  BY <1>2 DEF Resolved, Id
<1> QED
  BY <1>1, <1>2

\* A planned row names existing rows and rows of its own batch.
LEMMA PlannedRowIsHarmless ==
    ASSUME NEW batch \in Seq(Input), BatchIsValid(batch), Len(task) \in Nat,
           NEW i \in 1..Len(batch)
    PROVE  /\ PlannedRow(batch, batch[i]) \in Row
           /\ Refers(PlannedRow(batch, batch[i]), Len(task) + Len(batch))
           /\ Harmless(PlannedRow(batch, batch[i]))
<1> DEFINE input == batch[i]
           deps == {Resolved(batch, ref) : ref \in input.dependsOn}
           row == PlannedRow(batch, input)
<1>1. Len(batch) \in Nat
  BY LenProperties
<1>2. input \in Input
  BY ElementOfSeq
<1>3. \A ref \in input.dependsOn : Keyed(batch, ref) # {} \/ ref \in Id
  BY DEF BatchIsValid
<1>4. deps \subseteq 1..(Len(task) + Len(batch)) /\ deps \in SUBSET Nat
  BY <1>1, <1>3, ResolvedToRow
<1>5. row = [NewRow("implement", "backlog", input.model) EXCEPT
                !.reviewers = input.reviewers, !.agentMerge = input.agentMerge,
                !.escalate = input.escalate, !.deps = deps]
  BY DEF PlannedRow
<1> HIDE DEF deps, row, input
<1>6. row \in Row
  BY <1>2, <1>4, <1>5 DEF Input, NewRow, Row, Kind, State, Lease, Verdict, Link, NoTask
<1>7. Refers(row, Len(task) + Len(batch))
  BY <1>1, <1>2, <1>4, <1>5 DEF NewRow, Refers, NoTask
<1>8. Harmless(row)
  BY <1>5 DEF NewRow, Harmless, IsAccepted, NoTask
<1> QED
  BY <1>6, <1>7, <1>8 DEF row, input

\* CreateTasks adds planned rows.
LEMMA CreateKeeps ==
    ASSUME Inv, NEW batch \in Batches, CreateTasks(batch)
    PROVE  Inv' /\ Quiet(task', task)
<1> DEFINE S == [i \in 1..Len(batch) |-> PlannedRow(batch, batch[i])]
<1>1. task' = task \o S /\ BatchIsValid(batch)
  BY DEF CreateTasks
<1>2. /\ batch \in Seq(Input) /\ Len(batch) \in Nat
      /\ Len(task) \in Nat /\ WellFormed(task) /\ Gate(task)
  BY BatchAssumption, LenProperties DEF Inv, WellFormed
<1>3. \A i \in 1..Len(batch) :
        /\ S[i] \in Row /\ Refers(S[i], Len(task) + Len(batch)) /\ Harmless(S[i])
  BY <1>1, <1>2, PlannedRowIsHarmless
<1>4. S \in Seq(Row) /\ Len(S) = Len(batch) /\ Rows(S) = 1..Len(batch)
  <2>1. S \in [1..Len(batch) -> Row]
    BY <1>3
  <2> QED
    BY <2>1, <1>2, Tabulated
<1> HIDE DEF S
<1>5. WellFormed(task') /\ Quiet(task', task)
  BY <1>1, <1>2, <1>3, <1>4, MoreRows
<1> QED
  BY <1>2, <1>5, QuietKeepsGate DEF Inv

\* Supersession is quiet wherever it happens.
LEMMA SupersessionIsQuiet ==
    ASSUME NEW T, WellFormed(T), NEW t \in Rows(T), NEW model \in ModelName,
           NEW state \in {"backlog", "ready"}
    PROVE  LET U == Supersession(T, t, model, state) IN
           WellFormed(U) /\ Quiet(U, T)
<1> DEFINE U == Supersession(T, t, model, state)
<1>1. Len(T) \in Nat
  BY LenProperties DEF WellFormed
<1>2. /\ WellFormed(U) /\ Len(U) = Len(T) + 1
      /\ \A i \in Rows(T) : SameReview(U[i], T[i]) /\ (i # t => SameState(U[i], T[i]))
      /\ InState(U[t], "superseded") /\ Newborn(U[Len(T) + 1], T[t], state)
  BY SupersessionShape DEF State
<1> HIDE DEF U
<1>3. ASSUME NEW i \in Rows(T) PROVE Calm(U[i], T[i])
  <2>1. CASE i = t
    BY <2>1, <1>2 DEF Calm, SameReview, InState, IsAccepted, VerdictIsFinal
  <2>2. CASE i # t
    BY <2>2, <1>2 DEF Calm, SameReview, SameState, IsAccepted, VerdictIsFinal
  <2> QED
    BY <2>1, <2>2
<1>4. ASSUME NEW i \in Rows(U), i \notin Rows(T) PROVE Harmless(U[i])
  <2>1. i = Len(T) + 1
    BY <1>1, <1>2, <1>4 DEF Rows
  <2> QED
    BY <2>1, <1>2 DEF Newborn, Harmless, IsAccepted
<1> QED
  BY <1>1, <1>2, <1>3, <1>4 DEF Quiet, U

\* SupersedeTask, on any row in any state.
LEMMA SupersedeKeeps ==
    ASSUME Inv, NEW t \in Id, NEW model \in Models, SupersedeTask(t, model)
    PROVE  Inv' /\ Quiet(task', task)
<1>1. task' = Supersession(task, t, model, "backlog") /\ model \in ModelName
  BY DEF SupersedeTask, ModelName
<1>2. t \in Rows(task) /\ WellFormed(task) /\ Gate(task)
  BY DEF Id, Rows, Inv
<1>3. WellFormed(task') /\ Quiet(task', task)
  BY <1>1, <1>2, SupersessionIsQuiet
<1> QED
  BY <1>2, <1>3, QuietKeepsGate DEF Inv

-----------------------------------------------------------------------------
(* A submission opens a new round: it is not quiet.                        *)

\* The submitted row itself.
LEMMA ReworkedRow ==
    ASSUME NEW row \in Row, NEW n \in Nat, Refers(row, n), row.kind = "implement",
           row.target = NoTask, NEW links \in Submissions
    PROVE  /\ Reworked(row, links, row.round + 1) \in Row
           /\ Refers(Reworked(row, links, row.round + 1), n)
           /\ Reworked(row, links, row.round + 1).kind = "implement"
           /\ Reworked(row, links, row.round + 1).target = NoTask
           /\ Reworked(row, links, row.round + 1).state = "review"
           /\ Reworked(row, links, row.round + 1).verdict = "none"
           /\ Reworked(row, links, row.round + 1).reviewers = row.reviewers
           /\ Reworked(row, links, row.round + 1).round = row.round + 1
<1>1. links \subseteq Link
  BY SubmissionAssumption DEF Link
<1>2. Reworked(row, links, row.round + 1) \in Row
  <2> DEFINE submitted == Submitted(row, "review", "none", links)
  <2>1. row.links \cup links \in SUBSET Link
    BY <1>1 DEF Row
  <2>2. submitted \in Row
    BY <2>1 DEF Submitted, Row, State, Verdict, Lease
  <2>3. row.round + 1 \in Nat
    BY DEF Row
  <2>4. Reworked(row, links, row.round + 1) = [submitted EXCEPT !.round = row.round + 1]
    BY DEF Reworked
  <2> HIDE DEF submitted
  <2> QED
    BY <2>2, <2>3, <2>4 DEF Row
<1>3. Refers(Reworked(row, links, row.round + 1), n)
  BY DEF Reworked, Submitted, Row, Refers
<1> QED
  BY <1>2, <1>3 DEF Reworked, Submitted, Row

\* The review rows it spawns.
LEMMA ReviewRowIsFresh ==
    ASSUME NEW model \in ModelName, NEW round \in Nat, NEW p \in Nat,
           NEW n \in Nat, p <= n
    PROVE  /\ ReviewRow(model, round, p) \in Row
           /\ Refers(ReviewRow(model, round, p), n)
           /\ ReviewRow(model, round, p).kind = "review"
           /\ ReviewRow(model, round, p).target = p
           /\ ReviewRow(model, round, p).round = round
           /\ ReviewRow(model, round, p).verdict = "none"
<1>1. ReviewRow(model, round, p) \in Row
  <2> DEFINE fresh == NewRow("review", "ready", model)
  <2>1. fresh \in Row
    BY FreshRow DEF Kind, State
  <2>2. ReviewRow(model, round, p) = [fresh EXCEPT !.round = round, !.target = p]
    BY DEF ReviewRow
  <2> HIDE DEF fresh
  <2> QED
    BY <2>1, <2>2 DEF Row
<1>2. Refers(ReviewRow(model, round, p), n)
  BY DEF ReviewRow, NewRow, Refers, NoTask
<1> QED
  BY <1>1, <1>2 DEF ReviewRow, NewRow

\* Every implement row has someone to review it.
LEMMA SomeReviewer ==
    ASSUME NEW row \in Row
    PROVE  /\ ReviewersOf(row) \in Seq(ModelName)
           /\ Len(ReviewersOf(row)) \in Nat
           /\ Len(ReviewersOf(row)) >= 1
<1>1. row.reviewers \in Seq(ModelName)
  BY DEF Row
<1>2. <<"opus">> \in Seq(ModelName) /\ Len(<<"opus">>) = 1
  BY DEF ModelName
<1> QED
  BY <1>1, <1>2, LenProperties, EmptySeq DEF ReviewersOf

\* SubmitTask of an implement row: the new round starts with no verdict, and other
\* rows keep their rounds.
LEMMA WorkKeeps ==
    ASSUME Inv, NEW t \in Id, NEW agent, NEW links \in Submissions,
           SubmitWork(t, agent, links)
    PROVE  Inv' /\ OpensRound(task', task, t)
<1> DEFINE n == Len(task)
           round == task[t].round + 1
           reviewers == ReviewersOf(task[t])
           row == Reworked(task[t], links, round)
           V == [task EXCEPT ![t] = row]
           S == [i \in 1..Len(reviewers) |-> ReviewRow(reviewers[i], round, t)]
           U == task'
<1>1. U = V \o S /\ task[t].kind = "implement"
  BY DEF SubmitWork
<1>2. /\ t \in Rows(task) /\ n \in Nat /\ task[t] \in Row /\ Refers(task[t], n)
      /\ t \in 1..n /\ WellFormed(task) /\ Gate(task) /\ Aimed(task, t)
  BY ThisRow DEF Inv, Rows
<1>3. task[t].target = NoTask /\ round \in Nat /\ round > 0
  BY <1>1, <1>2 DEF Aimed, Row
<1>4. /\ row \in Row /\ Refers(row, n) /\ row.kind = "implement"
      /\ row.target = NoTask /\ row.state = "review" /\ row.round = round
      /\ row.verdict = "none" /\ row.reviewers = task[t].reviewers
  BY <1>1, <1>2, <1>3, ReworkedRow
<1>5. /\ reviewers \in Seq(ModelName) /\ Len(reviewers) \in Nat /\ Len(reviewers) >= 1
  BY <1>2, SomeReviewer
<1>6. ASSUME NEW i \in 1..Len(reviewers)
      PROVE  /\ S[i] \in Row /\ Refers(S[i], n + Len(reviewers))
             /\ S[i].kind = "review" /\ S[i].target = t
             /\ S[i].round = round /\ S[i].verdict = "none"
  <2>1. S[i] = ReviewRow(reviewers[i], round, t)
    OBVIOUS
  <2>2. reviewers[i] \in ModelName
    BY <1>5, ElementOfSeq
  <2>3. t \in Nat /\ n + Len(reviewers) \in Nat /\ t <= n + Len(reviewers)
    BY <1>2, <1>5
  <2> HIDE DEF S, round, reviewers
  <2> QED
    BY <1>3, <2>1, <2>2, <2>3, ReviewRowIsFresh
<1>7. S \in Seq(Row) /\ Len(S) = Len(reviewers) /\ Rows(S) = 1..Len(reviewers)
  <2>1. S \in [1..Len(reviewers) -> Row]
    BY <1>6
  <2> QED
    BY <2>1, <1>5, Tabulated
<1>8. /\ WellFormed(V) /\ Len(V) = n /\ Rows(V) = Rows(task)
      /\ \A i \in Rows(task) : V[i] = IF i = t THEN row ELSE task[i]
  BY <1>2, <1>4, UpdatedRow DEF Rows
<1> HIDE DEF row, V, S, reviewers, round, U
<1>9. /\ WellFormed(U) /\ Len(U) = n + Len(S)
      /\ \A i \in Rows(V) : U[i] = V[i]
      /\ \A i \in Rows(U) : i \notin Rows(V) =>
            i - Len(V) \in Rows(S) /\ U[i] = S[i - Len(V)]
  <2>1. \A i \in Rows(S) : Refers(S[i], Len(V) + Len(S))
    BY <1>6, <1>7, <1>8
  <2> QED
    BY <1>1, <1>7, <1>8, <2>1, AddedRows
<1>10. /\ U[t] = row
       /\ \A i \in Rows(task) : i # t => U[i] = task[i]
  BY <1>2, <1>8, <1>9
<1>11. ASSUME NEW i \in Rows(U), i \notin Rows(task)
       PROVE  /\ U[i].kind = "review" /\ U[i].target = t
              /\ U[i].round = round /\ U[i].verdict = "none"
  BY <1>6, <1>7, <1>8, <1>9, <1>11
<1>12. n + 1 \in Rows(U) /\ n + 1 \notin Rows(task) /\ Rows(task) \subseteq Rows(U)
  BY <1>2, <1>5, <1>7, <1>9 DEF Rows
<1>13. \A i \in Rows(task) : task[i] \in Row /\ Refers(task[i], n) /\ Aimed(task, i)
  BY <1>2, ElementOfSeq DEF WellFormed, Gate, Rows
<1>14. ASSUME NEW i \in Rows(U) PROVE VerdictIsFinal(U[i]) /\ Aimed(U, i)
  <2>1. CASE i = t
    BY <2>1, <1>4, <1>10 DEF VerdictIsFinal, Aimed
  <2>2. CASE i \in Rows(task) /\ i # t
    <3>1. U[i] = task[i] /\ VerdictIsFinal(task[i]) /\ Aimed(task, i)
      BY <2>2, <1>2, <1>10 DEF Gate
    <3>2. CASE task[i].kind = "review" /\ task[i].target = t
      <4>1. /\ U[t].kind = "implement" /\ U[t].round = task[t].round + 1
            /\ task[t].round \in Nat /\ t # NoTask /\ task[i].round \in Nat
        <5>1. U[t].kind = "implement" /\ U[t].round = task[t].round + 1
          BY <1>4, <1>10 DEF round
        <5>2. task[t].round \in Nat /\ task[i].round \in Nat
          BY <2>2, <1>2, <1>13 DEF Row
        <5> QED
          BY <5>1, <5>2, <1>2 DEF NoTask
      <4> QED
        BY <3>1, <3>2, <4>1 DEF Aimed
    <3>3. CASE ~(task[i].kind = "review" /\ task[i].target = t)
      <4>1. task[i].kind = "review" /\ task[i].target # NoTask =>
                U[task[i].target] = task[task[i].target]
        BY <2>2, <3>3, <1>10, <1>13 DEF Refers, Rows, NoTask
      <4> QED
        BY <3>1, <3>3, <4>1 DEF Aimed
    <3> QED
      BY <3>2, <3>3
  <2>3. CASE i \notin Rows(task)
    BY <2>3, <1>3, <1>4, <1>10, <1>11 DEF VerdictIsFinal, Aimed
  <2> QED
    BY <2>1, <2>2, <2>3
<1>15. ASSUME NEW i \in Rows(U) PROVE HasReviewer(U, i)
  <2>1. CASE i = t
    BY <2>1, <1>4, <1>10, <1>11, <1>12 DEF HasReviewer, IsReviewOf
  <2>2. CASE i \in Rows(task) /\ i # t
    <3>1. HasReviewer(task, i) /\ U[i] = task[i]
      BY <2>2, <1>2, <1>10 DEF Gate
    <3>2. ASSUME NEW r \in Rows(task), IsReviewOf(task, r, i) PROVE IsReviewOf(U, r, i)
      <4>1. r # t
        BY <3>2, <1>1 DEF IsReviewOf
      <4> QED
        BY <3>1, <3>2, <4>1, <1>10 DEF IsReviewOf
    <3> QED
      BY <3>1, <3>2, <1>12 DEF HasReviewer
  <2>3. CASE i \notin Rows(task)
    BY <2>3, <1>11 DEF HasReviewer
  <2> QED
    BY <2>1, <2>2, <2>3
<1>16. ASSUME NEW i \in Rows(U) PROVE Unanimous(U, i)
  <2>1. CASE i = t
    BY <2>1, <1>4, <1>10 DEF Unanimous, IsAccepted
  <2>2. CASE i \in Rows(task) /\ i # t
    <3>1. Unanimous(task, i) /\ U[i] = task[i]
      BY <2>2, <1>2, <1>10 DEF Gate
    <3>2. ASSUME NEW r \in Rows(U), IsReviewOf(U, r, i)
          PROVE  IsReviewOf(task, r, i) /\ r \in Rows(task) /\ U[r] = task[r]
      <4>1. r \in Rows(task)
        BY <3>2, <2>2, <1>11 DEF IsReviewOf
      <4>2. r # t
        BY <3>2, <1>4, <1>10 DEF IsReviewOf
      <4> QED
        BY <3>1, <3>2, <4>1, <4>2, <1>10 DEF IsReviewOf
    <3> QED
      BY <3>1, <3>2 DEF Unanimous
  <2>3. CASE i \notin Rows(task)
    BY <2>3, <1>11 DEF Unanimous, IsAccepted
  <2> QED
    BY <2>1, <2>2, <2>3
<1>17. Gate(U)
  BY <1>14, <1>15, <1>16 DEF Gate
<1>18. OpensRound(U, task, t)
  <2>1. \A i \in Rows(task) :
            /\ U[i].kind = task[i].kind /\ U[i].target = task[i].target
            /\ U[i].round = IF i = t THEN round ELSE task[i].round
            /\ U[i].reviewers = task[i].reviewers
    BY <1>1, <1>3, <1>4, <1>10
  <2>2. Len(U) = Len(task) + Len(ReviewersOf(task[t]))
    BY <1>7, <1>9 DEF reviewers
  <2> QED
    BY <2>1, <2>2, <1>1, <1>2, <1>11 DEF OpensRound, round
<1> QED
  BY <1>9, <1>17, <1>18 DEF Inv, U

\* A merge row that is submitted: no round is about it.
LEMMA MergeKeeps ==
    ASSUME Inv, NEW t \in Id, NEW agent, NEW verdict \in Verdict,
           SubmitMerge(t, agent, verdict)
    PROVE  Inv' /\ Quiet(task', task)
<1> DEFINE row == Submitted(task[t], "review", verdict, {})
<1>1. task' = [task EXCEPT ![t] = row] /\ task[t].kind = "merge"
  BY DEF SubmitMerge
<1>2. task[t] \in Row /\ Refers(task[t], Len(task))
  BY ThisRow
<1>3. row \in Row /\ Refers(row, Len(task))
  <2>1. task[t].links \cup {} \in SUBSET Link
    BY <1>2 DEF Row
  <2>2. row \in Row
    BY <1>2, <2>1 DEF Submitted, Row, State, Lease
  <2> QED
    BY <1>2, <2>2 DEF Submitted, Row, Refers
<1>4. Calm(row, task[t])
  BY <1>1, <1>2 DEF Submitted, Row, Calm, SameReview, IsAccepted, VerdictIsFinal
<1> QED
  BY <1>1, <1>3, <1>4, CalmStep

-----------------------------------------------------------------------------
(* A verdict: recording it, then what the tally does.                      *)

\* A reviewer still at work has no verdict yet, so no accepted work depends on it.
LEMMA RecordingKeepsGate ==
    ASSUME Inv, NEW t \in Id, NEW agent, NEW verdict \in {"approve", "reject"},
           InProgressBy(t, agent), task[t].kind = "review"
    PROVE  LET U == [task EXCEPT ![t] = Submitted(task[t], "done", verdict, {})] IN
           WellFormed(U) /\ Gate(U) /\ SameRounds(U, task)
<1> DEFINE row == Submitted(task[t], "done", verdict, {})
           U == [task EXCEPT ![t] = row]
<1>1. /\ t \in Rows(task) /\ task[t] \in Row /\ Refers(task[t], Len(task))
      /\ WellFormed(task) /\ Gate(task)
  BY ThisRow DEF Inv
<1>2. task[t].kind = "review" /\ task[t].verdict = "none"
  BY <1>1, ThisRow DEF InProgressBy, VerdictIsFinal
<1>3. row \in Row /\ Refers(row, Len(task))
  <2>1. task[t].links \cup {} \in SUBSET Link
    BY <1>1 DEF Row
  <2>2. row \in Row
    BY <1>1, <2>1 DEF Submitted, Row, State, Lease, Verdict
  <2> QED
    BY <1>1, <2>2 DEF Submitted, Row, Refers
<1>4. /\ row.kind = "review" /\ row.target = task[t].target
      /\ row.round = task[t].round /\ row.state = "done"
      /\ row.reviewers = task[t].reviewers
  BY <1>1, <1>2 DEF Submitted, Row
<1>5. /\ WellFormed(U) /\ Len(U) = Len(task) /\ Rows(U) = Rows(task)
      /\ \A i \in Rows(task) : U[i] = IF i = t THEN row ELSE task[i]
  BY <1>1, <1>3, UpdatedRow DEF Rows
<1> HIDE DEF row, U
<1>6. ASSUME NEW i \in Rows(task)
      PROVE  /\ U[i].kind = task[i].kind /\ U[i].target = task[i].target
             /\ U[i].round = task[i].round
             /\ IsAccepted(U[i]) => IsAccepted(task[i])
             /\ VerdictIsFinal(U[i])
             /\ i # t => U[i].verdict = task[i].verdict
             /\ task[i].target # NoTask => task[i].target \in Rows(task)
  <2>1. CASE i = t
    BY <2>1, <1>1, <1>2, <1>4, <1>5
       DEF IsAccepted, VerdictIsFinal, Refers, Rows, NoTask, Row
  <2>2. CASE i # t
    <3>1. U[i] = task[i] /\ VerdictIsFinal(task[i]) /\ Refers(task[i], Len(task))
      BY <2>2, <1>1, <1>5 DEF Gate, WellFormed
    <3> QED
      BY <2>2, <3>1 DEF Refers, Rows, NoTask
  <2> QED
    BY <2>1, <2>2
<1>7. ASSUME NEW i \in Rows(task) PROVE Aimed(U, i)
  BY <1>1, <1>6 DEF Gate, Aimed
<1>8. ASSUME NEW i \in Rows(task) PROVE HasReviewer(U, i)
  <2>1. HasReviewer(task, i)
    BY <1>1 DEF Gate
  <2>2. ASSUME NEW r \in Rows(task), IsReviewOf(task, r, i) PROVE IsReviewOf(U, r, i)
    BY <2>2, <1>6 DEF IsReviewOf
  <2> QED
    BY <2>1, <2>2, <1>5, <1>6 DEF HasReviewer
<1>9. ASSUME NEW i \in Rows(task) PROVE Unanimous(U, i)
  <2>1. Unanimous(task, i)
    BY <1>1 DEF Gate
  <2>2. ASSUME IsAccepted(U[i]), NEW r \in Rows(task), IsReviewOf(U, r, i)
        PROVE  U[r].verdict = "approve"
    <3>1. IsReviewOf(task, r, i)
      BY <2>2, <1>6 DEF IsReviewOf
    <3>2. task[r].verdict = "approve"
      BY <2>1, <2>2, <3>1, <1>6 DEF Unanimous
    <3> QED
      BY <3>2, <1>2, <1>6
  <2> QED
    BY <2>1, <2>2, <1>5, <1>6 DEF Unanimous
<1>10. Gate(U)
  BY <1>5, <1>6, <1>7, <1>8, <1>9 DEF Gate
<1>11. SameRounds(U, task)
  BY <1>1, <1>4, <1>5, LenProperties DEF SameRounds, WellFormed
<1> QED
  BY <1>5, <1>10, <1>11 DEF U, row

\* Accepting a row puts its state, and a merge row that is harmless, in the table.
LEMMA AcceptKeepsGate ==
    ASSUME NEW T, WellFormed(T), Gate(T), NEW p \in Rows(T),
           T[p].kind = "implement", T[p].round > 0, AllApprove(T, p)
    PROVE  /\ WellFormed(Accept(T, p)) /\ Gate(Accept(T, p))
           /\ SameRounds(Accept(T, p), T)
<1> DEFINE state == IF T[p].agentMerge /\ IsNoOp(T[p]) THEN "done" ELSE "approved"
           row == [T[p] EXCEPT !.state = state]
           V == [T EXCEPT ![p] = row]
           merge == MergeRow(T[p].model, p)
           U == Append(V, merge)
<1>1. Accept(T, p) = V \/ Accept(T, p) = U
  <2>1. V = [T EXCEPT ![p].state = state]
    OBVIOUS
  <2> QED
    BY <2>1 DEF Accept
<1>2. /\ T[p] \in Row /\ Refers(T[p], Len(T)) /\ Len(T) \in Nat /\ T \in Seq(Row)
      /\ \A i \in Rows(T) : T[i] \in Row
  BY LenProperties, ElementOfSeq DEF WellFormed, Rows
<1>3. row \in Row /\ Refers(row, Len(T)) /\ SameReview(row, T[p])
  <2>1. state \in State
    BY DEF State
  <2> HIDE DEF state
  <2> QED
    BY <1>2, <2>1 DEF Row, Refers, SameReview
<1>4. /\ WellFormed(V) /\ Len(V) = Len(T) /\ Rows(V) = Rows(T)
      /\ \A i \in Rows(T) : V[i] = IF i = p THEN row ELSE T[i]
  BY <1>2, <1>3, UpdatedRow DEF Rows
<1>5. merge \in Row /\ Refers(merge, Len(T) + 1) /\ Harmless(merge)
  <2> DEFINE fresh == NewRow("merge", "ready", T[p].model)
  <2>1. fresh \in Row /\ T[p].model \in ModelName
    BY <1>2, FreshRow DEF Kind, State, Row
  <2>2. merge = [fresh EXCEPT !.target = p] /\ p \in 1..Len(T) /\ p \in Nat
    BY DEF MergeRow, Rows
  <2>3. merge \in Row
    <3> HIDE DEF fresh, merge
    <3> QED
      BY <2>1, <2>2, <1>2 DEF Row
  <2>4. Refers(merge, Len(T) + 1)
    BY <2>2, <1>2 DEF MergeRow, NewRow, Refers, NoTask
  <2> QED
    BY <2>3, <2>4 DEF MergeRow, NewRow, Harmless, IsAccepted
<1> HIDE DEF row, V, merge, U, state
<1>6. ASSUME NEW i \in Rows(T)
      PROVE  /\ V[i].kind = T[i].kind /\ V[i].target = T[i].target
             /\ V[i].round = T[i].round
             /\ T[i].kind = "review" => V[i] = T[i]
             /\ T[i].kind = "implement" => V[i].verdict = T[i].verdict
             /\ i # p => V[i] = T[i]
             /\ T[i].target # NoTask => T[i].target \in Rows(T)
  <2>1. T[i].target # NoTask => T[i].target \in Rows(T)
    BY DEF WellFormed, Refers, Rows, NoTask
  <2> QED
    BY <2>1, <1>3, <1>4 DEF SameReview
<1>7. \A i \in Rows(T) : VerdictIsFinal(V[i])
  BY <1>6 DEF Gate, VerdictIsFinal
<1>8. ASSUME NEW i \in Rows(T) PROVE Aimed(V, i)
  BY <1>6 DEF Gate, Aimed
<1>9. ASSUME NEW i \in Rows(T) PROVE HasReviewer(V, i)
  <2>1. HasReviewer(T, i)
    BY DEF Gate
  <2>2. ASSUME NEW r \in Rows(T), IsReviewOf(T, r, i) PROVE IsReviewOf(V, r, i)
    BY <2>2, <1>6 DEF IsReviewOf
  <2> QED
    BY <2>1, <2>2, <1>4, <1>6 DEF HasReviewer
<1>10. ASSUME NEW i \in Rows(T) PROVE Unanimous(V, i)
  <2>1. ASSUME NEW r \in Rows(T), IsReviewOf(V, r, i)
        PROVE  IsReviewOf(T, r, i) /\ V[r] = T[r]
    BY <2>1, <1>6 DEF IsReviewOf
  <2>2. CASE i = p
    <3>1. ASSUME NEW r \in Rows(T), IsReviewOf(T, r, p) PROVE T[r].verdict = "approve"
      <4>1. r \in Tally(T, p)
        BY <3>1 DEF IsReviewOf, Tally, Rows
      <4> QED
        BY <4>1 DEF AllApprove
    <3> QED
      BY <2>1, <2>2, <3>1, <1>4, <1>6 DEF Unanimous
  <2>3. CASE i # p
    <3>1. Unanimous(T, i) /\ V[i] = T[i]
      BY <2>3, <1>6 DEF Gate
    <3> QED
      BY <2>1, <3>1, <1>4 DEF Unanimous
  <2> QED
    BY <2>2, <2>3
<1>11. Gate(V)
  BY <1>4, <1>7, <1>8, <1>9, <1>10 DEF Gate
<1>12. WellFormed(U) /\ Quiet(U, V)
  <2>1. /\ WellFormed(U) /\ Len(U) = Len(V) + 1
        /\ \A i \in Rows(V) : U[i] = V[i]
        /\ U[Len(V) + 1] = merge
    BY <1>4, <1>5, AddedRow DEF U
  <2>2. \A i \in Rows(V) : Calm(U[i], V[i])
    BY <2>1 DEF Calm, SameReview
  <2>3. \A i \in Rows(U) : i \notin Rows(V) => Harmless(U[i])
    BY <2>1, <1>2, <1>4, <1>5 DEF Rows
  <2> QED
    BY <2>1, <2>2, <2>3, <1>2, <1>4 DEF Quiet
<1>13. Gate(U)
  BY <1>4, <1>11, <1>12, QuietKeepsGate
<1>14. SameRounds(V, T)
  BY <1>2, <1>3, <1>4 DEF SameRounds, SameReview
<1>15. SameRounds(U, T)
  BY <1>4, <1>12, <1>14, QuietOpensNoRound, SameRoundsTwice
<1> QED
  BY <1>1, <1>4, <1>11, <1>12, <1>13, <1>14, <1>15

\* A model with a tier above it has an allowlisted one there.
LEMMA NextTierIsAModel ==
    ASSUME NEW model, HasNextTier(model)
    PROVE  NextTier(model) \in ModelName
<1>1. Ladder \in Seq(Models) /\ Len(Ladder) \in Nat
  BY LadderAssumption, LenProperties
<1> DEFINE i == CHOOSE i \in 1..(Len(Ladder) - 1) : Ladder[i] = model
<1>2. i \in 1..(Len(Ladder) - 1)
  BY DEF HasNextTier
<1>3. i + 1 \in 1..Len(Ladder)
  BY <1>1, <1>2
<1>4. Ladder[i + 1] \in Models
  BY <1>1, <1>3, ElementOfSeq
<1> QED
  BY <1>4 DEF NextTier, ModelName

\* Rejecting a row is quiet: it never makes work accepted.
LEMMA RejectIsQuiet ==
    ASSUME NEW T, WellFormed(T), NEW p \in Rows(T), T[p].kind = "implement"
    PROVE  WellFormed(Reject(T, p)) /\ Quiet(Reject(T, p), T)
<1>1. T[p] \in Row /\ Refers(T[p], Len(T))
  BY ElementOfSeq DEF WellFormed, Rows
<1>2. ASSUME NEW state \in {"ready", "blocked"}
      PROVE  LET U == [T EXCEPT ![p].state = state] IN WellFormed(U) /\ Quiet(U, T)
  <2> DEFINE row == [T[p] EXCEPT !.state = state]
  <2>1. row \in Row /\ Refers(row, Len(T))
    BY <1>1 DEF Row, State, Refers
  <2>2. Calm(row, T[p])
    BY <1>1 DEF Row, Calm, SameReview, IsAccepted, VerdictIsFinal
  <2>3. [T EXCEPT ![p].state = state] = [T EXCEPT ![p] = row]
    OBVIOUS
  <2> QED
    BY <2>1, <2>2, <2>3, OneRow
<1>3. CASE Reject(T, p) = Supersession(T, p, NextTier(T[p].model), "ready")
            /\ HasNextTier(T[p].model)
  BY <1>3, NextTierIsAModel, SupersessionIsQuiet
<1> QED
  BY <1>2, <1>3 DEF Reject, Escalates

\* A review row's target is work that was submitted.
LEMMA UnderReview ==
    ASSUME NEW T, WellFormed(T), Gate(T), NEW t \in Rows(T),
           T[t].kind = "review", T[t].target # NoTask
    PROVE  /\ T[t].target \in Rows(T)
           /\ T[T[t].target].kind = "implement" /\ T[T[t].target].round > 0
<1> DEFINE p == T[t].target
<1>1. /\ T[t] \in Row /\ Refers(T[t], Len(T)) /\ Aimed(T, t) /\ Len(T) \in Nat
  BY LenProperties, ElementOfSeq DEF WellFormed, Gate, Rows
<1>2. p \in Rows(T)
  BY <1>1 DEF Refers, Rows, NoTask
<1>3. T[p] \in Row
  BY <1>2, ElementOfSeq DEF WellFormed, Rows
<1>4. T[p].kind = "implement" /\ T[p].round > 0
  <2>1. T[p].kind = "implement" /\ T[t].round >= 1 /\ T[t].round <= T[p].round
    BY <1>1 DEF Aimed
  <2>2. T[t].round \in Nat /\ T[p].round \in Nat
    BY <1>1, <1>3 DEF Row
  <2> HIDE DEF p
  <2> QED
    BY <2>1, <2>2
<1> QED
  BY <1>2, <1>4

\* The tally of the row under review, whichever round the verdict was for.
LEMMA AggregationKeepsGate ==
    ASSUME NEW T, WellFormed(T), Gate(T), NEW t \in Rows(T),
           T[t].kind = "review", T[t].target # NoTask
    PROVE  LET U == Aggregated(T, T[t].target) IN
           WellFormed(U) /\ Gate(U) /\ SameRounds(U, T)
<1> DEFINE p == T[t].target
<1>1. p \in Rows(T) /\ T[p].kind = "implement" /\ T[p].round > 0
  BY UnderReview
<1> HIDE DEF p
<1>2. AllApprove(T, p) => /\ WellFormed(Accept(T, p)) /\ Gate(Accept(T, p))
                         /\ SameRounds(Accept(T, p), T)
  BY <1>1, AcceptKeepsGate
<1>3. /\ WellFormed(Reject(T, p)) /\ Gate(Reject(T, p))
      /\ SameRounds(Reject(T, p), T)
  BY <1>1, RejectIsQuiet, QuietKeepsGate, QuietOpensNoRound
<1>4. SameRounds(T, T)
  BY LenProperties DEF SameRounds, WellFormed
<1>5. /\ WellFormed(Aggregated(T, p)) /\ Gate(Aggregated(T, p))
      /\ SameRounds(Aggregated(T, p), T)
  BY <1>2, <1>3, <1>4 DEF Aggregated
<1> QED
  BY <1>5 DEF p

\* SubmitTask of a review row.
LEMMA ReviewKeeps ==
    ASSUME Inv, NEW t \in Id, NEW agent, NEW verdict, SubmitReview(t, agent, verdict)
    PROVE  Inv' /\ SameRounds(task', task)
<1> DEFINE row == Submitted(task[t], "done", verdict, {})
           U == [task EXCEPT ![t] = row]
<1>1. /\ InProgressBy(t, agent) /\ task[t].kind = "review"
      /\ verdict \in {"approve", "reject"}
      /\ task' = IF task[t].target = NoTask THEN U ELSE Aggregated(U, task[t].target)
  BY DEF SubmitReview
<1>2. /\ t \in Rows(task) /\ task[t] \in Row /\ WellFormed(task)
  BY ThisRow DEF Inv
<1>3. WellFormed(U) /\ Gate(U) /\ SameRounds(U, task)
  BY <1>1, RecordingKeepsGate
<1>4. t \in Rows(U) /\ U[t] = row
  BY <1>2, LenProperties, ExceptSeq DEF Rows, WellFormed
<1>5. row.kind = "review" /\ row.target = task[t].target
  BY <1>1, <1>2 DEF Submitted, Row
<1> HIDE DEF U, row
<1>6. CASE task[t].target = NoTask
  BY <1>1, <1>3, <1>6 DEF Inv
<1>7. CASE task[t].target # NoTask
  <2> DEFINE W == Aggregated(U, task[t].target)
  <2>1. WellFormed(W) /\ Gate(W) /\ SameRounds(W, U)
    BY <1>3, <1>4, <1>5, <1>7, AggregationKeepsGate
  <2> HIDE DEF W
  <2>2. SameRounds(W, task)
    BY <2>1, <1>2, <1>3, SameRoundsTwice
  <2> QED
    BY <2>1, <2>2, <1>1, <1>7 DEF Inv, W
<1> QED
  BY <1>6, <1>7

-----------------------------------------------------------------------------
(* The theorems.                                                           *)

\* Every step of every actor preserves the invariant.
LEMMA NextKeepsInv ==
    ASSUME Inv, [Next]_vars
    PROVE  Inv'
<1>1. CASE UNCHANGED vars
  BY <1>1 DEF vars, Inv, WellFormed, Gate
<1>2. ASSUME NEW batch \in Batches, CreateTasks(batch) PROVE Inv'
  BY <1>2, CreateKeeps
<1>3. ASSUME NEW t \in Id, AgentStep(t) PROVE Inv'
  <2>1. CASE LeaseLapses(t)
    <3>1. task' = [task EXCEPT ![t].lease = "lapsed"] /\ "lapsed" \in Lease
      BY <2>1 DEF LeaseLapses, Lease
    <3> QED
      BY <3>1, LeaseKeeps
  <2>2. ASSUME NEW agent \in Agent, NEW model \in ModelName, ClaimTask(t, agent, model)
        PROVE  Inv'
    BY <2>2, ClaimKeeps
  <2>3. ASSUME NEW agent \in Agent, HeartbeatTask(t, agent) PROVE Inv'
    <3>1. task' = [task EXCEPT ![t].lease = "live"] /\ "live" \in Lease
      BY <2>3 DEF HeartbeatTask, Lease
    <3> QED
      BY <3>1, LeaseKeeps
  <2>4. ASSUME NEW agent \in Agent, NEW links \in Submissions, SubmitWork(t, agent, links)
        PROVE  Inv'
    BY <2>4, WorkKeeps
  <2>5. ASSUME NEW agent \in Agent, NEW verdict \in Verdict, SubmitReview(t, agent, verdict)
        PROVE  Inv'
    BY <2>5, ReviewKeeps
  <2> QED
    BY <1>3, <2>1, <2>2, <2>3, <2>4, <2>5 DEF AgentStep
<1>4. ASSUME NEW t \in Id, NEW agent \in Agent, NEW verdict \in Verdict,
             SubmitMerge(t, agent, verdict)
      PROVE  Inv'
  BY <1>4, MergeKeeps
<1>5. ASSUME NEW t \in Id, NEW to \in State, TransitionTask(t, to) PROVE Inv'
  BY <1>5, TransitionKeeps
<1>6. ASSUME NEW t \in Id, NEW model \in Models, SupersedeTask(t, model) PROVE Inv'
  BY <1>6, SupersedeKeeps
<1> QED
  BY <1>1, <1>2, <1>3, <1>4, <1>5, <1>6, PromoteKeeps, HoldKeeps DEF Next

\* An empty table is well formed.
LEMMA EmptyTable == ASSUME Init PROVE Inv
<1>1. task = <<>> /\ task \in Seq(Row) /\ Len(task) = 0
  BY EmptySeq DEF Init
<1> QED
  BY <1>1 DEF Inv, WellFormed, Gate, Rows

\* The invariant: from an empty table, whatever planners, agents, operators,
\* mergers and PR-watch do, the table stays well formed and the gate stays shut.
THEOREM Invariance == Spec => []Inv
<1>1. Init => Inv
  BY EmptyTable
<1>2. Inv /\ [Next]_vars => Inv'
  BY NextKeepsInv
<1> QED
  BY <1>1, <1>2, PTL DEF Spec

\* Type correctness and referential integrity: every column stays in its domain,
\* and the row under review, the replacement and the dependencies that a row names
\* exist, for every ladder, threshold, batch and number of agents.
THEOREM TypeCorrect == Spec => []TypeOK
<1>1. Inv => TypeOK
  <2> SUFFICES ASSUME Inv PROVE TypeOK
    OBVIOUS
  <2>1. /\ task \in Seq(Row) /\ Len(task) \in Nat
        /\ \A t \in Id : Refers(task[t], Len(task))
    BY LenProperties DEF Inv, WellFormed, Id, Rows
  <2>2. ASSUME NEW t \in Id
        PROVE  /\ task[t].target \in Id \cup {NoTask}
               /\ task[t].supersededBy \in Id \cup {NoTask}
               /\ task[t].deps \subseteq Id
    BY <2>1 DEF Refers, Id, NoTask
  <2> QED
    BY <2>1, <2>2 DEF TypeOK
<1> QED
  BY <1>1, Invariance, PTL

\* The review gate: however submissions, verdicts, reclaims, holds, unblocks, bounces
\* and supersessions interleave, work that is approved or done was approved by every
\* reviewer of its latest round, and had one.
THEOREM ReviewGate == Spec => []ApprovedIsUnanimous
<1>1. Inv => ApprovedIsUnanimous
  <2> SUFFICES ASSUME Inv, NEW p \in Id,
                      task[p].kind = "implement", task[p].state \in {"approved", "done"}
               PROVE  /\ RoundOf(p, task[p].round) # {}
                      /\ \A r \in RoundOf(p, task[p].round) : task[r].verdict = "approve"
    BY DEF ApprovedIsUnanimous
  <2>1. p \in Rows(task) /\ HasReviewer(task, p) /\ Unanimous(task, p)
    BY DEF Inv, Gate, Id, Rows
  <2>2. /\ \E r \in Rows(task) : IsReviewOf(task, r, p)
        /\ \A r \in Rows(task) : IsReviewOf(task, r, p) => task[r].verdict = "approve"
    BY <2>1 DEF HasReviewer, Unanimous, IsAccepted
  <2>3. RoundOf(p, task[p].round) = {r \in Rows(task) : IsReviewOf(task, r, p)}
    BY DEF RoundOf, IsReviewOf, Id, Rows
  <2> QED
    BY <2>2, <2>3
<1> QED
  BY <1>1, Invariance, PTL

-----------------------------------------------------------------------------
(* Rounds.                                                                 *)

\* A step opens a round of one row, or none.
LEMMA RoundStep ==
    ASSUME Inv, [Next]_vars
    PROVE  SameRounds(task', task) \/ \E t \in Id : OpensRound(task', task, t)
<1> DEFINE Fine == SameRounds(task', task) \/ \E t \in Id : OpensRound(task', task, t)
<1>0. Quiet(task', task) => Fine
  BY QuietOpensNoRound
<1>1. CASE UNCHANGED vars
  <2>1. Len(task) \in Nat
    BY LenProperties DEF Inv, WellFormed
  <2>2. SameRounds(task, task)
    BY <2>1 DEF SameRounds
  <2> QED
    BY <2>2, <1>1 DEF vars
<1>2. ASSUME NEW batch \in Batches, CreateTasks(batch) PROVE Fine
  BY <1>0, <1>2, CreateKeeps
<1>3. ASSUME NEW t \in Id, AgentStep(t) PROVE Fine
  <2>1. CASE LeaseLapses(t)
    <3>1. task' = [task EXCEPT ![t].lease = "lapsed"] /\ "lapsed" \in Lease
      BY <2>1 DEF LeaseLapses, Lease
    <3> QED
      BY <1>0, <3>1, LeaseKeeps
  <2>2. ASSUME NEW agent \in Agent, NEW model \in ModelName, ClaimTask(t, agent, model)
        PROVE  Fine
    BY <1>0, <2>2, ClaimKeeps
  <2>3. ASSUME NEW agent \in Agent, HeartbeatTask(t, agent) PROVE Fine
    <3>1. task' = [task EXCEPT ![t].lease = "live"] /\ "live" \in Lease
      BY <2>3 DEF HeartbeatTask, Lease
    <3> QED
      BY <1>0, <3>1, LeaseKeeps
  <2>4. ASSUME NEW agent \in Agent, NEW links \in Submissions, SubmitWork(t, agent, links)
        PROVE  Fine
    BY <2>4, WorkKeeps
  <2>5. ASSUME NEW agent \in Agent, NEW verdict \in Verdict, SubmitReview(t, agent, verdict)
        PROVE  Fine
    BY <2>5, ReviewKeeps
  <2> QED
    BY <1>3, <2>1, <2>2, <2>3, <2>4, <2>5 DEF AgentStep
<1>4. ASSUME NEW t \in Id, NEW agent \in Agent, NEW verdict \in Verdict,
             SubmitMerge(t, agent, verdict)
      PROVE  Fine
  BY <1>0, <1>4, MergeKeeps
<1>5. ASSUME NEW t \in Id, NEW to \in State, TransitionTask(t, to) PROVE Fine
  BY <1>0, <1>5, TransitionKeeps
<1>6. ASSUME NEW t \in Id, NEW model \in Models, SupersedeTask(t, model) PROVE Fine
  BY <1>0, <1>6, SupersedeKeeps
<1>7. ASSUME NEW t \in Id, PromoteTask(t) \/ HoldTask(t) \/ ReleaseTask(t) PROVE Fine
  BY <1>0, <1>7, PromoteKeeps, HoldKeeps
<1> QED
  BY <1>1, <1>2, <1>3, <1>4, <1>5, <1>6, <1>7 DEF Next

\* Rows are only ever added, and keep their kind and target.
LEMMA RowsStay ==
    ASSUME Inv, [Next]_vars
    PROVE  /\ Inv'
           /\ Len(task) \in Nat /\ Len(task') \in Nat /\ Len(task) <= Len(task')
           /\ \A i \in Id : task'[i].kind = task[i].kind /\ task'[i].target = task[i].target
<1>1. Inv'
  BY NextKeepsInv
<1>2. Len(task) \in Nat /\ Len(task') \in Nat
  BY <1>1, LenProperties DEF Inv, WellFormed
<1>3. CASE SameRounds(task', task)
  BY <1>1, <1>2, <1>3 DEF SameRounds, Id, Rows
<1>4. ASSUME NEW t \in Id, OpensRound(task', task, t)
      PROVE  /\ Len(task) <= Len(task')
             /\ \A i \in Id : task'[i].kind = task[i].kind /\ task'[i].target = task[i].target
  <2>1. Len(ReviewersOf(task[t])) \in Nat
    BY ThisRow, SomeReviewer
  <2> QED
    BY <2>1, <1>2, <1>4 DEF OpensRound, Id, Rows
<1> QED
  BY <1>1, <1>2, <1>3, <1>4, RoundStep

\* The review rows of the n-th round of p in table T.
Reviews(T, p, n) ==
    {i \in Rows(T) : T[i].kind = "review" /\ T[i].target = p /\ T[i].round = n}

\* RoundOf has one row per reviewer, or none.
Complete(T, p, n) ==
    Reviews(T, p, n) = {} \/ Cardinality(Reviews(T, p, n)) = Len(ReviewersOf(T[p]))

Separate(T) == \A p \in Rows(T), n \in Nat \ {0} : Complete(T, p, n)

\* In a gated table a review is of a row that is there, and of a round it had.
LEMMA ReviewsAimed ==
    ASSUME NEW T, WellFormed(T), Gate(T), NEW p, NEW n \in Nat, Reviews(T, p, n) # {},
           p # NoTask
    PROVE  p \in Rows(T) /\ T[p].round \in Nat /\ n <= T[p].round
<1>1. PICK i \in Rows(T) : T[i].kind = "review" /\ T[i].target = p /\ T[i].round = n
  BY DEF Reviews
<1>2. Aimed(T, i) /\ Refers(T[i], Len(T)) /\ Len(T) \in Nat
  BY LenProperties DEF Gate, WellFormed
<1>3. p \in Rows(T)
  BY <1>1, <1>2 DEF Refers, Rows, NoTask
<1>4. T[p] \in Row
  BY <1>3, ElementOfSeq DEF WellFormed, Rows
<1>5. n <= T[p].round
  BY <1>1, <1>2 DEF Aimed
<1> QED
  BY <1>3, <1>4, <1>5 DEF Row

\* A step that opens no round.
LEMMA SameRoundsSeparate ==
    ASSUME NEW T, NEW U, WellFormed(T), WellFormed(U), Gate(T), SameRounds(U, T), Separate(T)
    PROVE  Separate(U)
<1> SUFFICES ASSUME NEW p \in Rows(U), NEW n \in Nat \ {0}
             PROVE  Complete(U, p, n)
  BY DEF Separate
<1>1. Len(T) \in Nat /\ Len(U) \in Nat /\ Len(T) <= Len(U) /\ p # NoTask
  BY LenProperties DEF WellFormed, SameRounds, Rows, NoTask
<1>2. Reviews(U, p, n) = Reviews(T, p, n)
  <2>1. Rows(T) \subseteq Rows(U)
    BY <1>1 DEF Rows
  <2>2. ASSUME NEW i \in Reviews(U, p, n) PROVE i \in Reviews(T, p, n)
    <3>1. i \in Rows(T)
      BY <2>2, <1>1 DEF Reviews, SameRounds
    <3> QED
      BY <2>2, <3>1 DEF Reviews, SameRounds
  <2>3. ASSUME NEW i \in Reviews(T, p, n) PROVE i \in Reviews(U, p, n)
    BY <2>1, <2>3 DEF Reviews, SameRounds
  <2> QED
    BY <2>2, <2>3
<1>3. CASE Reviews(T, p, n) = {}
  BY <1>2, <1>3 DEF Complete
<1>4. CASE Reviews(T, p, n) # {}
  <2>1. p \in Rows(T)
    BY <1>1, <1>4, ReviewsAimed
  <2>2. Complete(T, p, n)
    BY <2>1 DEF Separate
  <2>3. ReviewersOf(U[p]) = ReviewersOf(T[p])
    BY <2>1 DEF SameRounds, ReviewersOf
  <2> QED
    BY <1>2, <2>2, <2>3 DEF Complete
<1> QED
  BY <1>3, <1>4

\* A submission: the rows that are added are the new round, whole.
LEMMA NewRoundSeparate ==
    ASSUME NEW T, NEW U, WellFormed(T), WellFormed(U), Gate(T), NEW t, OpensRound(U, T, t),
           Separate(T)
    PROVE  Separate(U)
<1> SUFFICES ASSUME NEW p \in Rows(U), NEW n \in Nat \ {0}
             PROVE  Complete(U, p, n)
  BY DEF Separate
<1> DEFINE k == Len(ReviewersOf(T[t]))
<1>1. t \in Rows(T) /\ T[t] \in Row /\ k \in Nat /\ k >= 1 /\ T[t].round \in Nat
  <2>1. t \in Rows(T) /\ T[t] \in Row
    BY ElementOfSeq DEF OpensRound, WellFormed, Rows
  <2> QED
    BY <2>1, SomeReviewer DEF Row
<1>2. /\ Len(T) \in Nat /\ Len(U) \in Nat /\ Len(U) = Len(T) + k /\ p # NoTask
  BY LenProperties DEF WellFormed, OpensRound, Rows, NoTask
<1>3. Rows(T) \subseteq Rows(U)
  BY <1>1, <1>2 DEF Rows
<1>4. ASSUME NEW i \in Rows(T)
      PROVE  i \in Reviews(U, p, n) <=> i \in Reviews(T, p, n)
  <2>1. U[i].kind = "review" => U[i].round = T[i].round
    BY <1>4 DEF OpensRound
  <2> QED
    BY <2>1, <1>3, <1>4 DEF Reviews, OpensRound
<1>5. ASSUME NEW i \in Rows(U), i \notin Rows(T)
      PROVE  i \in Reviews(U, p, n) <=> p = t /\ n = T[t].round + 1
  BY <1>5 DEF Reviews, OpensRound
<1>6. CASE p = t /\ n = T[t].round + 1
  <2>1. Reviews(T, p, n) = {}
    <3>1. ~(n <= T[t].round)
      BY <1>1, <1>6
    <3> QED
      BY <3>1, <1>2, <1>6, ReviewsAimed
  <2>2. Reviews(U, p, n) = (Len(T) + 1)..Len(U)
    <3>1. \A i \in Rows(U) : i \notin Rows(T) <=> i \in (Len(T) + 1)..Len(U)
      BY <1>2 DEF Rows
    <3>2. \A i \in (Len(T) + 1)..Len(U) : i \in Rows(U)
      BY <1>2 DEF Rows
    <3>3. Reviews(U, p, n) \subseteq Rows(U)
      BY DEF Reviews
    <3> QED
      BY <2>1, <3>1, <3>2, <3>3, <1>4, <1>5, <1>6
  <2>3. Cardinality((Len(T) + 1)..Len(U)) = k
    <3>1. /\ Len(T) + 1 \in Int /\ Len(U) \in Int /\ ~(Len(T) + 1 > Len(U))
          /\ Len(U) - (Len(T) + 1) + 1 = k
      BY <1>1, <1>2
    <3> QED
      BY <3>1, FS_Interval
  <2>4. ReviewersOf(U[t]) = ReviewersOf(T[t])
    BY <1>1 DEF OpensRound, ReviewersOf
  <2> QED
    BY <2>2, <2>3, <2>4, <1>6 DEF Complete
<1>7. CASE ~(p = t /\ n = T[t].round + 1)
  <2>1. Reviews(U, p, n) = Reviews(T, p, n)
    BY <1>4, <1>5, <1>7 DEF Reviews
  <2>2. CASE Reviews(T, p, n) = {}
    BY <2>1, <2>2 DEF Complete
  <2>3. CASE Reviews(T, p, n) # {}
    <3>1. p \in Rows(T)
      BY <1>2, <2>3, ReviewsAimed
    <3>2. Complete(T, p, n)
      BY <3>1 DEF Separate
    <3>3. ReviewersOf(U[p]) = ReviewersOf(T[p])
      BY <3>1 DEF OpensRound, ReviewersOf
    <3> QED
      BY <2>1, <3>2, <3>3 DEF Complete
  <2> QED
    BY <2>2, <2>3
<1> QED
  BY <1>6, <1>7

\* Rounds are separate: whatever is blocked, unblocked, bounced, held and resubmitted in
\* between, a round number of a row stands for one submission, and has one review row
\* for each of the row's reviewers.
THEOREM RoundsStaySeparate == Spec => []RoundsAreSeparate
<1>1. Init => Separate(task)
  <2> SUFFICES ASSUME Init PROVE Separate(task)
    OBVIOUS
  <2>1. task = <<>> /\ Len(task) = 0
    BY EmptySeq DEF Init
  <2> QED
    BY <2>1 DEF Separate, Rows
<1>2. Inv /\ Inv' /\ Separate(task) /\ [Next]_vars => Separate(task)'
  BY RoundStep, SameRoundsSeparate, NewRoundSeparate DEF Inv
<1>3. Inv /\ Separate(task) => RoundsAreSeparate
  <2> SUFFICES ASSUME Inv, Separate(task), NEW p \in Id, NEW n \in 1..Len(task),
                      RoundOf(p, n) # {}
               PROVE  /\ n <= task[p].round
                      /\ Cardinality(RoundOf(p, n)) = Len(ReviewersOf(task[p]))
    BY DEF RoundsAreSeparate
  <2>1. Len(task) \in Nat /\ p \in Rows(task) /\ p # NoTask /\ n \in Nat \ {0}
    BY LenProperties DEF Inv, WellFormed, Id, Rows, NoTask
  <2>2. RoundOf(p, n) = Reviews(task, p, n)
    BY DEF RoundOf, Reviews, Id, Rows
  <2>3. n <= task[p].round
    BY <2>1, <2>2, ReviewsAimed DEF Inv
  <2>4. Complete(task, p, n)
    BY <2>1 DEF Separate
  <2> QED
    BY <2>2, <2>3, <2>4 DEF Complete
<1> QED
  BY <1>1, <1>2, <1>3, Invariance, PTL DEF Spec

-----------------------------------------------------------------------------
(* Holds and off-ramps: a step records no verdict, and hands no held row   *)
(* out, or it records one, and moves nothing that is held or off the road. *)

Silent ==
    \A i \in Id :
        /\ task'[i].verdict = task[i].verdict
        /\ task[i].held => task'[i].assignee \in {task[i].assignee, NoAgent}

OffRamp == {"blocked", "failed", "abandoned"}

Spoken ==
    \A i \in Id :
        /\ task'[i].assignee = task[i].assignee
        /\ \/ task[i].held /\ task[i].kind = "implement"
           \/ task[i].state \in OffRamp
           => task'[i].state = task[i].state

\* One row is replaced, without a verdict.
LEMMA OneRowIsSilent ==
    ASSUME Inv, NEW t \in Id, NEW row, task' = [task EXCEPT ![t] = row],
           row.verdict = task[t].verdict,
           task[t].held => row.assignee \in {task[t].assignee, NoAgent}
    PROVE  Silent
<1>1. \A i \in Id : task'[i] = IF i = t THEN row ELSE task[i]
  BY LenProperties DEF Inv, WellFormed, Id
<1> QED
  BY <1>1 DEF Silent

\* Every step of an agent that submits nothing, and every step of others.
LEMMA SilentSteps ==
    ASSUME Inv, NEW t \in Id,
           \/ PromoteTask(t) \/ LeaseLapses(t) \/ HoldTask(t) \/ ReleaseTask(t)
           \/ \E agent \in Agent :
                HeartbeatTask(t, agent) \/ \E model : ClaimTask(t, agent, model)
           \/ \E to \in State : TransitionTask(t, to)
    PROVE  Silent
<1>1. task[t] \in Row
  BY ThisRow
<1>2. ASSUME NEW x PROVE
        /\ [task[t] EXCEPT !.state = x].verdict = task[t].verdict
        /\ [task[t] EXCEPT !.state = x].assignee = task[t].assignee
        /\ [task[t] EXCEPT !.lease = x].verdict = task[t].verdict
        /\ [task[t] EXCEPT !.lease = x].assignee = task[t].assignee
        /\ [task[t] EXCEPT !.held = x].verdict = task[t].verdict
        /\ [task[t] EXCEPT !.held = x].assignee = task[t].assignee
  BY <1>1 DEF Row
<1>3. CASE PromoteTask(t)
  <2>1. task' = [task EXCEPT ![t] = [task[t] EXCEPT !.state = "ready"]]
    BY <1>3 DEF PromoteTask
  <2> QED
    BY <2>1, <1>2, OneRowIsSilent
<1>4. ASSUME NEW lease, task' = [task EXCEPT ![t].lease = lease] PROVE Silent
  <2>1. task' = [task EXCEPT ![t] = [task[t] EXCEPT !.lease = lease]]
    BY <1>4
  <2> QED
    BY <2>1, <1>2, OneRowIsSilent
<1>5. ASSUME NEW held, task' = [task EXCEPT ![t].held = held] PROVE Silent
  <2>1. task' = [task EXCEPT ![t] = [task[t] EXCEPT !.held = held]]
    BY <1>5
  <2> QED
    BY <2>1, <1>2, OneRowIsSilent
<1>6. ASSUME NEW agent, NEW model, ClaimTask(t, agent, model) PROVE Silent
  <2> DEFINE row == [task[t] EXCEPT
                        !.state = "in_progress", !.assignee = agent, !.lease = "live"]
  <2>1. task' = [task EXCEPT ![t] = row] /\ ~task[t].held
    BY <1>6 DEF ClaimTask, Claimable
  <2>2. row.verdict = task[t].verdict
    BY <1>1 DEF Row
  <2> HIDE DEF row
  <2> QED
    BY <2>1, <2>2, OneRowIsSilent
<1>7. ASSUME NEW to, TransitionTask(t, to) PROVE Silent
  <2>1. task' = [task EXCEPT ![t] = Moved(task[t], to)]
    BY <1>7 DEF TransitionTask
  <2>2. /\ Moved(task[t], to).verdict = task[t].verdict
        /\ Moved(task[t], to).assignee \in {task[t].assignee, NoAgent}
    BY <1>1 DEF Moved, Row
  <2> QED
    BY <2>1, <2>2, OneRowIsSilent
<1> QED
  BY <1>3, <1>4, <1>5, <1>6, <1>7 DEF LeaseLapses, HoldTask, ReleaseTask, HeartbeatTask

\* Planning adds rows.
LEMMA CreationIsSilent ==
    ASSUME Inv, NEW batch \in Batches, CreateTasks(batch)
    PROVE  Silent
<1> DEFINE S == [i \in 1..Len(batch) |-> PlannedRow(batch, batch[i])]
<1>1. task' = task \o S /\ Len(batch) \in Nat
  BY BatchAssumption, LenProperties DEF CreateTasks
<1>2. task \in Seq(Row) /\ S \in Seq({PlannedRow(batch, batch[i]) : i \in 1..Len(batch)})
  <2>1. S \in [1..Len(batch) -> {PlannedRow(batch, batch[i]) : i \in 1..Len(batch)}]
    OBVIOUS
  <2> QED
    BY <2>1, <1>1, Tabulated DEF Inv, WellFormed
<1> HIDE DEF S
<1>3. \A i \in Id : task'[i] = task[i]
  <2>1. DOMAIN (task \o S) = 1..Len(task \o S)
    BY <1>2
  <2>2. Len(task) \in Nat /\ Len(S) \in Nat
    BY <1>2, LenProperties
  <2> QED
    BY <1>1, <1>2, <2>2 DEF Id
<1> QED
  BY <1>3 DEF Silent

\* Supersession retires a row and repoints others.
LEMMA SupersessionIsSilent ==
    ASSUME Inv, NEW t \in Id, NEW model \in Models, SupersedeTask(t, model)
    PROVE  Silent
<1>1. task' = Supersession(task, t, model, "backlog") /\ model \in ModelName
  BY DEF SupersedeTask, ModelName
<1>2. WellFormed(task) /\ t \in Rows(task) /\ "backlog" \in State
  BY DEF Inv, Id, Rows, State
<1>3. \A i \in Rows(task) : SameLock(task'[i], task[i])
  BY <1>1, <1>2, SupersessionShape
<1> QED
  BY <1>3 DEF Silent, SameLock, Id, Rows

\* A submission of work gives the row no verdict, for it had none.
LEMMA SubmissionIsSilent ==
    ASSUME Inv, NEW t \in Id, NEW agent, NEW links \in Submissions,
           SubmitWork(t, agent, links)
    PROVE  Silent
<1> DEFINE row == Reworked(task[t], links, task[t].round + 1)
           V == [task EXCEPT ![t] = row]
           reviewers == ReviewersOf(task[t])
           S == [i \in 1..Len(reviewers) |-> ReviewRow(reviewers[i], task[t].round + 1, t)]
<1>1. task' = V \o S /\ task[t].kind = "implement"
  BY DEF SubmitWork
<1>2. task[t] \in Row /\ Aimed(task, t) /\ task \in Seq(Row)
  BY ThisRow DEF Inv, WellFormed
<1>3. row.verdict = task[t].verdict /\ row.assignee = task[t].assignee
  BY <1>1, <1>2 DEF Aimed, Reworked, Submitted, Row
<1>4. Len(reviewers) \in Nat
  BY <1>2, SomeReviewer
<1>5. S \in Seq({S[i] : i \in 1..Len(reviewers)})
  BY <1>4, Tabulated
<1> HIDE DEF S, row, reviewers
<1>6. V \in Seq(Row \cup {row}) /\ Len(V) = Len(task)
  <2>1. task \in Seq(Row \cup {row}) /\ t \in 1..Len(task)
    BY <1>2, SeqDef DEF Id
  <2> QED
    BY <2>1, ExceptSeq
<1>7. \A i \in Id : V[i] = IF i = t THEN row ELSE task[i]
  BY <1>2, LenProperties DEF Id
<1> HIDE DEF V
<1>8. \A i \in Id : task'[i] = V[i]
  BY <1>1, <1>5, <1>6, ConcatProperties DEF Id
<1> QED
  BY <1>3, <1>7, <1>8 DEF Silent

\* The aggregator moves no row but p.
OnlyMoves(U, T, p) ==
    \A i \in Rows(T) : SameLock(U[i], T[i]) /\ (i # p => SameState(U[i], T[i]))

\* A row that changes its state and nothing else.
LEMMA MovedRow ==
    ASSUME NEW T, WellFormed(T), NEW p \in Rows(T), NEW state
    PROVE  OnlyMoves([T EXCEPT ![p].state = state], T, p)
<1> DEFINE row == [T[p] EXCEPT !.state = state]
           U == [T EXCEPT ![p] = row]
<1>1. SameLock(row, T[p])
  BY ElementOfSeq DEF WellFormed, Rows, Row, SameLock
<1> HIDE DEF row
<1>2. \A i \in Rows(T) : U[i] = IF i = p THEN row ELSE T[i]
  BY LenProperties DEF WellFormed, Rows
<1> HIDE DEF U
<1>3. OnlyMoves(U, T, p)
  BY <1>1, <1>2 DEF OnlyMoves, SameLock, SameState
<1>4. U = [T EXCEPT ![p].state = state]
  BY DEF U, row
<1> QED
  BY <1>3, <1>4

\* A rejection moves the row under review only, or replaces it.
LEMMA RejectMoves ==
    ASSUME NEW T, WellFormed(T), NEW p \in Rows(T)
    PROVE  OnlyMoves(Reject(T, p), T, p)
<1>1. HasNextTier(T[p].model) =>
        OnlyMoves(Supersession(T, p, NextTier(T[p].model), "ready"), T, p)
  <2>1. "ready" \in State
    BY DEF State
  <2> QED
    BY <2>1, NextTierIsAModel, SupersessionShape DEF OnlyMoves
<1> QED
  BY <1>1, MovedRow DEF Reject, Escalates

\* An acceptance moves the row under review only, and may add a merge row.
LEMMA AcceptMoves ==
    ASSUME NEW T, WellFormed(T), NEW p \in Rows(T)
    PROVE  OnlyMoves(Accept(T, p), T, p)
<1> DEFINE state == IF T[p].agentMerge /\ IsNoOp(T[p]) THEN "done" ELSE "approved"
           V == [T EXCEPT ![p].state = state]
           row == MergeRow(T[p].model, p)
<1>1. Accept(T, p) = V \/ Accept(T, p) = Append(V, row)
  BY DEF Accept
<1>2. OnlyMoves(V, T, p)
  BY MovedRow
<1>3. V \in Seq(Row) /\ Len(V) = Len(T)
  <2>1. [T[p] EXCEPT !.state = state] \in Row
    <3>1. T[p] \in Row /\ state \in State
      BY ElementOfSeq DEF WellFormed, Rows, State
    <3> HIDE DEF state
    <3> QED
      BY <3>1 DEF Row
  <2>2. V = [T EXCEPT ![p] = [T[p] EXCEPT !.state = state]]
    OBVIOUS
  <2> QED
    BY <2>1, <2>2, ExceptSeq DEF WellFormed, Rows
<1> HIDE DEF V, row
<1>4. \A i \in Rows(T) : Append(V, row)[i] = V[i]
  BY <1>3, LenProperties DEF Rows
<1> QED
  BY <1>1, <1>2, <1>4 DEF OnlyMoves

\* A verdict moves the reviewer's own row, and at most the row it is about, which is
\* left alone on a hold and on the off-ramps.
LEMMA VerdictIsSpoken ==
    ASSUME Inv, NEW t \in Id, NEW agent, NEW verdict, SubmitReview(t, agent, verdict)
    PROVE  Spoken
<1> DEFINE row == Submitted(task[t], "done", verdict, {})
           U == [task EXCEPT ![t] = row]
           p == task[t].target
<1>1. /\ task[t].kind = "review" /\ task[t].state = "in_progress"
      /\ verdict \in {"approve", "reject"} /\ InProgressBy(t, agent)
      /\ task' = IF p = NoTask THEN U ELSE Aggregated(U, p)
  BY DEF SubmitReview, InProgressBy
<1>2. task[t] \in Row /\ Refers(task[t], Len(task)) /\ Len(task) \in Nat
  BY ThisRow
<1>3. WellFormed(U)
  BY <1>1, RecordingKeepsGate
<1>4. /\ Len(U) = Len(task)
      /\ \A i \in Id : U[i] = IF i = t THEN row ELSE task[i]
  BY <1>2, ExceptSeq, LenProperties DEF Inv, WellFormed, Id
<1>5. row.assignee = task[t].assignee
  BY <1>2 DEF Submitted, Row
<1>6. p # NoTask => p \in Rows(U)
  BY <1>2, <1>4 DEF Refers, Rows, NoTask
<1> HIDE DEF U, row
<1>7. ASSUME NEW i \in Id
      PROVE  /\ U[i].assignee = task[i].assignee
             /\ i # t => U[i] = task[i]
             /\ i \in Rows(U)
  BY <1>4, <1>5 DEF Id, Rows
<1>8. \A i \in Id : task[i].kind = "implement" \/ task[i].state \in OffRamp => i # t
  BY <1>1 DEF OffRamp
<1>9. CASE p = NoTask
  BY <1>1, <1>7, <1>8, <1>9 DEF Spoken
<1>10. CASE p # NoTask
  <2>1. OnlyMoves(U, U, p)
    BY DEF OnlyMoves, SameLock, SameState
  <2>2. OnlyMoves(Aggregated(U, p), U, p)
    BY <2>1, <1>3, <1>6, <1>10, AcceptMoves, RejectMoves DEF Aggregated
  <2>3. U[p].held \/ U[p].state \in OffRamp => Aggregated(U, p) = U
    BY DEF Aggregated, IsTerminal, OffRamp
  <2> HIDE DEF p
  <2>4. task' = Aggregated(U, p)
    BY <1>1, <1>10
  <2>5. ASSUME NEW i \in Id PROVE task'[i].assignee = task[i].assignee
    BY <2>2, <2>4, <1>7 DEF OnlyMoves, SameLock
  <2>6. ASSUME NEW i \in Id,
               \/ task[i].held /\ task[i].kind = "implement"
               \/ task[i].state \in OffRamp
        PROVE  task'[i].state = task[i].state
    <3>1. U[i] = task[i]
      BY <2>6, <1>7, <1>8
    <3>2. CASE i = p
      BY <3>1, <3>2, <2>3, <2>4, <2>6
    <3>3. CASE i # p
      BY <3>1, <3>3, <2>2, <2>4, <1>7 DEF OnlyMoves, SameState
    <3> QED
      BY <3>2, <3>3
  <2> QED
    BY <2>5, <2>6 DEF Spoken
<1> QED
  BY <1>9, <1>10

\* A merge row that is submitted moves itself.
LEMMA MergeIsSpoken ==
    ASSUME Inv, NEW t \in Id, NEW agent, NEW verdict, SubmitMerge(t, agent, verdict)
    PROVE  Spoken
<1> DEFINE row == Submitted(task[t], "review", verdict, {})
<1>1. /\ task[t].kind = "merge" /\ task[t].state = "in_progress"
      /\ task' = [task EXCEPT ![t] = row]
  BY DEF SubmitMerge, InProgressBy
<1>2. task[t] \in Row
  BY ThisRow
<1>3. row.assignee = task[t].assignee
  BY <1>2 DEF Submitted, Row
<1> HIDE DEF row
<1>4. \A i \in Id : task'[i] = IF i = t THEN row ELSE task[i]
  BY <1>1, LenProperties DEF Inv, WellFormed, Id
<1> QED
  BY <1>1, <1>3, <1>4 DEF Spoken, OffRamp

\* Each step is of one of the two kinds.
LEMMA SilentOrSpoken ==
    ASSUME Inv, Next
    PROVE  Silent \/ Spoken
<1>1. ASSUME NEW t \in Id, AgentStep(t) PROVE Silent \/ Spoken
  BY <1>1, SilentSteps, SubmissionIsSilent, VerdictIsSpoken DEF AgentStep
<1>2. ASSUME NEW t \in Id, NEW agent \in Agent, NEW verdict \in Verdict,
             SubmitMerge(t, agent, verdict)
      PROVE  Silent \/ Spoken
  BY <1>2, MergeIsSpoken
<1>3. ASSUME NEW t \in Id,
             \/ PromoteTask(t) \/ HoldTask(t) \/ ReleaseTask(t)
             \/ \E to \in State : TransitionTask(t, to)
      PROVE  Silent \/ Spoken
  BY <1>3, SilentSteps
<1> QED
  BY <1>1, <1>2, <1>3, CreationIsSilent, SupersessionIsSilent DEF Next

\* A hold is a lock: whoever acts and in whatever order, a held row is handed to nobody,
\* and no verdict, however late, moves the work of one.
THEOREM HoldsFreeze == Spec => HoldFreezes
<1> DEFINE A == \A p \in Id :
        task[p].held =>
            /\ task'[p].assignee # task[p].assignee => task'[p].assignee = NoAgent
            /\ VerdictRecorded /\ task[p].kind = "implement" =>
                    task'[p].state = task[p].state
<1>1. Inv /\ [Next]_vars => [A]_vars
  <2> SUFFICES ASSUME Inv, Next PROVE A
    OBVIOUS
  <2>1. CASE Silent
    BY <2>1 DEF Silent, VerdictRecorded
  <2>2. CASE Spoken
    BY <2>2 DEF Spoken
  <2> QED
    BY <2>1, <2>2, SilentOrSpoken
<1> QED
  BY <1>1, Invariance, PTL DEF Spec, HoldFreezes

\* Work that a person blocked, failed or abandoned stays there whatever verdicts come in.
THEOREM OffRampsHold == Spec => OffRampsSurviveVerdicts
<1> DEFINE A == \A p \in Id :
        VerdictRecorded /\ task[p].state \in {"blocked", "failed", "abandoned"} =>
            task'[p].state = task[p].state
<1>1. Inv /\ [Next]_vars => [A]_vars
  <2> SUFFICES ASSUME Inv, Next PROVE A
    OBVIOUS
  <2>1. CASE Silent
    BY <2>1 DEF Silent, VerdictRecorded
  <2>2. CASE Spoken
    BY <2>2 DEF Spoken, OffRamp
  <2> QED
    BY <2>1, <2>2, SilentOrSpoken
<1> QED
  BY <1>1, Invariance, PTL DEF Spec, OffRampsSurviveVerdicts
=============================================================================

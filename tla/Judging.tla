------------------------------- MODULE Judging -------------------------------
(***************************************************************************)
(* The task board implements Panel: its implement rows are the work, and   *)
(* the review rows of a row's current round are the panel.                 *)
(***************************************************************************)
EXTENDS TaskBoard

CONSTANTS
    Item,   \* row ids
    Juror   \* row ids, at least those the table grows to

IsItem(table, t) == t \in 1..Len(table) /\ table[t].kind = "implement"

\* A row that is blocked is a worker's again, once a person says so.
Standing(table, t) ==
    IF ~IsItem(table, t) THEN "open"
    ELSE CASE table[t].state = "review" -> "judged"
           [] table[t].state = "approved" -> "accepted"
           [] table[t].state = "done" -> "done"
           [] table[t].state \in {"failed", "superseded", "abandoned"} -> "dropped"
           [] OTHER -> "open"

CurrentRound(table, t) == IF IsItem(table, t) THEN table[t].round ELSE 0

Bench(table, t) ==
    {r \in 1..Len(table) :
        /\ IsItem(table, t) /\ table[r].kind = "review"
        /\ table[r].target = t /\ table[r].round = table[t].round}

Unspoken(table, t) == {r \in Bench(table, t) : table[r].state # "done"}
Opposing(table, t) ==
    {r \in Bench(table, t) : table[r].state = "done" /\ table[r].verdict # "approve"}

IsHeld(table, t) == IsItem(table, t) /\ table[t].held

J == INSTANCE Panel WITH
        Work <- Item,
        stage <- [t \in Item |-> Standing(task, t)],
        version <- [t \in Item |-> CurrentRound(task, t)],
        waiting <- [t \in Item |-> Unspoken(task, t)],
        against <- [t \in Item |-> Opposing(task, t)],
        held <- [t \in Item |-> IsHeld(task, t)]

\* Each version of a piece of work is judged by the reviewers that were asked for when it
\* was handed in, all of them and nobody else, and in the step in which the last of them
\* submits; a hold puts that off for good, until the row is taken back.  (As long as
\* people are orderly: OrderlySpec.)
JudgedByItsPanel == J!Spec
=============================================================================

---------------------------- MODULE MCTerminalUI ----------------------------
(***************************************************************************)
(* TerminalUI for TLC: one operator, two projects, and a table that is     *)
(* already under way.  Arrows and Esc are free; the other keys, what       *)
(* others do meanwhile and the calls that fail are paid for from budgets.  *)
(***************************************************************************)
EXTENDS TerminalUI

CONSTANTS
    Keys,       \* the budget of key presses
    MaxMishaps, \* the budget of steps of others and of calls that fail
    Columns,    \* the columns the operator goes to
    Modes       \* the modes the operator enters

VARIABLE spent

mctuivars == <<tuivars, spent>>

OneTier == <<"haiku">>
NoThresholds == <<>>
NoBatches == {}
TwoProjects == <<"A", "B">>
ProjectOfRow(t) == IF t = 3 THEN "B" ELSE "A"

\* Two approved rows of A, one with its pull request linked and one without, and a row
\* of B, with their review rows.
Approved(links) ==
    [NewRow("implement", "approved", "haiku") EXCEPT
        !.assignee = CHOOSE a \in Agent : TRUE, !.round = 1, !.links = links]
Approval(t) ==
    [NewRow("review", "done", "haiku") EXCEPT
        !.assignee = CHOOSE a \in Agent : TRUE, !.round = 1, !.target = t,
        !.verdict = "approve"]

UnderWay ==
    <<Approved({"pr"}), Approved({}), NewRow("implement", "backlog", "haiku"),
      Approval(1), Approval(2)>>

\* The first lists are in, and the operator has opened the second row.
Opened ==
    LET listed == Listed("A")
    IN  [NewBoardModel EXCEPT
            !.projects = TwoProjects, !.tasks = listed, !.loading = FALSE,
            !.column = ColumnOf("approved"), !.index = 2, !.selected = 2,
            !.mode = "detail",
            !.detail = [id |-> 2, state |-> "approved", hasPR |-> FALSE]]

MCTUIInit ==
    /\ task = UnderWay
    /\ archived = [tasks |-> {}, projects |-> {}]
    /\ merged = {}
    /\ ui = Opened
    /\ calls = [s \in Slot |-> NoCall]
    /\ ticks = 1
    /\ asked = [mode |-> "normal", on |-> NoTask]
    /\ spent = [keys |-> 0, mishaps |-> 0]

Free == UNCHANGED spent
Spend(budget, max) == spent[budget] < max /\ spent' = [spent EXCEPT ![budget] = @ + 1]

Move ==
    /\ Arrow \/ Esc
    /\ ui'.column \in Columns
    /\ Free
Press == Key /\ ui'.mode \in Modes /\ Spend("keys", Keys)

\* The last poll has its answer; an action's list, or a refresh, may be on its way.
Poll == Tick /\ (\A s \in Slot : calls[s].op # "fetch") /\ Free
Run(s) == CommandStep(s) /\ UNCHANGED <<ui, ticks, asked>> /\ Free
Fail(s) == CallFails(s) /\ UNCHANGED <<ui, ticks, asked>> /\ Spend("mishaps", MaxMishaps)
Answer(s) == (Deliver(s) \/ DeliverFailure(s)) /\ Free

SomebodyElse ==
    /\ \E t \in Id, to \in {"done", "ready", "blocked"} : TransitionTask(t, to)
    /\ UNCHANGED <<archived, merged, ui, calls, ticks, asked>>
    /\ Spend("mishaps", MaxMishaps)

MCTUINext ==
    \/ Move \/ Press \/ Poll \/ SomebodyElse
    \/ \E s \in Slot : Run(s) \/ Fail(s) \/ Answer(s)

MCTUISpec == MCTUIInit /\ [][MCTUINext]_mctuivars

\* The clock ticks, and every command ends, since its context has a deadline; an
\* operator owes nothing.
MCTUIFairSpec ==
    /\ MCTUISpec
    /\ WF_mctuivars(Poll)
    /\ \A s \in Slot : []<>(calls[s].at = "none")

\* Again and again the board shows the project it names as the server has it, whichever
\* lists overtook each other before, and whatever calls failed.
BoardCatchesUp == []<>(ui.tasks = Listed(ui.project))
=============================================================================

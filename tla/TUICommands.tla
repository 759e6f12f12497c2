----------------------------- MODULE TUICommands ----------------------------
(***************************************************************************)
(* The state of the terminal UI (cmd/odonian-tui) and the commands that    *)
(* run beside it: each makes one call after another through the HTTP       *)
(* client, and its result comes back to the board model as a message.      *)
(*                                                                         *)
(* Documents, events, scrolling, errors shown and layout are left out.  A  *)
(* pull request goes by the id of its task.                                *)
(***************************************************************************)
EXTENDS TaskBoard, SequencesExt

CONSTANTS
    Project,       \* the projects, in the order they were created
    ProjectOf(_),  \* the project of each row
    Slot           \* commands that may run at once; the program has no limit

ASSUME ProjectAssumption ==
    Project \in Seq(ToSet(Project)) /\ Project # <<>> /\ IsInjective(Project)
ASSUME SlotAssumption == Slot \subseteq Nat

VARIABLES
    archived,  \* [tasks, projects] that were archived
    merged,    \* the tasks whose pull request was merged
    ui,        \* the board model
    calls,     \* the commands that run
    ticks,     \* poll ticks that are armed
    asked      \* the flow opened last, and the task or pull request it was opened for

tuivars == <<task, archived, merged, ui, calls, ticks, asked>>

stateOrder == <<"backlog", "ready", "in_progress", "review", "approved", "done",
                "blocked", "failed", "abandoned">>
ColumnOf(state) == SelectInSeq(stateOrder, LAMBDA s : s = state)

Flow == {"approve", "reject", "merge", "bounce", "unblock", "fail", "archive",
         "hold", "release", "archive project"}
Mode == {"normal", "detail", "switch"} \cup Flow

\* What a finished command finds in place of a result.
Nothing == <<>>

NoCall == [op |-> "none", on |-> NoTask, pr |-> NoTask, project |-> "none",
           fromDetail |-> FALSE, at |-> "none", got |-> Nothing]
NoDetail == [id |-> NoTask, state |-> "none", hasPR |-> FALSE]

NewBoardModel ==
    [project |-> Head(Project), projects |-> <<>>, cursor |-> 1,
     tasks |-> Nothing, loading |-> TRUE,
     column |-> ColumnOf("in_progress"), index |-> 1, selected |-> NoTask,
     mode |-> "normal", pending |-> NoTask, pendingPR |-> NoTask,
     pendingProject |-> "none", fromDetail |-> FALSE, detail |-> NoDetail]

-----------------------------------------------------------------------------
(* What the server lists, and what the board makes of it.                  *)

\* ListTasks and bucketTasksByState.
Listed(p) ==
    LET shown == {t \in Id :
            /\ ProjectOf(t) = p /\ t \notin archived.tasks
            /\ ColumnOf(task[t].state) # 0
            /\ task[t].state = "done" => task[t].kind = "implement"}
    IN  [t \in shown |-> [state |-> task[t].state, held |-> task[t].held]]

\* A finite set of numbers as a sequence: the i-th has i - 1 below it.  (SortSeq and
\* SelectSeq would do, but nothing can be proved of them.)
InOrder(S) ==
    [i \in 1..Cardinality(S) |->
        CHOOSE n \in S : Cardinality({m \in S : m < n}) = i - 1]

ListProjects ==
    LET places == InOrder({i \in DOMAIN Project : Project[i] \notin archived.projects})
    IN  [i \in DOMAIN places |-> Project[places[i]]]

\* The ids stand for the order of the titles.
InColumn(u) ==
    InOrder({t \in DOMAIN u.tasks : ColumnOf(u.tasks[t].state) = u.column})

Least(i, j) == IF i < j THEN i ELSE j

\* Slip: a selection that is gone is kept.
SelectionKept(u) == u

\* ensureSelectionInColumn: what took the place of a selection that is gone.
EnsureSelection(u) ==
    LET list == InColumn(u)
        i == IF Contains(list, u.selected)
             THEN SelectInSeq(list, LAMBDA t : t = u.selected)
             ELSE Least(u.index, Len(list))
    IN  IF list = <<>> THEN [u EXCEPT !.selected = NoTask, !.index = 1]
        ELSE [u EXCEPT !.selected = list[i], !.index = i]

WithTasks(u, tasks) ==
    EnsureSelection([u EXCEPT !.tasks = tasks, !.loading = FALSE])

\* The list position of the project on show, or the top.
CursorAt(projects, p, default) ==
    IF Contains(projects, p) THEN SelectInSeq(projects, LAMBDA q : q = p) ELSE default

-----------------------------------------------------------------------------
(* Commands.                                                               *)

FirstCall(op) ==
    CASE op = "fetch" -> "list"
      [] op = "projects" -> "list projects"
      [] op = "detail" -> "get"
      [] op = "resolve" -> "resolve"
      [] op = "merge" -> "merge"
      [] OTHER -> "act"

FreeSlots == {s \in Slot : calls[s].at = "none"}

Command(op, on) == [NoCall EXCEPT !.op = op, !.on = on, !.at = FirstCall(op)]

\* The command of a flow, with what it was opened for.  A result that closed the flow
\* before may have left its task pending: archiving a project does not read it.
Confirmed(u) ==
    [Command(u.mode, IF u.mode = "archive project" THEN NoTask ELSE u.pending) EXCEPT
        !.pr = u.pendingPR, !.project = u.pendingProject, !.fromDetail = u.fromDetail]

\* Update returns the command; the runtime starts it.
Starts(command) ==
    \E s \in FreeSlots :
        /\ \A r \in FreeSlots : s <= r
        /\ calls' = [calls EXCEPT ![s] = command]

TargetState(op) ==
    CASE op \in {"approve", "merge"} -> "done"
      [] op \in {"reject", "bounce", "unblock"} -> "ready"
      [] op = "fail" -> "failed"

\* The change on the server, if it accepts the call.  The verdict recorded first by
\* approve and reject is an event, which no decision reads.
Accepted(op, t) ==
    \/ op = "promote" /\ PromoteTask(t) /\ UNCHANGED archived
    \/ /\ op \in {"approve", "reject", "merge", "bounce", "unblock", "fail"}
       /\ TransitionTask(t, TargetState(op)) /\ UNCHANGED archived
    \/ op = "hold" /\ HoldTask(t) /\ UNCHANGED archived
    \/ op = "release" /\ ReleaseTask(t) /\ UNCHANGED archived
    \/ op = "archive" /\ archived' = [archived EXCEPT !.tasks = @ \cup {t}] /\ UNCHANGED task

Refused(op, t) ==
    \/ op = "promote" /\ task[t].state # "backlog"
    \/ /\ op \in {"approve", "reject", "merge", "bounce", "unblock", "fail"}
       /\ ~CanTransition(task[t], TargetState(op))

Goes(s, at) == calls' = [calls EXCEPT ![s].at = at]
Returns(s, got) == calls' = [calls EXCEPT ![s].at = "reply", ![s].got = got]
Ends(s) == calls' = [calls EXCEPT ![s] = NoCall]

\* The forge client merges, or finds it merged; if not, the board is told nothing.
MergePR(s) ==
    /\ calls[s].at = "merge"
    /\ \/ merged' = merged \cup {calls[s].pr} /\ Goes(s, "act")
       \/ UNCHANGED merged /\ Goes(s, "list")
    /\ UNCHANGED <<task, archived>>

\* An action ends with a fresh list, whether it was accepted or not; a promotion that
\* was refused ends there.
Act(s) ==
    /\ calls[s].at = "act" /\ calls[s].op # "archive project"
    /\ \/ Accepted(calls[s].op, calls[s].on) /\ Goes(s, "list")
       \/ /\ Refused(calls[s].op, calls[s].on)
          /\ IF calls[s].op = "promote" THEN Ends(s) ELSE Goes(s, "list")
          /\ UNCHANGED <<task, archived>>
    /\ UNCHANGED merged

ArchiveProject(s) ==
    /\ calls[s].at = "act" /\ calls[s].op = "archive project"
    /\ archived' = [archived EXCEPT !.projects = @ \cup {calls[s].project}]
    /\ Goes(s, "list projects")
    /\ UNCHANGED <<task, merged>>

\* The project is the one on show when the call is made, not when the key was pressed.
Fetch(s) ==
    /\ \/ calls[s].at = "list" /\ Returns(s, Listed(ui.project))
       \/ calls[s].at = "list projects" /\ Returns(s, ListProjects)
       \/ /\ calls[s].at = "get"
          /\ Returns(s, [id |-> calls[s].on, state |-> task[calls[s].on].state,
                         hasPR |-> "pr" \in task[calls[s].on].links])
       \/ calls[s].at = "resolve" /\ Returns(s, [pr |-> calls[s].on])
    /\ UNCHANGED <<task, archived, merged>>

\* A call fails or times out: an action still fetches the list.
CallFails(s) ==
    /\ calls[s].at \notin {"none", "reply", "failed"}
    /\ IF calls[s].at \in {"merge", "act"} /\ calls[s].op # "archive project"
       THEN IF calls[s].op = "promote" THEN Ends(s) ELSE Goes(s, "list")
       ELSE Goes(s, "failed")
    /\ UNCHANGED <<task, archived, merged>>

CommandStep(s) == MergePR(s) \/ Act(s) \/ ArchiveProject(s) \/ Fetch(s)
=============================================================================

----------------------------- MODULE TerminalUI -----------------------------
(***************************************************************************)
(* The board model of the terminal UI (BoardModel.Update).                 *)
(*                                                                         *)
(* Bubble Tea calls Update with one message at a time, a key, a poll tick  *)
(* or the result of a command, so each is one action.  While an operator   *)
(* reads, opens a flow and answers it, results arrive late and overtake    *)
(* each other, and everybody else moves tasks.                             *)
(*                                                                         *)
(* The key presses of a flow between its opening and its last answer, a    *)
(* note or a reason and its Enter, are left out.                           *)
(***************************************************************************)
EXTENDS TUICommands

server == <<task, archived, merged>>

TUIInit ==
    /\ archived = [tasks |-> {}, projects |-> {}]
    /\ merged = {}
    /\ ui = NewBoardModel
    /\ ticks = 1
    /\ asked = [mode |-> "normal", on |-> NoTask]
    /\ calls = [s \in Slot |-> IF s = 1 THEN Command("fetch", NoTask)
                               ELSE IF s = 2 THEN Command("projects", NoTask) ELSE NoCall]

Quietly == UNCHANGED <<server, calls, ticks, asked>>
WithCommand(command) == Starts(command) /\ UNCHANGED <<server, ticks, asked>>

-----------------------------------------------------------------------------
(* Keys on the board.                                                      *)

Column(step) ==
    /\ ui.mode = "normal"
    /\ ui.column + step \in 1..Len(stateOrder)
    /\ ui' = EnsureSelection([ui EXCEPT !.column = @ + step, !.index = 1])
    /\ Quietly

Select(step) ==
    LET i == ui.index + step
    IN  /\ ui.mode = "normal"
        /\ i \in 1..Len(InColumn(ui))
        /\ ui' = [ui EXCEPT !.selected = InColumn(ui)[i], !.index = i]
        /\ Quietly

Refresh ==
    /\ ui.mode = "normal"
    /\ WithCommand(Command("fetch", NoTask)) /\ UNCHANGED ui

\* The detail of the task shown before stays until the new one arrives.
OpenDetail ==
    /\ ui.mode = "normal" /\ ui.selected # NoTask
    /\ ui' = [ui EXCEPT !.mode = "detail"]
    /\ WithCommand(Command("detail", ui.selected))

Promote ==
    /\ ui.mode = "normal"
    /\ ui.column = ColumnOf("backlog") /\ ui.selected # NoTask
    /\ WithCommand(Command("promote", ui.selected)) /\ UNCHANGED ui

OpenSwitch ==
    /\ ui.mode \in {"normal", "detail"}
    /\ ui' = [ui EXCEPT !.mode = "switch", !.cursor = CursorAt(ui.projects, ui.project, 1)]
    /\ WithCommand(Command("projects", NoTask))

\* The column a flow is offered in; the rest go by the task alone.
Offered(flow) ==
    CASE flow \in {"approve", "reject"} -> ui.column = ColumnOf("review")
      [] flow = "bounce" -> ui.column = ColumnOf("approved")
      [] flow \in {"unblock", "fail"} -> ui.column = ColumnOf("blocked")
      [] flow = "archive" -> TRUE
      [] flow \in {"hold", "release"} ->
            /\ ui.selected \in DOMAIN ui.tasks
            /\ ui.tasks[ui.selected].held <=> flow = "release"
      [] OTHER -> FALSE

Opens(u, flow, t) ==
    /\ ui' = [u EXCEPT !.mode = flow, !.pending = t]
    /\ asked' = [mode |-> flow, on |-> t]

OpenFlow(flow) ==
    /\ ui.mode = "normal" /\ ui.selected # NoTask /\ Offered(flow)
    /\ Opens(ui, flow, ui.selected)
    /\ UNCHANGED <<server, calls, ticks>>

-----------------------------------------------------------------------------
(* Keys in the detail view.                                                *)

CloseDetail ==
    /\ ui.mode = "detail"
    /\ ui' = [ui EXCEPT !.mode = "normal"]
    /\ Quietly

OpenFlowFromDetail(flow) ==
    /\ ui.mode = "detail"
    /\ \/ /\ flow \in {"approve", "reject"} /\ ui.detail.state = "review"
          /\ Opens([ui EXCEPT !.fromDetail = TRUE], flow, ui.detail.id)
       \/ /\ flow = "merge" /\ ui.detail.state = "approved" /\ ui.detail.hasPR
          /\ Opens([ui EXCEPT !.fromDetail = TRUE, !.pendingPR = ui.detail.id],
                   flow, ui.detail.id)
    /\ UNCHANGED <<server, calls, ticks>>

\* Without a link the pull request is looked up by the name of its branch.
ResolvePR ==
    /\ ui.mode = "detail" /\ ui.detail.state = "approved" /\ ~ui.detail.hasPR
    /\ WithCommand(Command("resolve", ui.detail.id)) /\ UNCHANGED ui

-----------------------------------------------------------------------------
(* Keys in the project switcher.                                           *)

CloseSwitch ==
    /\ ui.mode = "switch"
    /\ ui' = [ui EXCEPT !.mode = "normal"]
    /\ Quietly

\* Slip: the end of the list is one place too far.
PastTheEnd(step) == IF step < 0 THEN ui.cursor > 1 ELSE ui.cursor <= Len(ui.projects)

\* A list that became shorter may have left the cursor beyond it: up is still a move.
CanMove(step) == IF step < 0 THEN ui.cursor > 1 ELSE ui.cursor < Len(ui.projects)

MoveCursor(step) ==
    /\ ui.mode = "switch" /\ CanMove(step)
    /\ ui' = [ui EXCEPT !.cursor = @ + step]
    /\ Quietly

SwitchProject ==
    LET p == ui.projects[ui.cursor]
    IN  /\ ui.mode = "switch" /\ ui.cursor <= Len(ui.projects)
        /\ IF p = ui.project
           THEN ui' = [ui EXCEPT !.mode = "normal"] /\ Quietly
           ELSE /\ ui' = [ui EXCEPT
                        !.project = p, !.tasks = Nothing, !.selected = NoTask, !.index = 1,
                        !.column = ColumnOf("in_progress"), !.detail = NoDetail,
                        !.mode = "normal", !.loading = TRUE]
                /\ WithCommand(Command("fetch", NoTask))

OpenArchiveProject ==
    /\ ui.mode = "switch" /\ ui.cursor <= Len(ui.projects)
    /\ ui' = [ui EXCEPT !.mode = "archive project",
                        !.pendingProject = ui.projects[ui.cursor]]
    /\ asked' = [mode |-> "archive project", on |-> NoTask]
    /\ UNCHANGED <<server, calls, ticks>>

-----------------------------------------------------------------------------
(* Keys in a flow.                                                         *)

\* cancelReviewMode
Cancelled(u) ==
    [u EXCEPT !.mode = IF u.fromDetail THEN "detail" ELSE "normal", !.fromDetail = FALSE,
              !.pending = NoTask, !.pendingPR = NoTask, !.pendingProject = "none"]

Cancel == ui.mode \in Flow /\ ui' = Cancelled(ui) /\ Quietly

\* Slip: the command is given what is selected by now.
ConfirmsSelection ==
    /\ ui.mode \in Flow
    /\ ui' = Cancelled(ui)
    /\ WithCommand(Confirmed([ui EXCEPT !.pending =
                        IF ui.fromDetail THEN ui.detail.id ELSE ui.selected]))

Confirm ==
    /\ ui.mode \in Flow
    /\ ui' = Cancelled(ui)
    /\ WithCommand(Confirmed(ui))

-----------------------------------------------------------------------------
(* Results of commands.                                                    *)

\* A flow that was open is left as it stands, whatever it was for.
OnAction(c, u) == IF c.fromDetail THEN [u EXCEPT !.mode = "normal"] ELSE u

\* Slip: the pull request is merged for the task in the detail view.
PromptsForDetail(c) ==
    [ui EXCEPT !.mode = "merge", !.pending = ui.detail.id, !.pendingPR = c.got.pr,
               !.fromDetail = TRUE]

\* prResolvedMsg opens the flow, in whatever mode the operator is by now.
MergePrompt(c) ==
    [ui EXCEPT !.mode = "merge", !.pending = c.on, !.pendingPR = c.got.pr,
               !.fromDetail = TRUE]

OnProjects(projects) ==
    LET cursor == IF ui.mode = "switch" THEN CursorAt(projects, ui.project, ui.cursor)
                  ELSE ui.cursor
    IN  [ui EXCEPT !.projects = projects, !.cursor = cursor]

\* The archived project may have been the one on show: the next takes its place, the
\* selection being that of the old one until the new list is there.
OnProjectArchived(s, projects) ==
    IF Contains(projects, ui.project) \/ projects = <<>>
    THEN /\ ui' = [ui EXCEPT !.projects = projects, !.mode = "normal"]
         /\ Ends(s)
    ELSE /\ ui' = [ui EXCEPT !.projects = projects, !.project = Head(projects),
                             !.tasks = Nothing, !.loading = TRUE]
         /\ calls' = [calls EXCEPT ![s] = Command("fetch", NoTask)]

Deliver(s) ==
    LET c == calls[s]
    IN  /\ c.at = "reply"
        /\ IF c.op = "archive project" THEN OnProjectArchived(s, c.got)
           ELSE /\ ui' = CASE c.op \in {"fetch", "promote"} -> WithTasks(ui, c.got)
                           [] c.op = "projects" -> OnProjects(c.got)
                           [] c.op = "detail" -> [ui EXCEPT !.detail = c.got]
                           [] c.op = "resolve" -> MergePrompt(c)
                           [] OTHER -> OnAction(c, WithTasks(ui, c.got))
                /\ Ends(s)
        /\ asked' = IF c.op = "resolve" THEN [mode |-> "merge", on |-> c.on] ELSE asked
        /\ UNCHANGED <<server, ticks>>

DeliverFailure(s) ==
    LET c == calls[s]
    IN  /\ c.at = "failed"
        /\ ui' = CASE c.op \in {"fetch", "promote", "resolve"} -> ui
                   [] c.op = "projects" ->
                        IF ui.mode = "switch" THEN [ui EXCEPT !.mode = "normal"] ELSE ui
                   [] c.op \in {"detail", "archive project"} -> [ui EXCEPT !.mode = "normal"]
                   [] OTHER -> OnAction(c, ui)
        /\ Ends(s)
        /\ UNCHANGED <<server, ticks, asked>>

\* Slip: a tick fetches and arms no other.
TickIsSpent == ticks > 0 /\ ticks' = ticks - 1

RearmsTick == ticks > 0 /\ ticks' = ticks

Tick == RearmsTick /\ Starts(Command("fetch", NoTask)) /\ UNCHANGED <<server, ui, asked>>

Arrow == \E step \in {-1, 1} : Column(step) \/ Select(step) \/ MoveCursor(step)
Esc == CloseDetail \/ CloseSwitch \/ Cancel

Key ==
    \/ Refresh \/ OpenDetail \/ Promote \/ OpenSwitch \/ ResolvePR
    \/ SwitchProject \/ OpenArchiveProject \/ Confirm
    \/ \E flow \in Flow : OpenFlow(flow) \/ OpenFlowFromDetail(flow)

Running(s) == (CommandStep(s) \/ CallFails(s)) /\ UNCHANGED <<ui, ticks, asked>>

\* What everybody else does on the board.
Others == Next /\ UNCHANGED <<archived, merged, ui, calls, ticks, asked>>

TUINext ==
    \/ Arrow \/ Esc \/ Key \/ Tick \/ Others
    \/ \E s \in Slot : Running(s) \/ Deliver(s) \/ DeliverFailure(s)

TUISpec == Init /\ TUIInit /\ [][TUINext]_tuivars
-----------------------------------------------------------------------------
(* Safety.                                                                 *)

\* The board model names tasks and list positions that exist.
TUITypeOK ==
    /\ archived.tasks \subseteq Id /\ merged \subseteq Id
    /\ ui.project \in ToSet(Project) /\ ui.mode \in Mode
    /\ ui.column \in 1..Len(stateOrder) /\ ui.cursor \in 1..Len(Project)
    /\ {ui.selected, ui.pending, ui.pendingPR, ui.detail.id} \subseteq Id \cup {NoTask}
    /\ DOMAIN ui.tasks \subseteq Id
    /\ ui.mode \in Flow \ {"archive project"} => ui.pending # NoTask
    /\ \A s \in Slot : calls[s].on \in Id \cup {NoTask}

\* Whatever lists arrive in whatever order, the selection is a task of the column on
\* show, at the position the arrow keys start from; only a project that is still being
\* loaded has none.
SelectionIsOnTheBoard ==
    IF InColumn(ui) = <<>> THEN ui.selected = NoTask \/ ui.loading
    ELSE ui.index \in 1..Len(InColumn(ui)) /\ ui.selected = InColumn(ui)[ui.index]

\* A flow does what it was opened for: lists and details that arrive under the open
\* prompt move the selection and the detail view, and not the action's target.
ActsAsAsked ==
    [][\A s \in Slot :
        calls[s].at = "none" /\ calls'[s].op \in Flow =>
            calls'[s].op = asked.mode /\ calls'[s].on = asked.on]_tuivars

\* What the merge flow records as done has had its own pull request merged, however
\* long the lookup of that pull request took.
MergesItsOwnPR ==
    [][\A s \in Slot :
        /\ calls[s].op = "merge" /\ calls[s].at = "act"
        /\ task'[calls[s].on].state = "done" /\ task[calls[s].on].state # "done"
        => calls[s].on \in merged \/ calls'[s] = calls[s]]_tuivars
=============================================================================

-------------------------- MODULE TerminalUIProofs --------------------------
(***************************************************************************)
(* Theorems about the terminal UI, for every board, every set of projects  *)
(* and any number of commands in flight: what an operator was asked to     *)
(* confirm is what is done, the board names rows that exist and selects    *)
(* one it shows, and the table is changed as the task board allows.        *)
(***************************************************************************)
EXTENDS TerminalUI, TaskBoardProofs

\* The board model, and a command, have the fields they were made with.
IsUI(u) == DOMAIN u = DOMAIN NewBoardModel
IsCall(c) == DOMAIN c = DOMAIN NoCall

\* The prompt on show is the one that was opened, and the pull request that a merge
\* prompt names is that of the task it names.
PromptIsAsked(u, opened) ==
    u.mode \in Flow =>
        /\ opened.mode = u.mode
        /\ opened.on = IF u.mode = "archive project" THEN NoTask ELSE u.pending
        /\ u.mode = "merge" => u.pendingPR = u.pending

\* A merge command carries one task and its pull request, and tells the board of a
\* merge only after the forge said so.
CarriesItsOwn(c, done) ==
    /\ c.op = "merge" => c.pr = c.on /\ (c.at = "act" => c.pr \in done)
    /\ c.op = "resolve" => /\ c.at \in {"resolve", "reply", "failed"}
                           /\ c.at = "reply" => c.got.pr = c.on
    /\ c.at = "none" => c.op = "none"

Commands(cs, done) ==
    DOMAIN cs = Slot /\ \A s \in Slot : IsCall(cs[s]) /\ CarriesItsOwn(cs[s], done)

UIInv == IsUI(ui) /\ PromptIsAsked(ui, asked) /\ Commands(calls, merged)

\* What ActsAsAsked says of a step.
StartsWhatWasAsked ==
    \A s \in Slot :
        calls[s].at = "none" /\ calls'[s].op \in Flow =>
            calls'[s].op = asked.mode /\ calls'[s].on = asked.on

-----------------------------------------------------------------------------
(* The fields an update leaves alone.                                      *)

\* The prompt is as it was.
SamePrompt(u, v) ==
    IsUI(u) /\ u.mode = v.mode /\ u.pending = v.pending /\ u.pendingPR = v.pendingPR

\* No prompt is open.
NoPrompt(u) == IsUI(u) /\ u.mode \notin Flow

\* A list that arrives leaves the prompt alone.
LEMMA ListKeepsPrompt ==
    ASSUME NEW u, IsUI(u), NEW tasks
    PROVE  SamePrompt(WithTasks(u, tasks), u)
<1> DEFINE v == [u EXCEPT !.tasks = tasks, !.loading = FALSE]
<1>1. SamePrompt(v, u)
  BY DEF IsUI, NewBoardModel, SamePrompt
<1>2. \A x, i : SamePrompt([v EXCEPT !.selected = x, !.index = i], v)
  BY <1>1 DEF IsUI, NewBoardModel, SamePrompt
<1> HIDE DEF v
<1>3. SamePrompt(EnsureSelection(v), v)
  BY <1>2 DEF EnsureSelection
<1> QED
  BY <1>1, <1>3 DEF SamePrompt, WithTasks, v

-----------------------------------------------------------------------------
(* The commands.                                                           *)

\* A command that may be put in slot s by this step.
Fits(s, c) ==
    /\ IsCall(c) /\ CarriesItsOwn(c, merged')
    /\ \/ calls[s].at # "none" \/ c.op \notin Flow
       \/ c.op = asked.mode /\ c.on = asked.on

\* A step that changes one command.
LEMMA OneCommand ==
    ASSUME UIInv, merged \subseteq merged', NEW s \in Slot, NEW c, Fits(s, c),
           calls' = [calls EXCEPT ![s] = c]
    PROVE  Commands(calls', merged') /\ StartsWhatWasAsked
<1>1. /\ DOMAIN calls = Slot
      /\ \A r \in Slot : IsCall(calls[r]) /\ CarriesItsOwn(calls[r], merged)
  BY DEF UIInv, Commands
<1>2. DOMAIN calls' = Slot /\ \A r \in Slot : calls'[r] = IF r = s THEN c ELSE calls[r]
  BY <1>1
<1>3. ASSUME NEW r \in Slot PROVE IsCall(calls'[r]) /\ CarriesItsOwn(calls'[r], merged')
  <2>1. CASE r = s
    BY <2>1, <1>2 DEF Fits
  <2>2. CASE r # s
    BY <2>2, <1>1, <1>2 DEF CarriesItsOwn
  <2> QED
    BY <2>1, <2>2
<1>4. ASSUME NEW r \in Slot, calls[r].at = "none", calls'[r].op \in Flow
      PROVE  calls'[r].op = asked.mode /\ calls'[r].on = asked.on
  <2>1. "none" \notin Flow
    BY DEF Flow
  <2>2. r = s
    BY <2>1, <1>1, <1>2, <1>4 DEF CarriesItsOwn
  <2> QED
    BY <2>2, <1>2, <1>4 DEF Fits
<1> QED
  BY <1>2, <1>3, <1>4 DEF Commands, StartsWhatWasAsked

\* A step that changes none.
LEMMA NoCommand ==
    ASSUME UIInv, merged \subseteq merged', UNCHANGED calls
    PROVE  Commands(calls', merged') /\ StartsWhatWasAsked
<1>1. "none" \notin Flow
  BY DEF Flow
<1> QED
  BY <1>1 DEF UIInv, Commands, CarriesItsOwn, StartsWhatWasAsked

\* What Update starts beside an answer to a prompt is no action.
LEMMA PlainCommand ==
    ASSUME NEW op \in {"fetch", "projects", "detail", "resolve", "promote"}, NEW on, NEW s
    PROVE  Fits(s, Command(op, on))
<1> DEFINE c == Command(op, on)
<1>1. IsCall(c) /\ c.op = op /\ c.at = FirstCall(op)
  BY DEF Command, NoCall, IsCall
<1>2. /\ op \notin Flow /\ op # "merge" /\ FirstCall(op) \notin {"reply", "none"}
      /\ op = "resolve" => FirstCall(op) = "resolve"
  BY DEF Flow, FirstCall
<1> HIDE DEF c
<1>3. CarriesItsOwn(c, merged')
  BY <1>1, <1>2 DEF CarriesItsOwn
<1>4. Fits(s, c)
  BY <1>1, <1>2, <1>3 DEF Fits
<1> QED
  BY <1>4 DEF c

\* The command of a prompt is the one that was asked for.
LEMMA PromptedCommand ==
    ASSUME UIInv, ui.mode \in Flow, NEW s, merged' = merged
    PROVE  Fits(s, Confirmed(ui))
<1> DEFINE on == IF ui.mode = "archive project" THEN NoTask ELSE ui.pending
           c == Confirmed(ui)
<1>1. /\ IsCall(c) /\ c.op = ui.mode /\ c.at = FirstCall(ui.mode)
      /\ c.on = on /\ c.pr = ui.pendingPR
  BY DEF Confirmed, Command, NoCall, IsCall
<1>2. /\ asked.mode = ui.mode /\ asked.on = on
      /\ ui.mode = "merge" => ui.pendingPR = on
  BY DEF UIInv, PromptIsAsked
<1>3. FirstCall(ui.mode) \in {"merge", "act"} /\ ui.mode # "resolve"
  BY DEF Flow, FirstCall
<1>4. ui.mode = "merge" => FirstCall(ui.mode) = "merge"
  BY DEF FirstCall
<1> HIDE DEF c, on
<1>5. CarriesItsOwn(c, merged')
  BY <1>1, <1>2, <1>3, <1>4 DEF CarriesItsOwn
<1>6. Fits(s, c)
  BY <1>1, <1>2, <1>5 DEF Fits
<1> QED
  BY <1>6 DEF c

\* A command that makes its next call, or gives up.
LEMMA GoingOn ==
    ASSUME UIInv, merged \subseteq merged', NEW s \in Slot, NEW at, Goes(s, at),
           calls[s].at # "none", at # "none",
           calls[s].op = "merge" /\ at = "act" => calls[s].pr \in merged',
           calls[s].op = "resolve" => at = "failed"
    PROVE  Commands(calls', merged') /\ StartsWhatWasAsked
<1> DEFINE c == [calls[s] EXCEPT !.at = at]
<1>1. IsCall(calls[s]) /\ CarriesItsOwn(calls[s], merged)
  BY DEF UIInv, Commands
<1>2. calls' = [calls EXCEPT ![s] = c]
  BY DEF Goes
<1>3. /\ IsCall(c) /\ c.op = calls[s].op /\ c.on = calls[s].on
      /\ c.pr = calls[s].pr /\ c.at = at
  BY <1>1 DEF IsCall, NoCall
<1> HIDE DEF c
<1>4. CarriesItsOwn(c, merged')
  BY <1>1, <1>3 DEF CarriesItsOwn
<1>5. Fits(s, c)
  BY <1>3, <1>4 DEF Fits
<1> QED
  BY <1>2, <1>5, OneCommand

\* A command whose result is there.
LEMMA Answered ==
    ASSUME UIInv, merged \subseteq merged', NEW s \in Slot, NEW got, Returns(s, got),
           calls[s].at # "none", calls[s].op = "resolve" => got.pr = calls[s].on
    PROVE  Commands(calls', merged') /\ StartsWhatWasAsked
<1> DEFINE c == [calls[s] EXCEPT !.at = "reply", !.got = got]
<1>1. IsCall(calls[s]) /\ CarriesItsOwn(calls[s], merged) /\ DOMAIN calls = Slot
  BY DEF UIInv, Commands
<1>2. calls' = [calls EXCEPT ![s] = c]
  BY <1>1 DEF Returns
<1>3. /\ IsCall(c) /\ c.op = calls[s].op /\ c.on = calls[s].on
      /\ c.pr = calls[s].pr /\ c.at = "reply" /\ c.got = got
  BY <1>1 DEF IsCall, NoCall
<1> HIDE DEF c
<1>4. CarriesItsOwn(c, merged')
  BY <1>1, <1>3 DEF CarriesItsOwn
<1>5. Fits(s, c)
  BY <1>3, <1>4 DEF Fits
<1> QED
  BY <1>2, <1>5, OneCommand

\* A command that ends.
LEMMA Ending ==
    ASSUME UIInv, merged \subseteq merged', NEW s \in Slot, Ends(s)
    PROVE  Commands(calls', merged') /\ StartsWhatWasAsked
<1>1. IsCall(NoCall) /\ NoCall.op = "none" /\ "none" \notin Flow
  BY DEF IsCall, NoCall, Flow
<1>2. Fits(s, NoCall)
  BY <1>1 DEF Fits, CarriesItsOwn
<1> QED
  BY <1>2, OneCommand DEF Ends

-----------------------------------------------------------------------------
(* The steps.                                                              *)

\* Update returned a command.
LEMMA Started ==
    ASSUME UIInv, NEW command, Starts(command), \A s \in Slot : Fits(s, command),
           merged' = merged
    PROVE  Commands(calls', merged') /\ StartsWhatWasAsked
<1>1. PICK s \in Slot : calls' = [calls EXCEPT ![s] = command]
  BY DEF Starts, FreeSlots
<1>2. Fits(s, command)
  OBVIOUS
<1> QED
  BY <1>1, <1>2, OneCommand

\* A step that leaves the prompt, or closes it.
LEMMA PromptStands ==
    ASSUME UIInv, (SamePrompt(ui', ui) /\ asked' = asked) \/ NoPrompt(ui')
    PROVE  IsUI(ui') /\ PromptIsAsked(ui', asked')
  BY DEF UIInv, SamePrompt, NoPrompt, PromptIsAsked

\* Arrows and the cursor of the switcher.
LEMMA ArrowKeeps == ASSUME UIInv, Arrow PROVE UIInv' /\ StartsWhatWasAsked
<1>1. IsUI(ui) /\ UNCHANGED <<merged, calls, asked>>
  BY DEF UIInv, Arrow, Column, Select, MoveCursor, Quietly, server
<1>2. SamePrompt(ui', ui)
  <2>1. ASSUME NEW step, Column(step) PROVE SamePrompt(ui', ui)
    <3> DEFINE v == [ui EXCEPT !.column = @ + step, !.index = 1]
    <3>1. ui' = EnsureSelection(v)
      BY <2>1 DEF Column
    <3>2. SamePrompt(v, ui)
      BY <1>1 DEF IsUI, NewBoardModel, SamePrompt
    <3>3. \A x, i : SamePrompt([v EXCEPT !.selected = x, !.index = i], v)
      BY <3>2 DEF IsUI, NewBoardModel, SamePrompt
    <3> HIDE DEF v
    <3>4. SamePrompt(EnsureSelection(v), v)
      BY <3>3 DEF EnsureSelection
    <3> QED
      BY <3>1, <3>2, <3>4 DEF SamePrompt
  <2>2. ASSUME NEW step, Select(step) PROVE SamePrompt(ui', ui)
    BY <2>2, <1>1 DEF Select, IsUI, NewBoardModel, SamePrompt
  <2>3. ASSUME NEW step, MoveCursor(step) PROVE SamePrompt(ui', ui)
    BY <2>3, <1>1 DEF MoveCursor, IsUI, NewBoardModel, SamePrompt
  <2> QED
    BY <2>1, <2>2, <2>3 DEF Arrow
<1> QED
  BY <1>1, <1>2, PromptStands, NoCommand DEF UIInv

\* Esc closes what is open.
LEMMA EscKeeps == ASSUME UIInv, Esc PROVE UIInv' /\ StartsWhatWasAsked
<1>1. IsUI(ui) /\ UNCHANGED <<merged, calls, asked>>
  BY DEF UIInv, Esc, CloseDetail, CloseSwitch, Cancel, Quietly, server
<1>2. NoPrompt(ui')
  <2>1. CASE CloseDetail \/ CloseSwitch
    BY <2>1, <1>1 DEF CloseDetail, CloseSwitch, Flow, IsUI, NewBoardModel, NoPrompt
  <2>2. CASE Cancel
    BY <2>2, <1>1 DEF Cancel, Cancelled, Flow, IsUI, NewBoardModel, NoPrompt
  <2> QED
    BY <2>1, <2>2 DEF Esc
<1> QED
  BY <1>1, <1>2, PromptStands, NoCommand DEF UIInv

\* Keys that start a command, and open no prompt.
LEMMA CommandKeyKeeps ==
    ASSUME UIInv,
           Refresh \/ OpenDetail \/ Promote \/ OpenSwitch \/ ResolvePR \/ SwitchProject
    PROVE  UIInv' /\ StartsWhatWasAsked
<1>1. IsUI(ui)
  BY DEF UIInv
<1>2. UNCHANGED <<merged, asked>>
  BY DEF Refresh, OpenDetail, Promote, OpenSwitch, ResolvePR, SwitchProject, WithCommand,
         Quietly, server
<1>3. \/ UNCHANGED calls
      \/ \E op \in {"fetch", "projects", "detail", "resolve", "promote"} : \E on :
            Starts(Command(op, on))
  BY DEF Refresh, OpenDetail, Promote, OpenSwitch, ResolvePR, SwitchProject, WithCommand,
         Quietly
<1>4. SamePrompt(ui', ui) \/ NoPrompt(ui')
  <2>1. CASE Refresh \/ Promote \/ ResolvePR
    BY <2>1, <1>1 DEF Refresh, Promote, ResolvePR, SamePrompt
  <2>2. CASE OpenDetail \/ OpenSwitch
    BY <2>2, <1>1 DEF OpenDetail, OpenSwitch, Flow, IsUI, NewBoardModel, NoPrompt
  <2>3. CASE SwitchProject
    <3>1. DOMAIN ui' = DOMAIN ui /\ ui'.mode = "normal"
      BY <2>3, <1>1 DEF SwitchProject, IsUI, NewBoardModel
    <3> QED
      BY <3>1, <1>1 DEF NoPrompt, IsUI, Flow
  <2> QED
    BY <2>1, <2>2, <2>3
<1>5. Commands(calls', merged') /\ StartsWhatWasAsked
  BY <1>2, <1>3, NoCommand, Started, PlainCommand
<1> QED
  BY <1>2, <1>4, <1>5, PromptStands DEF UIInv

\* Keys that open a prompt.
LEMMA OpeningKeeps ==
    ASSUME UIInv,
           \/ OpenArchiveProject
           \/ \E flow \in Flow : OpenFlow(flow) \/ OpenFlowFromDetail(flow)
    PROVE  UIInv' /\ StartsWhatWasAsked
<1>1. IsUI(ui) /\ UNCHANGED <<merged, calls>>
  BY DEF UIInv, OpenArchiveProject, OpenFlow, OpenFlowFromDetail, server
<1>2. IsUI(ui') /\ PromptIsAsked(ui', asked')
  <2>1. CASE OpenArchiveProject
    BY <2>1, <1>1 DEF OpenArchiveProject, IsUI, NewBoardModel, PromptIsAsked
  <2>2. ASSUME NEW flow \in Flow, OpenFlow(flow)
        PROVE  IsUI(ui') /\ PromptIsAsked(ui', asked')
    <3>1. flow # "archive project" /\ flow # "merge"
      BY <2>2 DEF OpenFlow, Offered
    <3>2. /\ ui' = [ui EXCEPT !.mode = flow, !.pending = ui.selected]
          /\ asked' = [mode |-> flow, on |-> ui.selected]
      BY <2>2 DEF OpenFlow, Opens
    <3> QED
      BY <3>1, <3>2, <1>1 DEF IsUI, NewBoardModel, PromptIsAsked
  <2>3. ASSUME NEW flow \in Flow, OpenFlowFromDetail(flow)
        PROVE  IsUI(ui') /\ PromptIsAsked(ui', asked')
    <3>1. /\ flow # "archive project"
          /\ asked' = [mode |-> flow, on |-> ui.detail.id]
      BY <2>3 DEF OpenFlowFromDetail, Opens
    <3>2. ASSUME NEW u, IsUI(u), u.pendingPR = ui.detail.id \/ flow # "merge",
                 ui' = [u EXCEPT !.mode = flow, !.pending = ui.detail.id]
          PROVE  /\ IsUI(ui') /\ ui'.mode = flow /\ ui'.pending = ui.detail.id
                 /\ flow = "merge" => ui'.pendingPR = ui.detail.id
      BY <3>2 DEF IsUI, NewBoardModel
    <3>3. /\ IsUI(ui') /\ ui'.mode = flow /\ ui'.pending = ui.detail.id
          /\ flow = "merge" => ui'.pendingPR = ui.detail.id
      <4>1. CASE flow = "merge"
        <5> DEFINE u == [ui EXCEPT !.fromDetail = TRUE, !.pendingPR = ui.detail.id]
        <5>1. ui' = [u EXCEPT !.mode = flow, !.pending = ui.detail.id]
          BY <2>3, <4>1 DEF OpenFlowFromDetail, Opens
        <5>2. IsUI(u) /\ u.pendingPR = ui.detail.id
          BY <1>1 DEF IsUI, NewBoardModel
        <5> HIDE DEF u
        <5> QED
          BY <3>2, <5>1, <5>2
      <4>2. CASE flow # "merge"
        <5> DEFINE u == [ui EXCEPT !.fromDetail = TRUE]
        <5>1. ui' = [u EXCEPT !.mode = flow, !.pending = ui.detail.id]
          BY <2>3, <4>2 DEF OpenFlowFromDetail, Opens
        <5>2. IsUI(u)
          BY <1>1 DEF IsUI, NewBoardModel
        <5> HIDE DEF u
        <5> QED
          BY <3>2, <4>2, <5>1, <5>2
      <4> QED
        BY <4>1, <4>2
    <3> QED
      BY <3>1, <3>3 DEF PromptIsAsked
  <2> QED
    BY <2>1, <2>2, <2>3
<1> QED
  BY <1>1, <1>2, NoCommand DEF UIInv

\* The answer to a prompt.
LEMMA ConfirmKeeps == ASSUME UIInv, Confirm PROVE UIInv' /\ StartsWhatWasAsked
<1>1. /\ IsUI(ui) /\ ui.mode \in Flow /\ ui' = Cancelled(ui)
      /\ Starts(Confirmed(ui)) /\ UNCHANGED <<merged, asked>>
  BY DEF UIInv, Confirm, WithCommand, server
<1>2. NoPrompt(ui')
  BY <1>1 DEF Cancelled, Flow, IsUI, NewBoardModel, NoPrompt
<1>3. Commands(calls', merged') /\ StartsWhatWasAsked
  BY <1>1, Started, PromptedCommand
<1> QED
  BY <1>2, <1>3, PromptStands DEF UIInv

\* The server and the forge answer, or do not.
LEMMA RunningKeeps ==
    ASSUME UIInv, NEW s \in Slot, Running(s)
    PROVE  UIInv' /\ StartsWhatWasAsked
<1>1. SUFFICES Commands(calls', merged') /\ StartsWhatWasAsked
  BY DEF UIInv, Running
<1>2. calls[s].op = "resolve" => calls[s].at \in {"resolve", "reply", "failed"}
  BY DEF UIInv, Commands, CarriesItsOwn
<1>3. CASE MergePR(s)
  <2>1. calls[s].at = "merge" /\ calls[s].op # "resolve"
    BY <1>2, <1>3 DEF MergePR
  <2>2. CASE merged' = merged \cup {calls[s].pr} /\ Goes(s, "act")
    <3>1. calls[s].pr \in merged' /\ merged \subseteq merged' /\ Goes(s, "act")
      BY <2>2
    <3> QED
      BY <2>1, <3>1, GoingOn
  <2>3. CASE merged' = merged /\ Goes(s, "list")
    <3>1. merged \subseteq merged' /\ Goes(s, "list")
      BY <2>3
    <3> QED
      BY <2>1, <3>1, GoingOn
  <2> QED
    BY <1>3, <2>2, <2>3 DEF MergePR
<1>4. CASE Act(s) \/ ArchiveProject(s)
  <2>1. /\ merged \subseteq merged' /\ calls[s].at = "act" /\ calls[s].op # "resolve"
        /\ Goes(s, "list") \/ Goes(s, "list projects") \/ Ends(s)
    BY <1>2, <1>4 DEF Act, ArchiveProject
  <2> QED
    BY <2>1, GoingOn, Ending
<1>5. CASE Fetch(s)
  <2>1. merged \subseteq merged' /\ calls[s].at # "none"
    BY <1>5 DEF Fetch
  <2>2. CASE calls[s].at = "resolve"
    <3>1. Returns(s, [pr |-> calls[s].on])
      BY <1>5, <2>2 DEF Fetch
    <3> QED
      BY <2>1, <3>1, Answered
  <2>3. CASE calls[s].at # "resolve"
    <3>1. calls[s].op # "resolve"
      BY <1>2, <1>5, <2>3 DEF Fetch
    <3>2. PICK got : Returns(s, got)
      BY <1>5 DEF Fetch
    <3> QED
      BY <2>1, <3>1, <3>2, Answered
  <2> QED
    BY <2>2, <2>3
<1>6. CASE CallFails(s)
  <2>1. /\ merged \subseteq merged' /\ calls[s].at # "none"
        /\ \/ Goes(s, "list") /\ calls[s].at \in {"merge", "act"}
           \/ Goes(s, "failed") \/ Ends(s)
    BY <1>6 DEF CallFails
  <2> QED
    BY <1>2, <2>1, GoingOn, Ending
<1> QED
  BY <1>3, <1>4, <1>5, <1>6 DEF Running, CommandStep

\* A result arrives.  Only the lookup of a pull request opens a prompt, and that prompt
\* names the task the lookup was for.
LEMMA DeliverKeeps ==
    ASSUME UIInv, NEW s \in Slot, Deliver(s)
    PROVE  UIInv' /\ StartsWhatWasAsked
<1> DEFINE c == calls[s]
<1>1. /\ IsUI(ui) /\ c.at = "reply" /\ merged' = merged
      /\ c.op = "resolve" => c.got.pr = c.on
  BY DEF UIInv, Commands, CarriesItsOwn, Deliver, server
<1>2. \A tasks : SamePrompt(WithTasks(ui, tasks), ui)
  BY <1>1, ListKeepsPrompt
<1>3. CASE c.op = "archive project"
  <2>1. asked' = asked /\ OnProjectArchived(s, c.got)
    BY <1>3 DEF Deliver
  <2>2. CASE ui' = [ui EXCEPT !.projects = c.got, !.mode = "normal"] /\ Ends(s)
    <3>1. NoPrompt(ui')
      BY <2>2, <1>1 DEF NoPrompt, IsUI, NewBoardModel, Flow
    <3> QED
      BY <2>2, <3>1, <1>1, PromptStands, Ending DEF UIInv
  <2>3. CASE /\ ui' = [ui EXCEPT !.projects = c.got, !.project = Head(c.got),
                                 !.tasks = Nothing, !.loading = TRUE]
             /\ calls' = [calls EXCEPT ![s] = Command("fetch", NoTask)]
    <3>1. SamePrompt(ui', ui)
      BY <2>3, <1>1 DEF SamePrompt, IsUI, NewBoardModel
    <3>2. Commands(calls', merged') /\ StartsWhatWasAsked
      BY <2>3, <1>1, OneCommand, PlainCommand
    <3> QED
      BY <2>1, <3>1, <3>2, PromptStands DEF UIInv
  <2> QED
    BY <2>1, <2>2, <2>3 DEF OnProjectArchived
<1>4. CASE c.op # "archive project"
  <2>1. Ends(s)
    BY <1>4 DEF Deliver
  <2>2. Commands(calls', merged') /\ StartsWhatWasAsked
    BY <2>1, <1>1, Ending
  <2>3. CASE c.op = "resolve"
    <3>1. ui' = MergePrompt(c) /\ asked' = [mode |-> "merge", on |-> c.on]
      BY <2>3, <1>4 DEF Deliver
    <3>2. /\ IsUI(ui') /\ ui'.mode = "merge" /\ ui'.pending = c.on
          /\ ui'.pendingPR = c.got.pr
      BY <3>1, <1>1 DEF MergePrompt, IsUI, NewBoardModel
    <3>3. PromptIsAsked(ui', asked')
      BY <3>1, <3>2, <2>3, <1>1 DEF PromptIsAsked
    <3> QED
      BY <2>2, <3>2, <3>3 DEF UIInv
  <2>4. CASE c.op # "resolve"
    <3>1. asked' = asked
      BY <2>4 DEF Deliver
    <3>2. \/ \E tasks : ui' = WithTasks(ui, tasks)
          \/ ui' = OnProjects(c.got)
          \/ ui' = [ui EXCEPT !.detail = c.got]
          \/ \E tasks : ui' = OnAction(c, WithTasks(ui, tasks))
      BY <2>4, <1>4 DEF Deliver
    <3>3. \A projects : SamePrompt(OnProjects(projects), ui)
      BY <1>1 DEF OnProjects, SamePrompt, IsUI, NewBoardModel
    <3>4. SamePrompt([ui EXCEPT !.detail = c.got], ui)
      BY <1>1 DEF SamePrompt, IsUI, NewBoardModel
    <3>5. \A u : SamePrompt(u, ui) =>
                SamePrompt(OnAction(c, u), ui) \/ NoPrompt(OnAction(c, u))
      <4>1. \A u : IsUI(u) => NoPrompt([u EXCEPT !.mode = "normal"])
        BY DEF NoPrompt, IsUI, NewBoardModel, Flow
      <4> QED
        BY <4>1 DEF OnAction, SamePrompt
    <3>6. SamePrompt(ui', ui) \/ NoPrompt(ui')
      BY <3>2, <3>3, <3>4, <3>5, <1>2
    <3> QED
      BY <2>2, <3>1, <3>6, PromptStands DEF UIInv
  <2> QED
    BY <2>3, <2>4
<1> QED
  BY <1>3, <1>4

\* An error arrives.
LEMMA FailureKeeps ==
    ASSUME UIInv, NEW s \in Slot, DeliverFailure(s)
    PROVE  UIInv' /\ StartsWhatWasAsked
<1>1. IsUI(ui) /\ Ends(s) /\ UNCHANGED <<merged, asked>>
  BY DEF UIInv, DeliverFailure, server
<1>2. ui' = ui \/ ui' = [ui EXCEPT !.mode = "normal"]
  BY DEF DeliverFailure, OnAction
<1>3. SamePrompt(ui', ui) \/ NoPrompt(ui')
  BY <1>1, <1>2 DEF SamePrompt, NoPrompt, IsUI, NewBoardModel, Flow
<1> QED
  BY <1>1, <1>3, PromptStands, Ending DEF UIInv

\* The clock ticks.
LEMMA TickKeeps == ASSUME UIInv, Tick PROVE UIInv' /\ StartsWhatWasAsked
<1>1. UNCHANGED <<ui, merged, asked>> /\ Starts(Command("fetch", NoTask))
  BY DEF Tick, server
<1>2. Commands(calls', merged') /\ StartsWhatWasAsked
  BY <1>1, Started, PlainCommand
<1> QED
  BY <1>1, <1>2 DEF UIInv

-----------------------------------------------------------------------------
(* The theorems about prompts.                                             *)

\* Every message, and every step of the server or of others, preserves the invariant.
LEMMA StepKeeps ==
    ASSUME UIInv, [TUINext]_tuivars
    PROVE  UIInv' /\ StartsWhatWasAsked
<1>1. CASE UNCHANGED tuivars \/ Others
  <2>1. UNCHANGED <<ui, asked, calls, merged>>
    BY <1>1 DEF tuivars, Others
  <2> QED
    BY <2>1, NoCommand DEF UIInv
<1>2. CASE Key
  BY <1>2, CommandKeyKeeps, OpeningKeeps, ConfirmKeeps DEF Key
<1> QED
  BY <1>1, <1>2, ArrowKeeps, EscKeeps, TickKeeps, RunningKeeps, DeliverKeeps, FailureKeeps
     DEF TUINext

\* The terminal UI starts with no prompt, and with two lists being fetched.
LEMMA UIInitially == ASSUME TUIInit PROVE UIInv
<1>1. IsUI(ui) /\ ui.mode = "normal" /\ "normal" \notin Flow
  BY DEF TUIInit, NewBoardModel, IsUI, Flow
<1>2. DOMAIN calls = Slot
  BY DEF TUIInit
<1>3. \A s \in Slot : \/ calls[s] = Command("fetch", NoTask)
                      \/ calls[s] = Command("projects", NoTask)
                      \/ calls[s] = NoCall
  BY DEF TUIInit
<1>4. ASSUME NEW op \in {"fetch", "projects"}
      PROVE  LET c == Command(op, NoTask) IN IsCall(c) /\ CarriesItsOwn(c, merged)
  <2>1. LET c == Command(op, NoTask) IN
        IsCall(c) /\ c.op = op /\ c.at \in {"list", "list projects"}
    BY DEF Command, NoCall, IsCall, FirstCall
  <2> QED
    BY <2>1 DEF CarriesItsOwn
<1>5. IsCall(NoCall) /\ CarriesItsOwn(NoCall, merged)
  BY DEF NoCall, IsCall, CarriesItsOwn
<1>6. Commands(calls, merged)
  BY <1>2, <1>3, <1>4, <1>5 DEF Commands
<1> QED
  BY <1>1, <1>6 DEF UIInv, PromptIsAsked

\* The invariant: a prompt on show is the one that was opened, and every merge under
\* way is of the pull request of the task it is for.
THEOREM UIInvariance == TUISpec => []UIInv
<1>1. Init /\ TUIInit => UIInv
  BY UIInitially
<1>2. UIInv /\ [TUINext]_tuivars => UIInv'
  BY StepKeeps
<1> QED
  BY <1>1, <1>2, PTL DEF TUISpec

\* A flow does what it was opened for: whatever lists, details and errors arrive between
\* the key that opens a prompt and the key that answers it, the command that is started
\* is for the task the prompt was opened on.
THEOREM PromptsAreKept == TUISpec => ActsAsAsked
<1>1. UIInv /\ [TUINext]_tuivars =>
        [\A s \in Slot :
            calls[s].at = "none" /\ calls'[s].op \in Flow =>
                calls'[s].op = asked.mode /\ calls'[s].on = asked.on]_tuivars
  BY StepKeeps DEF StartsWhatWasAsked
<1> QED
  BY <1>1, UIInvariance, PTL DEF TUISpec, ActsAsAsked

\* The merge flow never records a task as done whose own pull request was not merged,
\* whatever the operator looked at while the pull request was looked up.
THEOREM OwnPRIsMerged == TUISpec => MergesItsOwnPR
<1>1. UIInv =>
        [\A s \in Slot :
            /\ calls[s].op = "merge" /\ calls[s].at = "act"
            /\ task'[calls[s].on].state = "done" /\ task[calls[s].on].state # "done"
            => calls[s].on \in merged \/ calls'[s] = calls[s]]_tuivars
  <2> SUFFICES ASSUME UIInv, NEW s \in Slot, calls[s].op = "merge", calls[s].at = "act"
               PROVE  calls[s].on \in merged
    OBVIOUS
  <2> QED
    BY DEF UIInv, Commands, CarriesItsOwn
<1> QED
  BY <1>1, UIInvariance, PTL DEF TUISpec, MergesItsOwnPR

-----------------------------------------------------------------------------
(* The operators on lists.                                                 *)

\* Something a list has is found, by SelectInSeq, at a place where it is.
LEMMA PlaceInList ==
    ASSUME NEW list, Len(list) \in Nat, NEW x, Contains(list, x)
    PROVE  LET places == {i \in 1..Len(list) : list[i] = x}
           IN  places # {} /\ Min(places) \in places
<1> DEFINE places == {i \in 1..Len(list) : list[i] = x}
<1>1. places \in SUBSET Nat /\ places # {}
  BY DEF Contains
<1> HIDE DEF places
<1>2. \E m \in places : \A k \in places : m <= k
  BY <1>1, LeastNumber
<1>3. places # {} /\ Min(places) \in places
  BY <1>1, <1>2 DEF Min
<1> QED
  BY <1>3 DEF places

\* A part of a finite set has fewer members.
LEMMA PartIsSmaller ==
    ASSUME NEW S, IsFiniteSet(S), NEW T \in SUBSET S, T # S
    PROVE  IsFiniteSet(T) /\ Cardinality(T) \in 0..(Cardinality(S) - 1)
<1>1. /\ IsFiniteSet(T) /\ Cardinality(T) <= Cardinality(S)
      /\ Cardinality(T) # Cardinality(S)
  BY FS_Subset
<1>2. Cardinality(T) \in Nat /\ Cardinality(S) \in Nat
  BY <1>1, FS_CardinalityType
<1> QED
  BY <1>1, <1>2

\* InOrder lists the members of a set, each place having one of its own.
LEMMA InOrderLists ==
    ASSUME NEW S \in SUBSET Nat, IsFiniteSet(S)
    PROVE  InOrder(S) \in Seq(S) /\ Len(InOrder(S)) = Cardinality(S)
<1> DEFINE N == Cardinality(S)
           Below(n) == {m \in S : m < n}
           rank == [n \in S |-> Cardinality(Below(n))]
<1>1. N \in Nat
  BY FS_CardinalityType
<1>2. ASSUME NEW n \in S
      PROVE  IsFiniteSet(Below(n)) /\ rank[n] \in 0..(N - 1)
  <2>1. Below(n) \in SUBSET S /\ Below(n) # S
    OBVIOUS
  <2>2. IsFiniteSet(Below(n)) /\ Cardinality(Below(n)) \in 0..(N - 1)
    <3> HIDE DEF Below, rank
    <3> QED
      BY <2>1, PartIsSmaller
  <2> QED
    BY <2>2
<1>3. ASSUME NEW m \in S, NEW n \in S, m < n PROVE rank[m] # rank[n]
  <2>1. Below(m) \in SUBSET Below(n) /\ Below(m) # Below(n)
    <3>1. m \in Below(n) /\ m \notin Below(m)
      BY <1>3
    <3>2. ASSUME NEW k \in Below(m) PROVE k \in Below(n)
      <4>1. k \in Nat /\ m \in Nat /\ n \in Nat /\ k < m
        OBVIOUS
      <4>2. k < n
        BY <4>1, <1>3
      <4> QED
        BY <4>2
    <3> HIDE DEF Below
    <3> QED
      BY <3>1, <3>2
  <2>2. /\ Cardinality(Below(m)) \in 0..(Cardinality(Below(n)) - 1)
        /\ Cardinality(Below(n)) \in 0..(N - 1)
    <3>1. IsFiniteSet(Below(n)) /\ Cardinality(Below(n)) \in 0..(N - 1)
      BY <1>2
    <3> HIDE DEF Below, rank
    <3> QED
      BY <2>1, <3>1, PartIsSmaller
  <2>3. Cardinality(Below(m)) # Cardinality(Below(n))
    <3> HIDE DEF Below, rank
    <3> QED
      BY <2>2
  <2> QED
    BY <2>3
<1>4. rank \in Injection(S, 0..(N - 1))
  <2>1. rank \in [S -> 0..(N - 1)]
    BY <1>2
  <2>2. \A m, n \in S : m # n => m < n \/ n < m
    OBVIOUS
  <2>3. \A m, n \in S : rank[m] = rank[n] => m = n
    BY <1>3, <2>2
  <2> HIDE DEF rank, N
  <2> QED
    BY <2>1, <2>3 DEF Injection, IsInjective
<1>5. IsFiniteSet(0..(N - 1)) /\ Cardinality(0..(N - 1)) = N
  <2> HIDE DEF N
  <2>1. 0 \in Int /\ N - 1 \in Int
    BY <1>1
  <2>2. /\ IsFiniteSet(0..(N - 1))
        /\ Cardinality(0..(N - 1)) = IF 0 > N - 1 THEN 0 ELSE (N - 1) - 0 + 1
    BY <2>1, FS_Interval
  <2> QED
    BY <1>1, <2>2
<1>6. rank \in Surjection(S, 0..(N - 1))
  BY <1>4, <1>5, FS_Injection
<1>7. ASSUME NEW i \in 1..N
      PROVE  (CHOOSE n \in S : Cardinality({m \in S : m < n}) = i - 1) \in S
  <2>1. i - 1 \in 0..(N - 1)
    BY <1>1
  <2>2. PICK n \in S : rank[n] = i - 1
    <3> HIDE DEF rank
    <3> QED
      BY <1>6, <2>1 DEF Surjection
  <2> QED
    BY <2>2
<1>8. InOrder(S) \in [1..N -> S]
  BY <1>7 DEF InOrder
<1> HIDE DEF N
<1>9. InOrder(S) \in Seq(S) /\ Len(InOrder(S)) = N
  BY <1>1, <1>8
<1> QED
  BY <1>9 DEF N

-----------------------------------------------------------------------------
(* The invariant of the board model: what it names exists, of the table    *)
(* that grows meanwhile.                                                   *)

TaskOps == {"fetch", "promote"} \cup (Flow \ {"archive project"})
ProjectOps == {"projects", "archive project"}
OnTask == {"promote", "detail", "resolve"} \cup (Flow \ {"archive project"})

IsProjectList(list) == list \in Seq(ToSet(Project)) /\ Len(list) <= Len(Project)

\* A command makes the calls of its kind, for a row of the table, and has what they return.
CallOK(c, ids) ==
    /\ c.on \in ids \cup {NoTask}
    /\ c.op \in OnTask => c.on \in ids
    /\ c.at = "list" => c.op \in TaskOps
    /\ c.at = "list projects" => c.op \in ProjectOps
    /\ c.at = "get" => c.op = "detail"
    /\ c.at = "resolve" => c.op = "resolve"
    /\ c.at = "merge" => c.op = "merge"
    /\ c.at = "act" => c.op \in Flow \cup {"promote"}
    /\ c.at = "reply" => /\ c.op \in TaskOps => DOMAIN c.got \subseteq ids
                         /\ c.op \in ProjectOps => IsProjectList(c.got)
                         /\ c.op = "detail" => c.got.id \in ids
                         /\ c.op = "resolve" => c.got.pr \in ids
                         /\ c.op \in TaskOps \cup ProjectOps \cup {"detail", "resolve"}

CallsOK(cs, ids) == \A s \in Slot : CallOK(cs[s], ids)

BoardOK(u, ids) ==
    /\ u.project \in ToSet(Project) /\ IsProjectList(u.projects)
    /\ u.cursor \in 1..Len(Project)
    /\ DOMAIN u.tasks \subseteq ids
    /\ u.mode \in Mode
    /\ u.column \in 1..Len(stateOrder) /\ u.index \in Nat \ {0}
    /\ u.selected \in ids \cup {NoTask}
    /\ u.pending \in ids \cup {NoTask} /\ u.pendingPR \in ids \cup {NoTask}
    /\ u.mode \in Flow \ {"archive project"} => u.pending # NoTask
    /\ u.detail.id \in ids \cup {NoTask}
    /\ u.detail.state # "none" => u.detail.id # NoTask

\* SelectionIsOnTheBoard, of any board model.
Selects(u) ==
    IF InColumn(u) = <<>> THEN u.selected = NoTask \/ u.loading
    ELSE u.index \in 1..Len(InColumn(u)) /\ u.selected = InColumn(u)[u.index]

ServerOK ==
    /\ DOMAIN archived = {"tasks", "projects"}
    /\ archived.tasks \subseteq Id /\ merged \subseteq Id

ShowsOK(u) == IsUI(u) /\ BoardOK(u, Id) /\ Selects(u)

BoardInv ==
    /\ Inv /\ UIInv /\ ServerOK
    /\ ShowsOK(ui) /\ CallsOK(calls, Id)

-----------------------------------------------------------------------------
(* The column on show.                                                     *)

\* The column is a list of rows of the table.
LEMMA ColumnLists ==
    ASSUME NEW u, Len(task) \in Nat, DOMAIN u.tasks \subseteq Id
    PROVE  InColumn(u) \in Seq(Id) /\ Len(InColumn(u)) \in Nat
<1> DEFINE S == {t \in DOMAIN u.tasks : ColumnOf(u.tasks[t].state) = u.column}
<1>1. S \in SUBSET Id /\ S \in SUBSET Nat
  BY DEF Id
<1>2. IsFiniteSet(Id)
  BY FS_Interval DEF Id
<1>3. IsFiniteSet(S)
  <2> HIDE DEF S
  <2> QED
    BY <1>1, <1>2, FS_Subset
<1>4. InOrder(S) \in Seq(S)
  <2> HIDE DEF S
  <2> QED
    BY <1>1, <1>3, InOrderLists
<1>5. InOrder(S) \in Seq(Id)
  <2> HIDE DEF S
  <2> QED
    BY <1>1, <1>4, SeqMonotonic
<1> QED
  BY <1>5, LenProperties DEF InColumn

\* The column depends on the list and the number of the column only.
LEMMA SameColumn ==
    ASSUME NEW u, NEW v, v.tasks = u.tasks, v.column = u.column
    PROVE  InColumn(v) = InColumn(u)
  BY DEF InColumn

\* What else of the board model changes is none of the selection's business.
SameSelection(v, u) ==
    /\ v.tasks = u.tasks /\ v.column = u.column /\ v.index = u.index
    /\ v.selected = u.selected /\ v.loading = u.loading

\* A change beside the list.
LEMMA SelectionStays ==
    ASSUME NEW u, NEW v, Selects(u), SameSelection(v, u)
    PROVE  Selects(v)
  BY SameColumn DEF Selects, SameSelection

\* No list has been loaded yet.
LEMMA NothingToSelect ==
    ASSUME NEW u, u.tasks = Nothing, u.selected = NoTask \/ u.loading
    PROVE  Selects(u)
<1> DEFINE S == {t \in DOMAIN u.tasks : ColumnOf(u.tasks[t].state) = u.column}
<1>1. S = {}
  BY DEF Nothing
<1>2. Len(InOrder(S)) = 0 /\ InOrder(S) \in Seq(S)
  BY <1>1, FS_EmptySet, InOrderLists
<1>3. InOrder(S) = <<>>
  BY <1>1, <1>2, EmptySeq
<1>4. InColumn(u) = <<>>
  BY <1>3 DEF InColumn
<1> QED
  BY <1>4 DEF Selects

\* ensureSelectionInColumn selects a row of the column, if it has one.
LEMMA EnsureSelects ==
    ASSUME NEW u, IsUI(u), BoardOK(u, Id), Len(task) \in Nat
    PROVE  ShowsOK(EnsureSelection(u))
<1> DEFINE list == InColumn(u)
           v(x, i) == [u EXCEPT !.selected = x, !.index = i]
           place == IF Contains(list, u.selected)
                    THEN SelectInSeq(list, LAMBDA t : t = u.selected)
                    ELSE Least(u.index, Len(list))
<1>1. list \in Seq(Id) /\ Len(list) \in Nat
  BY ColumnLists DEF BoardOK
<1>2. ASSUME NEW x \in Id \cup {NoTask}, NEW i \in Nat \ {0}
      PROVE  /\ IsUI(v(x, i)) /\ BoardOK(v(x, i), Id)
             /\ v(x, i).selected = x /\ v(x, i).index = i
             /\ InColumn(v(x, i)) = list
  <2>1. /\ IsUI(v(x, i)) /\ v(x, i).selected = x /\ v(x, i).index = i
        /\ v(x, i).tasks = u.tasks /\ v(x, i).column = u.column
    BY DEF IsUI, NewBoardModel
  <2>2. BoardOK(v(x, i), Id)
    BY DEF IsUI, NewBoardModel, BoardOK
  <2> QED
    BY <2>1, <2>2, SameColumn
<1>3. CASE list = <<>>
  <2>1. EnsureSelection(u) = v(NoTask, 1)
    BY <1>3 DEF EnsureSelection
  <2> HIDE DEF v, list
  <2>2. NoTask \in Id \cup {NoTask} /\ 1 \in Nat \ {0}
    OBVIOUS
  <2>3. /\ IsUI(v(NoTask, 1)) /\ BoardOK(v(NoTask, 1), Id)
        /\ v(NoTask, 1).selected = NoTask /\ InColumn(v(NoTask, 1)) = <<>>
    BY <1>2, <1>3, <2>2
  <2>4. Selects(v(NoTask, 1))
    BY <2>3 DEF Selects
  <2> QED
    BY <2>1, <2>3, <2>4 DEF ShowsOK
<1>4. CASE list # <<>>
  <2>1. EnsureSelection(u) = v(list[place], place)
    BY <1>4 DEF EnsureSelection
  <2>2. Len(list) > 0
    BY <1>1, <1>4, EmptySeq
  <2>3. place \in 1..Len(list)
    <3>1. CASE Contains(list, u.selected)
      <4>1. place = SelectInSeq(list, LAMBDA t : t = u.selected)
        BY <3>1
      <4> HIDE DEF list, place
      <4>2. SelectInSeq(list, LAMBDA t : t = u.selected) \in 1..Len(list)
        BY <1>1, <3>1, PlaceInList DEF SelectInSeq
      <4> QED
        BY <4>1, <4>2
    <3>2. CASE ~Contains(list, u.selected)
      <4>1. u.index \in Nat \ {0}
        BY DEF BoardOK
      <4> HIDE DEF list
      <4> QED
        BY <1>1, <2>2, <3>2, <4>1 DEF Least
    <3> QED
      BY <3>1, <3>2
  <2> HIDE DEF v, list, place
  <2>4. list[place] \in Id \cup {NoTask} /\ place \in Nat \ {0}
    BY <1>1, <2>3, ElementOfSeq
  <2> DEFINE w == v(list[place], place)
  <2>5. /\ IsUI(w) /\ BoardOK(w, Id) /\ InColumn(w) = list
        /\ w.selected = list[place] /\ w.index = place
    BY <1>2, <2>4
  <2> HIDE DEF w
  <2>6. Selects(w)
    BY <1>4, <2>3, <2>5 DEF Selects
  <2> QED
    BY <2>1, <2>5, <2>6 DEF ShowsOK, w
<1> QED
  BY <1>3, <1>4

-----------------------------------------------------------------------------
(* The board model, key by key and result by result.                       *)

\* The modes without a prompt.
LEMMA QuietModes ==
    \A mode \in {"normal", "detail", "switch"} : mode \in Mode /\ mode \notin Flow
  BY DEF Mode, Flow

\* What changes beside the list and the selection.
LEMMA BesideTheList ==
    ASSUME ShowsOK(ui), NEW u, IsUI(u), BoardOK(u, Id), SameSelection(u, ui)
    PROVE  ShowsOK(u)
  BY SelectionStays DEF ShowsOK

\* Going to a mode without a prompt.
LEMMA ModeShows ==
    ASSUME NEW u, ShowsOK(u), NEW mode \in {"normal", "detail", "switch"}
    PROVE  ShowsOK([u EXCEPT !.mode = mode])
<1> DEFINE v == [u EXCEPT !.mode = mode]
<1>1. mode \in Mode /\ mode \notin Flow
  BY QuietModes
<1>2. IsUI(v) /\ SameSelection(v, u)
  BY DEF ShowsOK, IsUI, NewBoardModel, SameSelection
<1>3. BoardOK(v, Id)
  BY <1>1 DEF ShowsOK, IsUI, NewBoardModel, BoardOK
<1> QED
  BY <1>2, <1>3, SelectionStays DEF ShowsOK

\* A list that arrives is shown with one of its rows selected.
LEMMA ListShows ==
    ASSUME ShowsOK(ui), Len(task) \in Nat, NEW tasks, DOMAIN tasks \subseteq Id
    PROVE  ShowsOK(WithTasks(ui, tasks))
<1> DEFINE v == [ui EXCEPT !.tasks = tasks, !.loading = FALSE]
<1>1. IsUI(v)
  BY DEF ShowsOK, IsUI, NewBoardModel
<1>2. BoardOK(v, Id)
  BY DEF ShowsOK, IsUI, NewBoardModel, BoardOK
<1>3. WithTasks(ui, tasks) = EnsureSelection(v)
  BY DEF WithTasks
<1> HIDE DEF v
<1> QED
  BY <1>1, <1>2, <1>3, EnsureSelects

\* The cursor stays in the list of projects.
LEMMA CursorShows ==
    ASSUME NEW list, IsProjectList(list), NEW p, NEW i \in 1..Len(Project)
    PROVE  CursorAt(list, p, i) \in 1..Len(Project)
<1>1. Len(list) \in Nat /\ Len(list) <= Len(Project) /\ Len(Project) \in Nat
  BY LenProperties, ProjectAssumption DEF IsProjectList
<1>2. CASE Contains(list, p)
  <2>1. CursorAt(list, p, i) \in 1..Len(list)
    BY <1>1, <1>2, PlaceInList DEF CursorAt, SelectInSeq
  <2> QED
    BY <1>1, <2>1
<1>3. CASE ~Contains(list, p)
  BY <1>3 DEF CursorAt
<1> QED
  BY <1>2, <1>3

\* Arrows and the cursor of the switcher.
LEMMA ArrowShows ==
    ASSUME ShowsOK(ui), Len(task) \in Nat, Arrow
    PROVE  ShowsOK(ui')
<1> USE DEF ShowsOK
<1>1. ASSUME NEW step \in {-1, 1}, Column(step) PROVE ShowsOK(ui')
  <2> DEFINE v == [ui EXCEPT !.column = @ + step, !.index = 1]
  <2>1. IsUI(v)
    BY DEF IsUI, NewBoardModel
  <2>2. BoardOK(v, Id)
    <3>1. ui.column + step \in 1..Len(stateOrder)
      BY <1>1 DEF Column
    <3>2. /\ v.project = ui.project /\ v.projects = ui.projects
          /\ v.cursor = ui.cursor /\ v.tasks = ui.tasks /\ v.mode = ui.mode
          /\ v.column = ui.column + step /\ v.index = 1
          /\ v.selected = ui.selected /\ v.detail = ui.detail
          /\ v.pending = ui.pending /\ v.pendingPR = ui.pendingPR
      BY DEF IsUI, NewBoardModel
    <3>3. BoardOK(ui, Id) /\ 1 \in Nat \ {0}
      OBVIOUS
    <3> HIDE DEF v, ShowsOK
    <3> QED
      BY <3>1, <3>2, <3>3 DEF BoardOK
  <2>3. ui' = EnsureSelection(v)
    BY <1>1 DEF Column
  <2> HIDE DEF v, ShowsOK
  <2> QED
    BY <2>1, <2>2, <2>3, EnsureSelects
<1>2. ASSUME NEW step \in {-1, 1}, Select(step) PROVE ShowsOK(ui')
  <2> DEFINE list == InColumn(ui)
             i == ui.index + step
             v == [ui EXCEPT !.selected = list[i], !.index = i]
  <2>1. i \in 1..Len(list) /\ ui' = v
    BY <1>2 DEF Select
  <2>2. list \in Seq(Id) /\ Len(list) \in Nat
    BY ColumnLists DEF BoardOK
  <2>3. list[i] \in Id /\ i \in Nat \ {0}
    <3> HIDE DEF i, list
    <3> QED
      BY <2>1, <2>2, ElementOfSeq
  <2>4. /\ IsUI(v) /\ v.tasks = ui.tasks /\ v.column = ui.column
        /\ v.selected = list[i] /\ v.index = i
    BY DEF IsUI, NewBoardModel
  <2>5. BoardOK(v, Id)
    <3> HIDE DEF i, list
    <3> QED
      BY <2>3 DEF IsUI, NewBoardModel, BoardOK
  <2>6. InColumn(v) = list
    <3> HIDE DEF v, i
    <3> QED
      BY <2>4, SameColumn
  <2>7. list # <<>>
    <3> HIDE DEF list, i
    <3> QED
      BY <2>1, <2>2, EmptySeq
  <2> HIDE DEF v, i, list
  <2> QED
    BY <2>1, <2>4, <2>5, <2>6, <2>7 DEF Selects
<1>3. ASSUME NEW step \in {-1, 1}, MoveCursor(step) PROVE ShowsOK(ui')
  <2>1. ui.cursor + step \in 1..Len(Project)
    <3>1. IF step < 0 THEN ui.cursor > 1 ELSE ui.cursor < Len(ui.projects)
      BY <1>3 DEF MoveCursor, CanMove
    <3>2. /\ Len(ui.projects) \in Nat /\ Len(ui.projects) <= Len(Project)
          /\ Len(Project) \in Nat /\ ui.cursor \in 1..Len(Project)
      BY LenProperties, ProjectAssumption DEF BoardOK, IsProjectList
    <3> QED
      BY <3>1, <3>2
  <2>2. ui' = [ui EXCEPT !.cursor = @ + step]
    BY <1>3 DEF MoveCursor
  <2>3. IsUI(ui') /\ SameSelection(ui', ui)
    BY <2>2 DEF IsUI, NewBoardModel, SameSelection
  <2>4. BoardOK(ui', Id)
    BY <2>1, <2>2 DEF IsUI, NewBoardModel, BoardOK
  <2> QED
    BY <2>3, <2>4, SelectionStays
<1> QED
  BY <1>1, <1>2, <1>3 DEF Arrow

\* A prompt that closes.
LEMMA CancelShows ==
    ASSUME ShowsOK(ui)
    PROVE  ShowsOK(Cancelled(ui))
<1> DEFINE v == Cancelled(ui)
<1>1. v.mode \in {"normal", "detail"} /\ IsUI(v) /\ SameSelection(v, ui)
  BY DEF ShowsOK, Cancelled, IsUI, NewBoardModel, SameSelection
<1>2. v.mode \in Mode /\ v.mode \notin Flow
  BY <1>1, QuietModes
<1>3. BoardOK(v, Id)
  <2>1. /\ v.project = ui.project /\ v.projects = ui.projects /\ v.cursor = ui.cursor
        /\ v.tasks = ui.tasks /\ v.column = ui.column /\ v.index = ui.index
        /\ v.selected = ui.selected /\ v.detail = ui.detail
        /\ v.pending = NoTask /\ v.pendingPR = NoTask
    BY DEF ShowsOK, Cancelled, IsUI, NewBoardModel
  <2> HIDE DEF v
  <2> QED
    BY <1>2, <2>1 DEF ShowsOK, BoardOK
<1> HIDE DEF v
<1>4. ShowsOK(v)
  BY <1>1, <1>3, BesideTheList
<1> QED
  BY <1>4 DEF v

\* What a prompt does not change.
SameView(v, u) ==
    /\ v.project = u.project /\ v.projects = u.projects /\ v.cursor = u.cursor
    /\ v.detail = u.detail /\ SameSelection(v, u)

\* A prompt that opens, for a row of the table.
LEMMA PromptShows ==
    ASSUME ShowsOK(ui), NEW v, IsUI(v), SameView(v, ui), v.mode \in Flow,
           v.pending \in Id \cup {NoTask}, v.pendingPR \in Id \cup {NoTask},
           v.mode # "archive project" => v.pending # NoTask
    PROVE  ShowsOK(v)
<1>1. v.mode \in Mode
  BY DEF Mode
<1>2. BoardOK(v, Id)
  BY <1>1 DEF ShowsOK, BoardOK, SameView, SameSelection
<1> QED
  BY <1>2, BesideTheList DEF SameView

-----------------------------------------------------------------------------
(* The commands.                                                           *)

\* The rows a command was given stay.
LEMMA CallStays ==
    ASSUME NEW c, NEW ids, NEW more, ids \subseteq more, CallOK(c, ids)
    PROVE  CallOK(c, more)
  BY DEF CallOK

\* One command changes.
LEMMA OneCall ==
    ASSUME DOMAIN calls = Slot, CallsOK(calls, Id), Id \subseteq Id', NEW s \in Slot,
           NEW c, CallOK(c, Id'), calls' = [calls EXCEPT ![s] = c]
    PROVE  CallsOK(calls', Id')
<1>1. \A r \in Slot : calls'[r] = IF r = s THEN c ELSE calls[r]
  OBVIOUS
<1>2. ASSUME NEW r \in Slot PROVE CallOK(calls[r], Id')
  <2>1. CallOK(calls[r], Id)
    BY DEF CallsOK
  <2>2. Id \subseteq Id'
    OBVIOUS
  <2> QED
    BY <2>1, <2>2, CallStays
<1> QED
  BY <1>1, <1>2 DEF CallsOK

\* What Update starts, but for the answer to a prompt.
LEMMA NewCommand ==
    ASSUME NEW op \in {"fetch", "projects", "detail", "resolve", "promote"}, NEW ids,
           NEW on \in ids \cup {NoTask},
           on \in ids \/ op \in {"fetch", "projects"}
    PROVE  CallOK(Command(op, on), ids)
<1> DEFINE c == Command(op, on)
<1>1. c.op = op /\ c.on = on /\ c.at = FirstCall(op)
  BY DEF Command, NoCall
<1>2. /\ op = "fetch" => FirstCall(op) = "list"
      /\ op = "projects" => FirstCall(op) = "list projects"
      /\ op = "detail" => FirstCall(op) = "get"
      /\ op = "resolve" => FirstCall(op) = "resolve"
      /\ op = "promote" => FirstCall(op) = "act"
  BY DEF FirstCall
<1> HIDE DEF c
<1>3. CallOK(c, ids)
  BY <1>1, <1>2 DEF CallOK, TaskOps, ProjectOps, OnTask, Flow
<1> QED
  BY <1>3 DEF c

\* The answer to a prompt.
LEMMA AnsweredPrompt ==
    ASSUME ui.mode \in Flow, BoardOK(ui, Id)
    PROVE  CallOK(Confirmed(ui), Id)
<1> DEFINE c == Confirmed(ui)
           on == IF ui.mode = "archive project" THEN NoTask ELSE ui.pending
<1>1. c.op = ui.mode /\ c.on = on /\ c.at = FirstCall(ui.mode)
  BY DEF Confirmed, Command, NoCall
<1>2. FirstCall(ui.mode) = IF ui.mode = "merge" THEN "merge" ELSE "act"
  BY DEF FirstCall, Flow
<1>3. on \in Id \cup {NoTask} /\ (ui.mode # "archive project" => on \in Id)
  BY DEF BoardOK
<1> HIDE DEF c, on
<1>4. CallOK(c, Id)
  BY <1>1, <1>2, <1>3 DEF CallOK, OnTask, Flow
<1> QED
  BY <1>4 DEF c

\* A slot without a command.
LEMMA NoCallOK == ASSUME NEW ids PROVE CallOK(NoCall, ids)
<1>1. NoCall.op = "none" /\ NoCall.at = "none" /\ NoCall.on = NoTask
  BY DEF NoCall
<1> QED
  BY <1>1 DEF CallOK, OnTask, Flow

\* A command that was started leaves the others.
LEMMA StartedOK ==
    ASSUME DOMAIN calls = Slot, CallsOK(calls, Id), Id' = Id,
           NEW c, CallOK(c, Id), Starts(c)
    PROVE  CallsOK(calls', Id')
<1>1. PICK s \in Slot : calls' = [calls EXCEPT ![s] = c]
  BY DEF Starts, FreeSlots
<1> QED
  BY <1>1, OneCall

\* The next call of a command is of its kind.
NextCall(c, at) ==
    \/ at = "failed"
    \/ at = "act" /\ c.op \in Flow \cup {"promote"}
    \/ at = "list" /\ c.op \in TaskOps
    \/ at = "list projects" /\ c.op \in ProjectOps

\* A command that goes on.
LEMMA GoesOK ==
    ASSUME UIInv, CallsOK(calls, Id), Id \subseteq Id', NEW s \in Slot, NEW at,
           NextCall(calls[s], at), Goes(s, at)
    PROVE  CallsOK(calls', Id')
<1> DEFINE c == [calls[s] EXCEPT !.at = at]
<1>1. IsCall(calls[s]) /\ DOMAIN calls = Slot /\ CallOK(calls[s], Id)
  BY DEF UIInv, Commands, CallsOK
<1>2. calls' = [calls EXCEPT ![s] = c]
  BY DEF Goes
<1>3. c.op = calls[s].op /\ c.on = calls[s].on /\ c.at = at
  BY <1>1 DEF IsCall, NoCall
<1> HIDE DEF c
<1>4. CallOK(c, Id')
  BY <1>1, <1>3 DEF CallOK, NextCall
<1> QED
  BY <1>1, <1>2, <1>4, OneCall

\* A command that ends.
LEMMA EndsOK ==
    ASSUME UIInv, CallsOK(calls, Id), Id \subseteq Id', NEW s \in Slot, Ends(s)
    PROVE  CallsOK(calls', Id')
<1>1. DOMAIN calls = Slot /\ calls' = [calls EXCEPT ![s] = NoCall]
  BY DEF UIInv, Commands, Ends
<1>2. CallOK(NoCall, Id')
  BY NoCallOK
<1> QED
  BY <1>1, <1>2, OneCall

\* A result is what its command asked for.
Result(c, got) ==
    /\ c.op \in TaskOps => DOMAIN got \subseteq Id
    /\ c.op \in ProjectOps => IsProjectList(got)
    /\ c.op = "detail" => got.id \in Id
    /\ c.op = "resolve" => got.pr \in Id
    /\ c.op \in TaskOps \cup ProjectOps \cup {"detail", "resolve"}

\* A result that is there.
LEMMA ReturnsOK ==
    ASSUME UIInv, CallsOK(calls, Id), Id' = Id, NEW s \in Slot, NEW got,
           Result(calls[s], got), Returns(s, got)
    PROVE  CallsOK(calls', Id')
<1> DEFINE c == [calls[s] EXCEPT !.at = "reply", !.got = got]
<1>1. IsCall(calls[s]) /\ DOMAIN calls = Slot /\ CallOK(calls[s], Id)
  BY DEF UIInv, Commands, CallsOK
<1>2. calls' = [calls EXCEPT ![s] = c]
  BY <1>1 DEF Returns
<1>3. c.op = calls[s].op /\ c.on = calls[s].on /\ c.at = "reply" /\ c.got = got
  BY <1>1 DEF IsCall, NoCall
<1> HIDE DEF c
<1>4. CallOK(c, Id)
  BY <1>1, <1>3 DEF CallOK, Result
<1> QED
  BY <1>1, <1>2, <1>4, OneCall

-----------------------------------------------------------------------------
(* The lists the server returns.                                           *)

\* A project's rows are rows of the table.
LEMMA ListedRows == ASSUME NEW p PROVE DOMAIN Listed(p) \subseteq Id
<1> DEFINE shown == {t \in Id :
            /\ ProjectOf(t) = p /\ t \notin archived.tasks
            /\ ColumnOf(task[t].state) # 0
            /\ task[t].state = "done" => task[t].kind = "implement"}
<1>1. DOMAIN Listed(p) = shown
  BY DEF Listed
<1> QED
  BY <1>1

\* The projects that are left are some of the projects.
LEMMA ListedProjects == IsProjectList(ListProjects)
<1> DEFINE S == {i \in DOMAIN Project : Project[i] \notin archived.projects}
           places == InOrder(S)
           N == Len(Project)
<1>1. Project \in Seq(ToSet(Project)) /\ N \in Nat /\ DOMAIN Project = 1..N
  BY ProjectAssumption, LenProperties
<1>2. S \in SUBSET Nat /\ S \in SUBSET (1..N)
  BY <1>1
<1>3. IsFiniteSet(1..N) /\ Cardinality(1..N) = N
  <2> HIDE DEF N
  <2>1. 1 \in Int /\ N \in Int
    BY <1>1
  <2>2. IsFiniteSet(1..N) /\ Cardinality(1..N) = IF 1 > N THEN 0 ELSE N - 1 + 1
    BY <2>1, FS_Interval
  <2> QED
    BY <1>1, <2>2
<1>4. IsFiniteSet(S) /\ Cardinality(S) <= N
  <2> HIDE DEF S, N
  <2> QED
    BY <1>2, <1>3, FS_Subset
<1>5. places \in Seq(S) /\ Len(places) = Cardinality(S)
  <2> HIDE DEF S
  <2> QED
    BY <1>2, <1>4, InOrderLists
<1>6. /\ Len(places) \in Nat /\ DOMAIN places = 1..Len(places)
      /\ \A i \in 1..Len(places) : places[i] \in 1..N
  <2> HIDE DEF S, places
  <2> QED
    BY <1>2, <1>5, LenProperties, ElementOfSeq
<1> DEFINE list == [i \in DOMAIN places |-> Project[places[i]]]
<1>7. list \in [1..Len(places) -> ToSet(Project)]
  <2> HIDE DEF places
  <2>1. ASSUME NEW i \in 1..Len(places) PROVE Project[places[i]] \in ToSet(Project)
    BY <1>1, <1>6 DEF ToSet
  <2> QED
    BY <1>6, <2>1
<1>8. list \in Seq(ToSet(Project)) /\ Len(list) = Len(places)
  <2> HIDE DEF list, places
  <2> QED
    BY <1>6, <1>7
<1>9. ListProjects = list
  BY DEF ListProjects
<1> HIDE DEF list, places, S
<1> QED
  BY <1>4, <1>5, <1>8, <1>9 DEF IsProjectList

-----------------------------------------------------------------------------
(* Keys.                                                                   *)

\* A step of the board model, which leaves the table alone, ends well.
ViewOK == ShowsOK(ui') /\ CallsOK(calls', Id')

\* What such a step starts from.
Before ==
    /\ UIInv /\ ShowsOK(ui) /\ CallsOK(calls, Id) /\ DOMAIN calls = Slot
    /\ Len(task) \in Nat /\ NoTask \notin Id /\ Id' = Id

\* Esc closes what is open.
LEMMA EscShows == ASSUME Before, Esc PROVE ViewOK
<1>1. calls' = calls
  BY DEF Esc, CloseDetail, CloseSwitch, Cancel, Quietly
<1>2. CASE CloseDetail \/ CloseSwitch
  <2>1. ui' = [ui EXCEPT !.mode = "normal"]
    BY <1>2 DEF CloseDetail, CloseSwitch
  <2> QED
    BY <1>1, <2>1, ModeShows DEF Before, ViewOK
<1>3. CASE Cancel
  BY <1>1, <1>3, CancelShows DEF Cancel, Before, ViewOK
<1> QED
  BY <1>2, <1>3 DEF Esc

\* The project of the cursor is one of the projects.
LEMMA ProjectAtCursor ==
    ASSUME BoardOK(ui, Id), ui.cursor <= Len(ui.projects)
    PROVE  ui.projects[ui.cursor] \in ToSet(Project)
<1>1. ui.projects \in Seq(ToSet(Project)) /\ Len(ui.projects) \in Nat
  BY LenProperties DEF BoardOK, IsProjectList
<1>2. Len(Project) \in Nat /\ ui.cursor \in 1..Len(Project)
  BY LenProperties, ProjectAssumption DEF BoardOK
<1>3. ui.cursor \in 1..Len(ui.projects)
  BY <1>1, <1>2
<1> QED
  BY <1>1, <1>3, ElementOfSeq

\* Every column has its place.
LEMMA Columns == ColumnOf("in_progress") \in 1..Len(stateOrder)
<1> DEFINE list == stateOrder
<1>1. Len(list) = 9 /\ list[3] = "in_progress"
  BY DEF stateOrder
<1>2. Contains(list, "in_progress") /\ Len(list) \in Nat
  BY <1>1 DEF Contains
<1> HIDE DEF list
<1>3. ColumnOf("in_progress") = SelectInSeq(list, LAMBDA s : s = "in_progress")
  BY DEF ColumnOf, list
<1>4. SelectInSeq(list, LAMBDA s : s = "in_progress") \in 1..Len(list)
  BY <1>2, PlaceInList DEF SelectInSeq
<1> QED
  BY <1>3, <1>4 DEF list

\* A board that has just been switched to a project.
LEMMA EmptyBoardShows ==
    ASSUME ShowsOK(ui), NEW v, IsUI(v), v.project \in ToSet(Project), v.tasks = Nothing,
           v.loading, IsProjectList(v.projects), v.cursor = ui.cursor,
           v.column \in 1..Len(stateOrder), v.index \in Nat \ {0},
           v.selected \in {ui.selected, NoTask}, v.pending = ui.pending,
           v.pendingPR = ui.pendingPR, v.mode \in {ui.mode, "normal"},
           v.detail \in {ui.detail, NoDetail}
    PROVE  ShowsOK(v)
<1>1. Selects(v)
  BY NothingToSelect
<1>2. DOMAIN v.tasks \subseteq Id
  BY DEF Nothing
<1>3. "normal" \in Mode /\ "normal" \notin Flow /\ NoDetail.id = NoTask
      /\ NoDetail.state = "none"
  BY QuietModes DEF NoDetail
<1>4. BoardOK(v, Id)
  BY <1>2, <1>3 DEF ShowsOK, BoardOK
<1> QED
  BY <1>1, <1>4 DEF ShowsOK

\* Keys that leave the board as it is and start a command.
LEMMA FetchKeyShows ==
    ASSUME Before, Refresh \/ Promote \/ ResolvePR \/ OpenDetail
    PROVE  ViewOK
<1>1. ShowsOK(ui')
  <2>1. ui' = ui \/ ui' = [ui EXCEPT !.mode = "detail"]
    BY DEF Refresh, Promote, ResolvePR, OpenDetail
  <2> QED
    BY <2>1, ModeShows DEF Before
<1>2. BoardOK(ui, Id)
  BY DEF Before, ShowsOK
<1>3. PICK op \in {"fetch", "projects", "detail", "resolve", "promote"},
           on \in Id \cup {NoTask} :
        /\ Starts(Command(op, on))
        /\ on \in Id \/ op \in {"fetch", "projects"}
  <2>1. CASE Refresh
    BY <2>1 DEF Refresh, WithCommand
  <2>2. CASE Promote
    BY <2>2, <1>2 DEF Promote, WithCommand, BoardOK
  <2>3. CASE ResolvePR
    BY <2>3, <1>2 DEF ResolvePR, WithCommand, BoardOK
  <2>4. CASE OpenDetail
    BY <2>4, <1>2 DEF OpenDetail, WithCommand, BoardOK
  <2> QED
    BY <2>1, <2>2, <2>3, <2>4
<1>4. CallOK(Command(op, on), Id)
  BY <1>3, NewCommand
<1> QED
  BY <1>1, <1>3, <1>4, StartedOK DEF Before, ViewOK

\* The project switcher opens.
LEMMA SwitcherShows == ASSUME Before, OpenSwitch PROVE ViewOK
<1> DEFINE at == CursorAt(ui.projects, ui.project, 1)
<1>1. at \in 1..Len(Project)
  <2>1. Len(Project) \in Nat \ {0}
    BY ProjectAssumption, EmptySeq
  <2>2. 1 \in 1..Len(Project)
    BY <2>1
  <2>3. IsProjectList(ui.projects)
    BY DEF Before, ShowsOK, BoardOK
  <2> QED
    BY <2>2, <2>3, CursorShows
<1>2. ui' = [ui EXCEPT !.mode = "switch", !.cursor = at]
  BY DEF OpenSwitch
<1>3. IsUI(ui') /\ SameSelection(ui', ui)
  BY <1>2 DEF Before, ShowsOK, IsUI, NewBoardModel, SameSelection
<1>4. BoardOK(ui', Id)
  <2> HIDE DEF at
  <2>1. /\ ui'.project = ui.project /\ ui'.projects = ui.projects
        /\ ui'.cursor = at /\ ui'.mode = "switch" /\ ui'.detail = ui.detail
        /\ ui'.pending = ui.pending /\ ui'.pendingPR = ui.pendingPR
    BY <1>2 DEF Before, ShowsOK, IsUI, NewBoardModel
  <2> QED
    BY <1>1, <1>3, <2>1, QuietModes DEF Before, ShowsOK, BoardOK, SameSelection
<1>5. ShowsOK(ui')
  BY <1>3, <1>4, SelectionStays DEF Before, ShowsOK
<1>6. CallOK(Command("projects", NoTask), Id) /\ Starts(Command("projects", NoTask))
  BY NewCommand DEF OpenSwitch, WithCommand
<1> QED
  BY <1>5, <1>6, StartedOK DEF Before, ViewOK

\* Another project is shown.
LEMMA SwitchShows == ASSUME Before, SwitchProject PROVE ViewOK
<1> DEFINE p == ui.projects[ui.cursor]
<1>1. p \in ToSet(Project)
  BY ProjectAtCursor DEF Before, ShowsOK, SwitchProject
<1>2. CASE p = ui.project
  <2>1. ui' = [ui EXCEPT !.mode = "normal"] /\ calls' = calls
    BY <1>2 DEF SwitchProject, Quietly
  <2> QED
    BY <2>1, ModeShows DEF Before, ViewOK
<1>3. CASE p # ui.project
  <2>1. /\ ui' = [ui EXCEPT
                    !.project = p, !.tasks = Nothing, !.selected = NoTask, !.index = 1,
                    !.column = ColumnOf("in_progress"), !.detail = NoDetail,
                    !.mode = "normal", !.loading = TRUE]
        /\ Starts(Command("fetch", NoTask))
    BY <1>3 DEF SwitchProject, WithCommand
  <2> HIDE DEF p
  <2>2. /\ IsUI(ui') /\ ui'.project = p /\ ui'.tasks = Nothing /\ ui'.loading
        /\ ui'.projects = ui.projects /\ ui'.cursor = ui.cursor
        /\ ui'.column = ColumnOf("in_progress") /\ ui'.index = 1
        /\ ui'.selected = NoTask /\ ui'.pending = ui.pending
        /\ ui'.pendingPR = ui.pendingPR /\ ui'.mode = "normal" /\ ui'.detail = NoDetail
    BY <2>1 DEF Before, ShowsOK, IsUI, NewBoardModel
  <2>3. IsProjectList(ui.projects)
    BY DEF Before, ShowsOK, BoardOK
  <2>4. ShowsOK(ui')
    <3> DEFINE v == ui'
    <3> HIDE DEF v
    <3>1. ShowsOK(ui) /\ IsProjectList(v.projects) /\ 1 \in Nat \ {0}
      BY <2>2, <2>3 DEF Before, v
    <3>2. /\ IsUI(v) /\ v.project = p /\ v.tasks = Nothing /\ v.loading
          /\ v.cursor = ui.cursor /\ v.column \in 1..Len(stateOrder) /\ v.index = 1
          /\ v.selected = NoTask /\ v.pending = ui.pending
          /\ v.pendingPR = ui.pendingPR /\ v.mode = "normal" /\ v.detail = NoDetail
      BY <2>2, Columns DEF v
    <3>3. ShowsOK(v)
      BY <1>1, <3>1, <3>2, EmptyBoardShows
    <3> QED
      BY <3>3 DEF v
  <2>5. CallOK(Command("fetch", NoTask), Id)
    BY NewCommand
  <2> QED
    BY <2>1, <2>4, <2>5, StartedOK DEF Before, ViewOK
<1> QED
  BY <1>2, <1>3

\* A prompt opens.
LEMMA OpeningShows ==
    ASSUME Before,
           \/ OpenArchiveProject
           \/ \E flow \in Flow : OpenFlow(flow) \/ OpenFlowFromDetail(flow)
    PROVE  ViewOK
<1>1. calls' = calls
  BY DEF OpenArchiveProject, OpenFlow, OpenFlowFromDetail
<1>2. IsUI(ui) /\ BoardOK(ui, Id)
  BY DEF Before, ShowsOK
<1>3. /\ IsUI(ui') /\ SameView(ui', ui) /\ ui'.mode \in Flow
      /\ ui'.pending \in Id \cup {NoTask} /\ ui'.pendingPR \in Id \cup {NoTask}
      /\ ui'.mode # "archive project" => ui'.pending # NoTask
  <2>1. CASE OpenArchiveProject
    <3>1. /\ IsUI(ui') /\ SameView(ui', ui) /\ ui'.mode = "archive project"
          /\ ui'.pending = ui.pending /\ ui'.pendingPR = ui.pendingPR
      BY <2>1, <1>2 DEF OpenArchiveProject, IsUI, NewBoardModel, SameView, SameSelection
    <3> QED
      BY <3>1, <1>2 DEF BoardOK, Flow
  <2>2. ASSUME NEW flow \in Flow, OpenFlow(flow)
        PROVE  /\ IsUI(ui') /\ SameView(ui', ui) /\ ui'.mode = flow
               /\ ui'.pending \in Id /\ ui'.pendingPR \in Id \cup {NoTask}
    <3>1. ui' = [ui EXCEPT !.mode = flow, !.pending = ui.selected]
      BY <2>2 DEF OpenFlow, Opens
    <3>2. /\ IsUI(ui') /\ SameView(ui', ui) /\ ui'.mode = flow
          /\ ui'.pending = ui.selected /\ ui'.pendingPR = ui.pendingPR
      BY <3>1, <1>2 DEF IsUI, NewBoardModel, SameView, SameSelection
    <3> QED
      BY <2>2, <3>2, <1>2 DEF OpenFlow, BoardOK
  <2>3. ASSUME NEW flow \in Flow, OpenFlowFromDetail(flow)
        PROVE  /\ IsUI(ui') /\ SameView(ui', ui) /\ ui'.mode = flow
               /\ ui'.pending \in Id /\ ui'.pendingPR \in Id \cup {NoTask}
    <3>1. ui.detail.id \in Id
      BY <2>3, <1>2 DEF OpenFlowFromDetail, BoardOK
    <3>2. \/ ui' = [[ui EXCEPT !.fromDetail = TRUE] EXCEPT
                        !.mode = flow, !.pending = ui.detail.id]
          \/ ui' = [[ui EXCEPT !.fromDetail = TRUE, !.pendingPR = ui.detail.id] EXCEPT
                        !.mode = flow, !.pending = ui.detail.id]
      BY <2>3 DEF OpenFlowFromDetail, Opens
    <3>3. /\ IsUI(ui') /\ SameView(ui', ui) /\ ui'.mode = flow
          /\ ui'.pending = ui.detail.id /\ ui'.pendingPR \in {ui.pendingPR, ui.detail.id}
      BY <3>2, <1>2 DEF IsUI, NewBoardModel, SameView, SameSelection
    <3> QED
      BY <3>1, <3>3, <1>2 DEF BoardOK
  <2>4. NoTask \notin Id
    BY DEF Before
  <2> QED
    BY <2>1, <2>2, <2>3, <2>4
<1>4. ShowsOK(ui')
  BY <1>3, PromptShows DEF Before
<1> QED
  BY <1>1, <1>4 DEF Before, ViewOK

\* The answer to a prompt.
LEMMA ConfirmShows == ASSUME Before, Confirm PROVE ViewOK
<1>1. /\ ui.mode \in Flow /\ ui' = Cancelled(ui) /\ Starts(Confirmed(ui))
  BY DEF Confirm, WithCommand
<1>2. ShowsOK(ui')
  BY <1>1, CancelShows DEF Before
<1>3. CallOK(Confirmed(ui), Id)
  BY <1>1, AnsweredPrompt DEF Before, ShowsOK
<1> QED
  BY <1>1, <1>2, <1>3, StartedOK DEF Before, ViewOK

-----------------------------------------------------------------------------
(* Results.                                                                *)

\* A result arrives.
LEMMA DeliverShows ==
    ASSUME Before, NEW s \in Slot, Deliver(s)
    PROVE  ViewOK
<1> DEFINE c == calls[s]
<1>1. /\ c.at = "reply" /\ CallOK(c, Id) /\ IsUI(ui) /\ BoardOK(ui, Id)
      /\ ShowsOK(ui) /\ Len(task) \in Nat /\ NoTask \notin Id
  BY DEF Before, CallsOK, Deliver, ShowsOK
<1>2. Ends(s) => CallsOK(calls', Id')
  BY EndsOK DEF Before
<1> HIDE DEF c
<1>3. ASSUME NEW projects, IsProjectList(projects), c.op = "archive project",
             OnProjectArchived(s, projects)
      PROVE  ViewOK
  <2>1. CASE ui' = [ui EXCEPT !.projects = projects, !.mode = "normal"] /\ Ends(s)
    <3>1. /\ IsUI(ui') /\ SameSelection(ui', ui) /\ ui'.project = ui.project
          /\ ui'.projects = projects /\ ui'.cursor = ui.cursor /\ ui'.mode = "normal"
          /\ ui'.pending = ui.pending /\ ui'.pendingPR = ui.pendingPR
          /\ ui'.detail = ui.detail
      BY <1>1, <2>1 DEF IsUI, NewBoardModel, SameSelection
    <3>2. BoardOK(ui', Id)
      BY <1>1, <1>3, <3>1, QuietModes DEF BoardOK, SameSelection
    <3> QED
      BY <1>1, <1>2, <2>1, <3>1, <3>2, SelectionStays DEF ShowsOK, ViewOK, Before
  <2>2. CASE /\ projects # <<>>
             /\ ui' = [ui EXCEPT !.projects = projects, !.project = Head(projects),
                                 !.tasks = Nothing, !.loading = TRUE]
             /\ calls' = [calls EXCEPT ![s] = Command("fetch", NoTask)]
    <3> DEFINE v == ui'
    <3>1. /\ IsUI(v) /\ v.project = Head(projects) /\ v.tasks = Nothing /\ v.loading
          /\ v.projects = projects /\ v.cursor = ui.cursor /\ v.column = ui.column
          /\ v.index = ui.index /\ v.selected = ui.selected /\ v.pending = ui.pending
          /\ v.pendingPR = ui.pendingPR /\ v.mode = ui.mode /\ v.detail = ui.detail
      BY <1>1, <2>2 DEF IsUI, NewBoardModel
    <3>2. Head(projects) \in ToSet(Project)
      BY <1>3, <2>2, HeadTailProperties DEF IsProjectList
    <3> HIDE DEF v
    <3>3. v.column \in 1..Len(stateOrder) /\ v.index \in Nat \ {0}
      BY <1>1, <3>1 DEF BoardOK
    <3>4. ShowsOK(v)
      BY <1>1, <1>3, <3>1, <3>2, <3>3, EmptyBoardShows
    <3>5. CallOK(Command("fetch", NoTask), Id)
      BY NewCommand
    <3> USE DEF Before
    <3>6. CallsOK(calls', Id')
      BY <2>2, <3>5, OneCall
    <3> QED
      BY <3>4, <3>6 DEF ViewOK, v
  <2> QED
    BY <1>3, <2>1, <2>2 DEF OnProjectArchived
<1>4. CASE c.op = "archive project"
  <2>1. IsProjectList(c.got) /\ OnProjectArchived(s, c.got)
    BY <1>1, <1>4 DEF CallOK, ProjectOps, Deliver, c
  <2> QED
    BY <1>3, <1>4, <2>1
<1>5. CASE c.op # "archive project"
  <2>1. /\ Ends(s)
        /\ ui' = CASE c.op \in {"fetch", "promote"} -> WithTasks(ui, c.got)
                   [] c.op = "projects" -> OnProjects(c.got)
                   [] c.op = "detail" -> [ui EXCEPT !.detail = c.got]
                   [] c.op = "resolve" -> MergePrompt(c)
                   [] OTHER -> OnAction(c, WithTasks(ui, c.got))
    BY <1>5 DEF Deliver, c
  <2>2. c.op \in TaskOps => ShowsOK(WithTasks(ui, c.got))
    BY <1>1, ListShows DEF CallOK
  <2>3. CASE c.op \in {"fetch", "promote"}
    <3>1. c.op \in TaskOps
      BY <2>3 DEF TaskOps
    <3> QED
      BY <1>2, <2>1, <2>2, <2>3, <3>1 DEF ViewOK, Before
  <2>4. CASE c.op = "projects"
    <3>1. IsProjectList(c.got)
      BY <1>1, <2>4 DEF CallOK, ProjectOps
    <3> DEFINE at == IF ui.mode = "switch" THEN CursorAt(c.got, ui.project, ui.cursor)
                     ELSE ui.cursor
    <3>2. at \in 1..Len(Project)
      BY <1>1, <3>1, CursorShows DEF BoardOK
    <3>3. ui' = [ui EXCEPT !.projects = c.got, !.cursor = at]
      BY <2>1, <2>4 DEF OnProjects
    <3> HIDE DEF at
    <3>4. /\ IsUI(ui') /\ SameSelection(ui', ui) /\ ui'.project = ui.project
          /\ ui'.projects = c.got /\ ui'.cursor = at /\ ui'.mode = ui.mode
          /\ ui'.pending = ui.pending /\ ui'.pendingPR = ui.pendingPR
          /\ ui'.detail = ui.detail
      BY <1>1, <3>3 DEF IsUI, NewBoardModel, SameSelection
    <3>5. BoardOK(ui', Id)
      BY <1>1, <3>1, <3>2, <3>4 DEF BoardOK, SameSelection
    <3> QED
      BY <1>1, <1>2, <2>1, <3>4, <3>5, SelectionStays DEF ShowsOK, ViewOK, Before
  <2>5. CASE c.op = "detail"
    <3>1. c.got.id \in Id
      BY <1>1, <2>5 DEF CallOK
    <3>2. ui' = [ui EXCEPT !.detail = c.got]
      BY <2>1, <2>5
    <3>3. /\ IsUI(ui') /\ SameSelection(ui', ui) /\ ui'.project = ui.project
          /\ ui'.projects = ui.projects /\ ui'.cursor = ui.cursor
          /\ ui'.mode = ui.mode /\ ui'.pending = ui.pending
          /\ ui'.pendingPR = ui.pendingPR /\ ui'.detail = c.got
      BY <1>1, <3>2 DEF IsUI, NewBoardModel, SameSelection
    <3>4. BoardOK(ui', Id)
      BY <1>1, <3>1, <3>3 DEF BoardOK, SameSelection
    <3> QED
      BY <1>1, <1>2, <2>1, <3>3, <3>4, SelectionStays DEF ShowsOK, ViewOK, Before
  <2>6. CASE c.op = "resolve"
    <3>1. c.on \in Id /\ c.got.pr \in Id
      BY <1>1, <2>6 DEF CallOK, OnTask
    <3>2. ui' = MergePrompt(c)
      BY <2>1, <2>6
    <3>3. /\ IsUI(ui') /\ SameView(ui', ui) /\ ui'.mode = "merge"
          /\ ui'.pending = c.on /\ ui'.pendingPR = c.got.pr
      BY <1>1, <3>2 DEF MergePrompt, IsUI, NewBoardModel, SameView, SameSelection
    <3>4. ui'.mode \in Flow
      BY <3>3 DEF Flow
    <3>5. ShowsOK(ui')
      BY <1>1, <3>1, <3>3, <3>4, PromptShows
    <3> QED
      BY <1>2, <2>1, <3>5 DEF ViewOK, Before
  <2>7. CASE c.op \notin {"fetch", "promote", "projects", "detail", "resolve"}
    <3>1. c.op \in TaskOps
      BY <1>1, <1>5, <2>7 DEF CallOK, ProjectOps
    <3>2. ui' = OnAction(c, WithTasks(ui, c.got))
      BY <2>1, <2>7
    <3>3. ShowsOK(OnAction(c, WithTasks(ui, c.got)))
      BY <2>2, <3>1, ModeShows DEF OnAction
    <3> QED
      BY <1>2, <2>1, <3>2, <3>3 DEF ViewOK, Before
  <2> QED
    BY <2>3, <2>4, <2>5, <2>6, <2>7
<1> QED
  BY <1>4, <1>5

\* An error arrives.
LEMMA FailureShows ==
    ASSUME Before, NEW s \in Slot, DeliverFailure(s)
    PROVE  ViewOK
<1>1. ui' = ui \/ ui' = [ui EXCEPT !.mode = "normal"]
  BY DEF DeliverFailure, OnAction
<1>2. ShowsOK(ui')
  BY <1>1, ModeShows DEF Before
<1>3. CallsOK(calls', Id')
  BY EndsOK DEF Before, DeliverFailure
<1> QED
  BY <1>2, <1>3 DEF Before, ViewOK

-----------------------------------------------------------------------------
(* The server.                                                             *)

\* The command makes a call: on the server that is one of the board's own actions, on
\* a row of the table, or none of the board's business.
LEMMA RunningWorks ==
    ASSUME UIInv, ServerOK, CallsOK(calls, Id), DOMAIN calls = Slot,
           NEW s \in Slot, Running(s)
    PROVE  /\ [Next]_vars
           /\ Id \subseteq Id' => ServerOK' /\ CallsOK(calls', Id')
<1> DEFINE c == calls[s]
<1>1. CallOK(c, Id) /\ CarriesItsOwn(c, merged)
  BY DEF CallsOK, UIInv, Commands
<1> HIDE DEF c
<1>2. CASE MergePR(s)
  <2>1. c.at = "merge" /\ c.op = "merge" /\ c.on \in Id /\ c.pr = c.on
    BY <1>1, <1>2 DEF MergePR, CallOK, CarriesItsOwn, OnTask, Flow, c
  <2>2. /\ merged' \in {merged, merged \cup {c.pr}} /\ UNCHANGED <<task, archived>>
        /\ Goes(s, "act") \/ Goes(s, "list")
    BY <1>2 DEF MergePR, c
  <2>3. NextCall(c, "act") /\ NextCall(c, "list")
    BY <2>1 DEF NextCall, TaskOps, Flow
  <2>4. Id \subseteq Id' => CallsOK(calls', Id')
    BY <2>2, <2>3, GoesOK DEF c
  <2>5. ServerOK'
    BY <2>1, <2>2 DEF ServerOK, Id
  <2> QED
    BY <2>2, <2>4, <2>5 DEF vars
<1>3. CASE Act(s)
  <2>1. c.at = "act" /\ c.op \in TaskOps /\ c.on \in Id /\ merged' = merged
    BY <1>1, <1>3 DEF Act, CallOK, OnTask, TaskOps, c
  <2>2. Goes(s, "list") \/ Ends(s)
    BY <1>3 DEF Act, c
  <2>3. NextCall(c, "list")
    BY <2>1 DEF NextCall
  <2>4. Id \subseteq Id' => CallsOK(calls', Id')
    BY <2>2, <2>3, GoesOK, EndsOK DEF c
  <2>5. \/ UNCHANGED <<task, archived>>
        \/ Accepted(c.op, c.on)
    BY <1>3 DEF Act, c
  <2>6. ASSUME NEW op \in TaskOps, NEW t \in Id, Accepted(op, t)
        PROVE  /\ [Next]_vars
               /\ \/ archived' = archived
                  \/ archived' = [archived EXCEPT !.tasks = @ \cup {t}] /\ task' = task
    <3>1. CASE PromoteTask(t) /\ UNCHANGED archived
      BY <3>1 DEF Next
    <3>2. CASE op \in {"approve", "reject", "merge", "bounce", "unblock", "fail"}
               /\ TransitionTask(t, TargetState(op)) /\ UNCHANGED archived
      <4>1. TargetState(op) \in State
        BY <3>2 DEF TargetState, State
      <4>2. \E to \in State : TransitionTask(t, to)
        BY <3>2, <4>1
      <4> QED
        BY <3>2, <4>2 DEF Next
    <3>3. CASE (HoldTask(t) \/ ReleaseTask(t)) /\ UNCHANGED archived
      BY <3>3 DEF Next
    <3>4. CASE archived' = [archived EXCEPT !.tasks = @ \cup {t}] /\ UNCHANGED task
      BY <3>4 DEF vars
    <3> QED
      BY <2>6, <3>1, <3>2, <3>3, <3>4 DEF Accepted
  <2>7. /\ [Next]_vars
        /\ \/ archived' = archived
           \/ archived' = [archived EXCEPT !.tasks = @ \cup {c.on}] /\ task' = task
    BY <2>1, <2>5, <2>6 DEF vars
  <2>8. Id \subseteq Id' => ServerOK'
    BY <2>1, <2>7 DEF ServerOK
  <2> QED
    BY <2>4, <2>7, <2>8
<1>4. CASE ArchiveProject(s)
  <2>1. /\ c.op = "archive project" /\ Goes(s, "list projects") /\ UNCHANGED <<task, merged>>
        /\ archived' = [archived EXCEPT !.projects = @ \cup {c.project}]
    BY <1>4 DEF ArchiveProject, c
  <2>2. NextCall(c, "list projects")
    BY <2>1 DEF NextCall, ProjectOps
  <2>3. Id \subseteq Id' => CallsOK(calls', Id')
    BY <2>1, <2>2, GoesOK DEF c
  <2>4. ServerOK'
    BY <2>1 DEF ServerOK, Id
  <2> QED
    BY <2>1, <2>3, <2>4 DEF vars
<1>5. CASE Fetch(s)
  <2>1. UNCHANGED <<task, archived, merged>>
    BY <1>5 DEF Fetch
  <2>2. Id' = Id /\ ServerOK'
    BY <2>1 DEF Id, ServerOK
  <2>3. ASSUME NEW got, Returns(s, got), Result(c, got) PROVE CallsOK(calls', Id')
    BY <2>2, <2>3, ReturnsOK DEF c
  <2>4. CASE c.at = "list" /\ Returns(s, Listed(ui.project))
    <3>1. Result(c, Listed(ui.project))
      BY <1>1, <2>4, ListedRows DEF CallOK, Result, TaskOps, ProjectOps, Flow
    <3> QED
      BY <2>1, <2>2, <2>3, <2>4, <3>1 DEF vars
  <2>5. CASE c.at = "list projects" /\ Returns(s, ListProjects)
    <3>1. Result(c, ListProjects)
      BY <1>1, <2>5, ListedProjects DEF CallOK, Result, TaskOps, ProjectOps, Flow
    <3> QED
      BY <2>1, <2>2, <2>3, <2>5, <3>1 DEF vars
  <2>6. CASE c.at = "get" /\ \E got : got.id = c.on /\ Returns(s, got)
    <3>1. PICK got : got.id = c.on /\ Returns(s, got)
      BY <2>6
    <3>2. Result(c, got)
      BY <1>1, <2>6, <3>1 DEF CallOK, Result, OnTask, TaskOps, ProjectOps, Flow
    <3> QED
      BY <2>1, <2>2, <2>3, <3>1, <3>2 DEF vars
  <2>7. CASE c.at = "resolve" /\ \E got : got.pr = c.on /\ Returns(s, got)
    <3>1. PICK got : got.pr = c.on /\ Returns(s, got)
      BY <2>7
    <3>2. Result(c, got)
      BY <1>1, <2>7, <3>1 DEF CallOK, Result, OnTask, TaskOps, ProjectOps, Flow
    <3> QED
      BY <2>1, <2>2, <2>3, <3>1, <3>2 DEF vars
  <2>8. c.at = "get" => \E got : got.id = c.on /\ Returns(s, got)
    BY <1>5 DEF Fetch, c
  <2>9. c.at = "resolve" => \E got : got.pr = c.on /\ Returns(s, got)
    BY <1>5 DEF Fetch, c
  <2> QED
    BY <1>5, <2>4, <2>5, <2>6, <2>7, <2>8, <2>9 DEF Fetch, c
<1>6. CASE CallFails(s)
  <2>1. /\ UNCHANGED <<task, archived, merged>>
        /\ \/ Goes(s, "list") /\ c.at \in {"merge", "act"} /\ c.op # "archive project"
           \/ Goes(s, "failed") \/ Ends(s)
    BY <1>6 DEF CallFails, c
  <2>2. c.at \in {"merge", "act"} /\ c.op # "archive project" => NextCall(c, "list")
    BY <1>1 DEF CallOK, NextCall, TaskOps, Flow
  <2>3. NextCall(c, "failed")
    BY DEF NextCall
  <2>4. Id \subseteq Id' => CallsOK(calls', Id')
    BY <2>1, <2>2, <2>3, GoesOK, EndsOK DEF c
  <2> QED
    BY <2>1, <2>4 DEF ServerOK, Id, vars
<1> QED
  BY <1>2, <1>3, <1>4, <1>5, <1>6 DEF Running, CommandStep

-----------------------------------------------------------------------------
(* The theorems about the board.                                           *)

\* The rows an open board names stay.
LEMMA BoardStays ==
    ASSUME NEW u, NEW ids, NEW more, ids \subseteq more, BoardOK(u, ids)
    PROVE  BoardOK(u, more)
  BY DEF BoardOK

\* Every message, and every step of the server or of others, preserves the invariant,
\* and is a step of the board or leaves it.
LEMMA BoardKept ==
    ASSUME BoardInv, [TUINext]_tuivars
    PROVE  BoardInv' /\ [Next]_vars
<1>1. /\ UIInv' /\ Inv /\ UIInv /\ ServerOK /\ ShowsOK(ui) /\ CallsOK(calls, Id)
      /\ DOMAIN calls = Slot /\ Len(task) \in Nat /\ NoTask \notin Id
  BY StepKeeps, LenProperties
     DEF BoardInv, CallsOK, UIInv, Commands, Inv, WellFormed, Id, NoTask
<1>2. ASSUME [Next]_vars
      PROVE  Inv' /\ Id \subseteq Id'
  BY <1>1, <1>2, RowsStay DEF Id
<1>3. ASSUME UNCHANGED server
      PROVE  Before /\ [Next]_vars /\ Inv' /\ ServerOK' /\ Id' = Id
  BY <1>1, <1>2, <1>3 DEF server, vars, Before, ServerOK, Id
<1>4. ASSUME ShowsOK(ui'), CallsOK(calls', Id'), ServerOK', Inv', Id' = Id
      PROVE  BoardInv'
  BY <1>1, <1>4 DEF BoardInv, ShowsOK, CallsOK
<1>5. ASSUME [Next]_vars, UNCHANGED ui, ServerOK', CallsOK(calls', Id')
      PROVE  BoardInv'
  <2>1. Inv' /\ Id \subseteq Id'
    BY <1>2, <1>5
  <2>2. IsUI(ui) /\ BoardOK(ui, Id) /\ Selects(ui)
    BY <1>1 DEF ShowsOK
  <2>3. BoardOK(ui, Id')
    BY <2>1, <2>2, BoardStays
  <2>4. ui' = ui
    BY <1>5
  <2>5. Selects(ui')
    BY <2>2, <2>4
  <2> QED
    BY <1>1, <1>5, <2>1, <2>2, <2>3, <2>4, <2>5 DEF BoardInv, ShowsOK, CallsOK
<1>6. CASE UNCHANGED server /\ ViewOK
  BY <1>3, <1>4, <1>6 DEF ViewOK
<1>7. CASE UNCHANGED tuivars \/ Others
  <2>1. [Next]_vars /\ UNCHANGED <<archived, merged, ui, calls>>
    BY <1>7 DEF tuivars, Others, vars
  <2>2. Id \subseteq Id'
    BY <1>2, <2>1
  <2>3. ServerOK'
    BY <1>1, <2>1, <2>2 DEF ServerOK
  <2>4. ASSUME NEW s \in Slot PROVE CallOK(calls[s], Id')
    <3>1. CallOK(calls[s], Id)
      BY <1>1 DEF CallsOK
    <3> QED
      BY <2>2, <3>1, CallStays
  <2>5. CallsOK(calls', Id')
    BY <2>1, <2>4 DEF CallsOK
  <2> QED
    BY <1>5, <2>1, <2>3, <2>5
<1>8. CASE Arrow
  <2>1. Quietly
    BY <1>8 DEF Arrow, Column, Select, MoveCursor
  <2>2. UNCHANGED server /\ calls' = calls
    BY <2>1 DEF Quietly
  <2>3. Before
    BY <1>3, <2>2
  <2>4. ViewOK
    BY <1>8, <2>2, <2>3, ArrowShows DEF Before, ViewOK
  <2> QED
    BY <1>6, <2>2, <2>4
<1>9. CASE Esc
  <2>1. UNCHANGED server
    BY <1>9 DEF Esc, CloseDetail, CloseSwitch, Cancel, Quietly
  <2> QED
    BY <1>3, <1>6, <1>9, <2>1, EscShows
<1>10. CASE Key
  <2>1. UNCHANGED server
    BY <1>10 DEF Key, Refresh, OpenDetail, Promote, OpenSwitch, ResolvePR, SwitchProject,
                 OpenArchiveProject, Confirm, OpenFlow, OpenFlowFromDetail, WithCommand,
                 Quietly
  <2>2. Before
    BY <1>3, <2>1
  <2>3. ViewOK
    BY <1>10, <2>2, FetchKeyShows, SwitcherShows, SwitchShows, OpeningShows, ConfirmShows
       DEF Key
  <2> QED
    BY <1>6, <2>1, <2>3
<1>11. CASE Tick
  <2>1. UNCHANGED server /\ ui' = ui /\ Starts(Command("fetch", NoTask))
    BY <1>11 DEF Tick, RearmsTick
  <2>2. Before
    BY <1>3, <2>1
  <2>3. CallOK(Command("fetch", NoTask), Id)
    BY NewCommand
  <2>4. ViewOK
    BY <2>1, <2>2, <2>3, StartedOK DEF Before, ViewOK
  <2> QED
    BY <1>6, <2>1, <2>4
<1>12. ASSUME NEW s \in Slot, Running(s)
       PROVE  BoardInv' /\ [Next]_vars
  <2>1. UNCHANGED ui
    BY <1>12 DEF Running
  <2>2. /\ [Next]_vars
        /\ Id \subseteq Id' => ServerOK' /\ CallsOK(calls', Id')
    BY <1>1, <1>12, RunningWorks
  <2>3. Id \subseteq Id'
    BY <1>2, <2>2
  <2> QED
    BY <1>5, <2>1, <2>2, <2>3
<1>13. ASSUME NEW s \in Slot, Deliver(s) \/ DeliverFailure(s)
       PROVE  BoardInv' /\ [Next]_vars
  <2>1. UNCHANGED server
    BY <1>13 DEF Deliver, DeliverFailure
  <2> QED
    BY <1>3, <1>6, <1>13, <2>1, DeliverShows, FailureShows
<1> QED
  BY <1>7, <1>8, <1>9, <1>10, <1>11, <1>12, <1>13 DEF TUINext

\* The invariant of the board model: its lists, prompts and commands are about rows of
\* the table, and what is selected is on show.
THEOREM BoardInvariance == TUISpec => []BoardInv
<1>1. Init /\ TUIInit => BoardInv
  <2> SUFFICES ASSUME Init, TUIInit PROVE BoardInv
    OBVIOUS
  <2>1. Inv
    BY EmptyTable
  <2>2. UIInv
    BY UIInitially
  <2>3. ServerOK
    BY DEF TUIInit, ServerOK
  <2>4. IsUI(ui) /\ ui = NewBoardModel
    BY DEF TUIInit, IsUI
  <2>5. Selects(ui)
    <3>1. ui.tasks = Nothing /\ ui.selected = NoTask
      BY <2>4 DEF NewBoardModel
    <3> QED
      BY <3>1, NothingToSelect
  <2>6. BoardOK(ui, Id)
    <3>1. Head(Project) \in ToSet(Project) /\ Len(Project) \in Nat \ {0}
      BY ProjectAssumption, HeadTailProperties, EmptySeq
    <3>2. IsProjectList(<<>>)
      BY <3>1, EmptySeq DEF IsProjectList
    <3>3. 1 \in 1..Len(Project) /\ 1 \in Nat \ {0}
      BY <3>1
    <3>4. "normal" \in Mode /\ "normal" \notin Flow
      BY QuietModes
    <3>5. /\ ui.project = Head(Project) /\ ui.projects = <<>> /\ ui.cursor = 1
          /\ ui.tasks = <<>> /\ ui.mode = "normal" /\ ui.column = ColumnOf("in_progress")
          /\ ui.index = 1 /\ ui.selected = NoTask /\ ui.pending = NoTask
          /\ ui.pendingPR = NoTask /\ ui.detail.id = NoTask /\ ui.detail.state = "none"
      BY <2>4 DEF NewBoardModel, Nothing, NoDetail
    <3>6. DOMAIN ui.tasks \subseteq Id
      BY <3>5
    <3> QED
      BY <3>1, <3>2, <3>3, <3>4, <3>5, <3>6, Columns DEF BoardOK
  <2>7. ASSUME NEW s \in Slot PROVE CallOK(calls[s], Id)
    <3>1. \/ calls[s] = Command("fetch", NoTask)
          \/ calls[s] = Command("projects", NoTask)
          \/ calls[s] = NoCall
      BY DEF TUIInit
    <3>2. /\ CallOK(Command("fetch", NoTask), Id)
          /\ CallOK(Command("projects", NoTask), Id)
      BY NewCommand
    <3> QED
      BY <3>1, <3>2, NoCallOK
  <2> QED
    BY <2>1, <2>2, <2>3, <2>4, <2>5, <2>6, <2>7 DEF BoardInv, ShowsOK, CallsOK
<1>2. BoardInv /\ [TUINext]_tuivars => BoardInv'
  BY BoardKept
<1> QED
  BY <1>1, <1>2, PTL DEF TUISpec

\* The terminal UI changes the table only as the store lets everybody: with its board
\* left out, what happens is a behaviour of the task board, so every guarantee proved
\* of the board holds with any number of operators' commands on their way.
THEOREM OperatorsUseTheBoard == TUISpec => Spec
<1>1. BoardInv /\ [TUINext]_tuivars => [Next]_vars
  BY BoardKept
<1> QED
  BY <1>1, BoardInvariance, PTL DEF TUISpec, Spec

\* The board names tasks and projects that exist, and a prompt always has its task.
THEOREM BoardTypeCorrect == TUISpec => []TUITypeOK
<1>1. BoardInv => TUITypeOK
  BY DEF BoardInv, ServerOK, ShowsOK, BoardOK, CallsOK, CallOK, TUITypeOK
<1> QED
  BY <1>1, BoardInvariance, PTL

\* Whatever lists, details and errors arrive in whatever order, the selected task is in
\* the column on show, at the position the arrow keys start from.
THEOREM SelectionStaysOnTheBoard == TUISpec => []SelectionIsOnTheBoard
<1>1. BoardInv => SelectionIsOnTheBoard
  BY DEF BoardInv, ShowsOK, Selects, SelectionIsOnTheBoard
<1> QED
  BY <1>1, BoardInvariance, PTL
=============================================================================

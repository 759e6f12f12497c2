# A verification project for odonian

odonian is a task board that a fleet of coding agents works from.  A planner
posts implementation tasks, workers claim them and submit pull requests,
reviewers are spawned for every submission and decide it together, mergers or
people finish what was approved, and a background reconciler watches the pull
requests.  All of them are separate processes; what they share is one SQLite
table behind an HTTP server.  These modules model that table, the protocol
around it, and what must stay true however the processes interleave, crash or
come late.

## Inventory

| part | state it keeps | operations | hard behaviour |
|---|---|---|---|
| task store (`internal/store/store.go`, `tiers.go`) | rows of `task`, `task_dep`, `task_link` | `CreateTasks`, `PromoteTask`, `ClaimTask`, `HeartbeatTask`, `SubmitTask`, `TransitionTask`, `SupersedeTask`, `HoldTask`, `ReleaseTask` | racing claims, lapsing leases, late verdicts, rounds, escalation, operators stepping in at any moment |
| dependency edits (`UpdateTaskDependsOn`, `cycle.go`) | `task_dep` | read the graph, check, write | the check and the write are separate database calls |
| event log, archive flag, projects, documents | `event`, `archived_at`, ... | append, prune, archive | nothing in a row's life reads them; archiving decides what the UI lists |
| HTTP API (`internal/api`) | none | one store call per request | none of its own |
| merger client (`executeMerge`) | none, the merge row is its memory | claim, squash merge, finish parent, finish merge row; or bounce and retire | a crash between any two, a parent that moved on, a conflict |
| PR-watch (`internal/prwatch`) | none | read approved rows, read the PR, finish, abandon or bounce; close stale PRs | what was read is stale when acted on, `updated_at` as approval time |
| notifier, runner (`internal/notify`, `internal/reconcile`) | none | publish per pass, tick | repeated publications under one dedup key |
| forge client (`internal/forge`) | GitHub's | merge, comment, close, list and acknowledge feedback | failures, retries after success |
| local commit mode (`internal/localcommit`, `approve`, `reject`) | git branches, worktrees | `wt-ensure`, commit or amend, freeze, clean up | interruption between the transition and git, two sessions in one worktree, rows that share a slug |
| harness (`harness/agent.sh`) | the slot's identity | poll, claim, run an agent | back-off, identity shared by restarts |
| terminal UI and its client (`cmd/odonian-tui`, `internal/tuiclient`) | the board model: lists, selection, mode, what a prompt is for | keys, poll ticks, results of commands | results that arrive late, in another mode, and overtake each other |

How they interact: workers, reviewers and mergers call the HTTP API, and each
handler makes one store call; PR-watch, inside the server, calls the store
directly; the store calls itself in one place (a rejection that escalates
supersedes the row in the same transaction).  The store opens its pool with one
connection (`Open`, `SetMaxOpenConns(1)`), so each transaction is atomic with
respect to every other, and one store method is one action here.

What makes each part correct:

* task store: nothing reaches `approved` without a unanimous round; a round
  number means one submission; a hold and an off-ramp win over verdicts on their
  way; a row has one heir; rework is bounded; work is never lost or stuck.
* dependency edits: the graph stays acyclic, nothing waits for a retired row.
* merger: one PR merge per approval, retries converge, no merge row is left over.
* PR-watch: a merged PR ends in `done`, a closed one in `abandoned`, a change
  request on an approved PR in a bounce, and a person's lock is respected.
* local commit: accepted commits are never lost, rework finds its worktree again,
  an MR branch only moves ahead.
* terminal UI: a prompt acts on what it was opened for, a task is recorded as merged
  only with its own pull request, polling goes on and shows the right project.

The hazards at their lines are listed in `PROJECT.json`.

## Modules

| module | role |
|---|---|
| `TaskBoard.tla` | the task table and the store's methods, one action each; the properties |
| `MCTaskBoard.tla` | the same for TLC: a budget for interventions, the fairness of the pollers, the liveness property |
| `MCBoard.tla`, `MC*.cfg` | values of the constants, one cfg per run |
| `TaskBoardProofs.tla` | theorems about `TaskBoard`, checked by TLAPS |
| `Panel.tla` | what the review gate promises of each piece of work: the abstract specification that `TaskBoard` implements |
| `Judging.tla`, `MCJudging.tla` | the refinement mapping from the rows to the panels; `MCBoard` next to it |
| `JudgingProofs.tla` | the theorem that the board implements `Panel` |
| `Dependencies.tla` | edits of the dependency graph next to every step of `TaskBoard`: its actions plus the two database calls of `UpdateTaskDependsOn` |
| `MCDependencies.tla` | the same for TLC: three planned rows, one or two editors |
| `TaskBoardOrder.tla` | nine theorems about `OrderlySpec`: what the board keeps while nobody cuts a review round short |
| `DependenciesProofs.tla` | the theorem about `Dependencies`, checked by TLAPS |
| `Cycle.tla`, `MCCycle.tla` | the recursive search of `cycle.go`, call by call; every edit of every graph on four rows |
| `CycleProofs.tla` | theorems about `Cycle`: the search is exact and its recursion bounded, on any finite graph |
| `Forge.tla` | `TaskBoard` with the rows' pull requests on GitHub, the forge client, and workers that push, acknowledge feedback and submit through the gate |
| `Merger.tla` | `Forge` with the runs of `odonian merge`, call by call |
| `PRWatch.tla` | `Forge` with the passes of the PR-watch reconciler, call by call |
| `Landing.tla` | `Merger` and `PRWatch` together with people on GitHub: from approval to the main branch |
| `Delivery.tla` | what the board promises of work that goes through a pull request: the abstract specification that `Landing` implements |
| `MCLanding.tla`, `LandingProofs.tla` | `Landing` for TLC, with its fairness and liveness; theorems about it: what lands, and that `Landing` implements `Delivery`, while the board is used in order |
| `LocalCommit.tla` | `TaskBoard` with the git branches and worktrees of local commit mode |
| `MCLocalCommit.tla`, `LocalCommitProofs.tla` | the same for TLC; theorems about it |
| `TUICommands.tla` | the state of the terminal UI and the commands that run beside it |
| `TerminalUI.tla` | the board model's `Update`, message by message, on top of `TUICommands` |
| `MCTerminalUI.tla`, `TerminalUIProofs.tla` | the same for TLC; theorems about it |

### TaskBoard and the code

The only variable is `task`, a sequence of row records; a row's id is its
position.  The code draws UUIDs: the model keeps what matters of them, that a new
id is fresh and that ids are compared for equality.  Columns and fields
correspond one to one: `kind`, `state`, `assignee` (`NoAgent` is NULL), `model`,
`reviewers` (`review_models`), `round` (`review_round`), `target`
(`target_task_id`), `verdict`, `held`, `agentMerge`, `escalate`, `supersededBy`;
`deps` and `links` are the row's `task_dep` and `task_link` rows, of which only
the kinds `pr` and `no_op` are ever read by a decision.

`lease` abstracts `lease_expires_at`: `none` is NULL, `live` a deadline in the
future, `lapsed` one in the past.  `LeaseLapses` is the clock passing it, and may
happen at any time: no assumption about how long work takes.

| action | code |
|---|---|
| `CreateTasks` | batch validation, key resolution (the last input of a repeated key wins), rows and edges |
| `PromoteTask`, `ClaimTask`, `HeartbeatTask` | the conditional UPDATEs of the same names; `Claimable` is `claimableSQL` |
| `SubmitWork`, `SubmitReview`, `SubmitMerge` | the three branches of `SubmitTask` by kind, each whole: the row's own UPDATE, the links, the spawned review rows, and for a verdict the tally and everything it causes to the row under review |
| `SupersedeTask` | the operator's call; `Supersession` is `supersedeTaskTx`, shared with the escalation in `Reject` |
| `TransitionTask`, `HoldTask`, `ReleaseTask` | the methods of the same names; `CanTransition` is the switch over target states |

`Aggregated` is the wait-for-all aggregation: it counts the rows of the row's
current round, so it decides that round whichever round the verdict belongs to.
That is what the code does, and several properties are about it.

`TransitionTask` may be called by anyone at any time in `Next`: by people, by
PR-watch (`done`, `abandoned`, `ready`), by a merger (`done`, `ready`, `failed`).

Left out: titles, specs, results, notes, tracks, timestamps, events, archiving,
projects and documents, on which no decision in these methods depends (what
archiving hides from the terminal UI is in `TUICommands`), and
`UpdateTaskDependsOn`, which is in `Dependencies`.  `AddReview` only appends
an event.  Errors that change nothing are disabled actions.

### Dependencies and the code

`Dependencies` extends `TaskBoard` with one variable, `edits`: the edits that were
checked and not yet written.  `CheckEdit` is the query that reads the graph, with
the refusal of an edge that closes a cycle; `WriteEdit` is the transaction that
replaces the row's dependencies (`setTaskDepends`); `DropEdit` is a client or
server that goes away in between.  Any step of the board may come between the
two.  `Editor` bounds how many edits are under way at once.

`WouldCreateCycle` is stated there by closed sets, which is what the search computes.
`Cycle` is the search itself as a state machine: `untried` is the loop of
`wouldCreateCycle`, `stack` the recursion of `dfs`, each call with the neighbours it has
left, and `visited` the one set that all calls of a search share.

| action | code |
|---|---|
| `Refuse`, `Search`, `Accept` | `wouldCreateCycle`: the dependency is the row itself; `isReachable` with nothing visited; the loop is over |
| `Reach`, `Revisit`, `Descend` | a call of `dfs` for the next neighbour: it is the target, it was visited, or it is marked and its own neighbours are tried |
| `Return` | no neighbour is left, the call answers false |

The neighbours come from a SELECT without an order and the new dependencies from a
request, so both are taken in any order.  `SearchIsExact` and `RefusalIsExact` say that
the answer is reachability by closed sets, and a refusal exactly a cycle avoided.

`PlannerAssumption` says that a planned batch has no cycle among
its own rows: `CreateTasks` checks only that no input names itself, and
`skills/odonian-breakdown/SKILL.md` makes the rest the planner's duty.

### Forge, Merger, PRWatch, Landing and the code

`pr` holds the pull request of each implement row that has one, seen through what
the forge client asks of GitHub.  `head` is the review round the last push was
for, so that "what was merged is what was reviewed" can be said without commits;
`clean` is a mergeable state that is neither dirty nor behind; `feedback` is what
`ListUnaddressedFeedback` would still return, by its two sources.  Review times are
compared with the row's `updated_at` in two places only, so a pull request carries
which of the two the latest review is `newer` than (`Restamped`: a write to the
row moves its `updated_at` past the review).  `stray` only remembers: an agent that is not
the row's assignee has pushed since the last hand-in.

`working` is the row each agent has a session for.  The harness claims, runs one session
and waits for it to end before it claims again (`dispatch` in `harness/agent.sh`), so an
agent has one session at most; but the session goes on whoever has its row by then, and
pushes when it likes: git asks no board, and the prompt has it push unchecked.  What a
session that lost its row cannot do is submit, which the store refuses.

| action | code |
|---|---|
| `StartWork`, `Push`, `Acknowledge`, `Submit`, `SubmitUnchecked`, `SessionEnds` | a worker's session, from its claim to its submission; `GatePasses` is `enforceFeedbackGate`, which lets a submission through when it cannot ask GitHub |
| `ClaimMerge`, `ReadRows`, `SquashMerge`, `PRMergeability`, `ConflictComment`, `BounceParent`, `Retire`, `FinishParent`, `FinishRow` | `executeMerge` and `bounceForRework`, one call to the board or GitHub each |
| `SquashMergeUnheard`, `RunEnds` | GitHub merges and the answer is lost; the run dies or a call fails |
| `ListApproved`, `LookAt`, `GetPRState`, `GetReviewDecision`, `ApplyMerged`, `ApplyAbandoned`, `BounceComment`, `ApplyBounce`, `SkipRow` | a PR-watch pass: the list, the two looks, the decision (`DecideAction`), the write; a failed call skips the row |
| `RetrofitLook`, `CloseSupersededPR`, `CloseFails`, `Supersede` | closing the pull requests of replaced and abandoned rows, by the retrofit or behind a supersession |
| `ServerRestarts` | the pass and the closings under way are gone |

`Landing` interleaves them all with the board and with what people do to pull
requests.  A merger whose lease lapsed is not stopped: another claims its row and both
go on.  Nor is a worker's session: it can push into the rework of its successor, under the
reviewers' eyes, and after the approval.

### LocalCommit and the code

A branch is its history on top of `origin/main`.  `mr`, `wip`, `worktree` and
`checkedOut` are git's refs and worktrees, `linked` the commit links of rows,
`session` and `verb` how far each agent's session and each running verb has got:
processes, which can stop or be overtaken anywhere, and of which no record is kept.
`objects`, `base`, `rewritten` and `lost` only remember: the commits made, where each wip
branch and its MR branch last met (at its branching, or at its last freeze), the commits
that took the place of a published one, and what an MR branch was moved away from.  Each
git command is a step of its own, so that a freeze can come between a submission's check
for a rework and the amend it decides on.

| action | code |
|---|---|
| `ResolveTip`, `AddWorktree` | `wt-ensure`: the tip's name is resolved, then git branches from what it is by then |
| `Edit`, `SubmitNoOp` | the session's work, or none |
| `ResolveTip`, `CheckRework`, `StageAll`, `CommitStaged`, `RevParse` | `submit`: `rev-parse` of the tip's name, `rev-list`, then `CommitAll` or `AmendAll`: `add -A`, `commit` or `commit --amend`, `rev-parse HEAD` |
| `SubmitCommit` | the board is asked, which may refuse |
| `ReadTask`, `Transition` | `approve`, `reject`, `reject --abandon`: read and check, transition |
| `FreezeOnly`, `FreezeGuard`, `FreezeAdvance`, `FreezeRemove`, `FreezeDelete` | the four steps of `Freeze` |
| `CleanupRemove`, `CleanupDelete` | `CleanupAbandon` |
| `SessionEnds`, `VerbEnds`, `Checkout` | interruptions, and a person with an MR branch checked out |

### TUICommands, TerminalUI and the code

Bubble Tea calls `Update` with one message at a time, so each message is one
action; the command that `Update` returns runs beside it, and each of its HTTP calls
is one action of `TUICommands` that reads or writes the board as it is by then.  `ui`
is the board model's fields; `asked` only remembers what the last prompt was opened
for.  `Deliver` is the result message of each command, `DeliverFailure` its error
message, `Tick` the poll.  A column is sorted by the ids, which stand for the titles; it
is written by rank (`InOrder`), since the provers know nothing of `SortSeq`.  `Others` is everything else that happens on the board.

| action | code |
|---|---|
| `Column`, `Select`, `MoveCursor`, `Refresh`, `OpenDetail`, `Promote`, `OpenSwitch`, `OpenFlow` | keys in the normal mode |
| `CloseDetail`, `OpenFlowFromDetail`, `ResolvePR` | keys in the detail view |
| `CloseSwitch`, `SwitchProject`, `OpenArchiveProject` | keys in the project switcher |
| `Confirm`, `Cancel` | the last key of a flow; the text entry between is left out |
| `MergePR`, `Act`, `ArchiveProject`, `Fetch`, `CallFails` | the calls of the commands |

### The instances

`MCTaskBoard` lets planner, workers, reviewers and mergers act freely and makes
every out-of-turn step of a person or of PR-watch cost from a budget,
`MaxInterventions`.  Stepping in on review and merge rows costs one more than on
an implement row, superseding one more again, so that the budget is spent where
the protocol has most to lose.  `Interventions` chooses which of them a run has.
`MaxTasks` bounds the table: a step that would grow it further is not taken.

The instances of `MCBoard` have one work item, or in `settle` two of which the second
depends on the first, on a ladder of two tiers, `haiku` and `sonnet`, with
thresholds 0 and 1, so the breaker trips at once on the lower tier and after one
tolerated round on the top one: escalation, rework and blocking are all within a
few steps.

`MCLanding`, `MCLocalCommit` and `MCTerminalUI` follow the same scheme: the routine
of the fleet is free, and everything that fails, comes late or is taken back is paid
for from `MaxMishaps` (the terminal UI's keys from `Keys`).

## What is checked

| run | bounds | states | shows |
|---|---|---|---|
| `board` | 1 agent name, 2 reviewers, all interventions, budget 4, 6 rows | 196,905 | `TypeOK`, `ApprovedIsUnanimous`, `RoundsAreSeparate`, `HoldFreezes`, `OffRampsSurviveVerdicts`; every action fires |
| `auto` | 2 agents, 2 reviewers, all interventions but unblocking, orderly (`OrderlyNext`), budget 2, 7 rows | 194,785 | `ReadyRowIsFree`, `ReworkWithinBudget`, `VerdictsAreActedOn`, `JudgedByItsPanel`, `OneHeir`, `DoneIsTerminal`, `ClaimNeedsNoLiveLease` |
| `settle` | 1 agent name, two chained items, 1 reviewer, unblocks and bounces, budget 4, 12 rows | 5,047 | `BuiltOnFinishedWork`, `DependentsFollow`, and `WorkSettles` under fairness |
| `deps` | three planned rows, 1 editor, supersession, budget 2, 4 rows | 254,409 | `Acyclic` |
| `search` | 4 rows, all 4,096 graphs without self-loops, every edit of one row | 1,020,664 | `SearchIsExact`, `RefusalIsExact`, `RecursionIsBounded`, and `SearchEnds` under fairness |
| `local` | 2 workers, 1 reviewer, two chained items with one slug, 2 mishaps, 8 rows | about 583,000 | `LocalTypeOK`, `AcceptedWorkIsKept`, `ReworkCanResume`, `RewritesAreLate`, `FirstLossIsStale` |
| `landing` | 2 workers, 2 mergers, one item merged by an agent or by a person, 2 mishaps, 6 rows | 237,822 | `LandingTypeOK`, `ApprovedHeadLands`, `RequestBouncesOnce`, `DeliversWhatLanded`, and `ApprovalsAreActedOn`, `MergeRowsSettle`, `StalePRsClose` under fairness |
| `tui` | 2 projects, 5 rows, 2 commands at once, 3 keys, 1 mishap | 700,974 | `TUITypeOK`, `SelectionIsOnTheBoard`, `ActsAsAsked`, `MergesItsOwnPR`, and `BoardCatchesUp` under fairness |
| `done_is_terminal` | blocks and unblocks, budget 2 | | a violation, see below |
| `double_work` | 2 agents, blocks and unblocks, budget 2 | | a violation |
| `stuck_review` | holds and releases, budget 2 | | a violation |
| `dep_cycle` | 2 editors, 3 rows | | a violation |

Why the bounds are enough to be interesting.  With one work item and two
reviewers, six rows hold the item, a first round of two, then a second round of
two or an escalated item, and a merge row: late verdicts of a first round meet a
second one.  Seven rows (`auto`) hold a round on the lower tier, the escalated
replacement and its round, with a merge row; or a bounce and a second round.  They do
not hold a second round of two on the top tier; that the circuit breaker counts right
there as well is the theorem `ReworkIsBudgeted`.  `JudgedByItsPanel` looks at three
ids (`Item`): the item, its heir when it is replaced at once, and its heir when it is
escalated or replaced after a round; the theorem has no such bound.  A budget of four is a block, an
unblock and two more steps; a hold, a release and two more; a supersession and an
unblock.
In `settle` the budget buys unblocks of both items and bounces after approval; the
first item may escalate, and its dependent, which may not, follows the replacement.
In `local` two items with one title share an MR branch, which is the only way rows
meet in git; two workers are a session and its successor in the same worktree; two
mishaps are any pair of a lapsed lease, a rejection, a crash, an interruption, a no-op, a
verb that takes work back and a checked-out branch.  The row that is done is
the only one whose freeze is retried, which is what `approve --freeze-only` is for; used
on any other row it would freeze work nobody accepted.  The two workers are symmetric.
In `landing` two mergers are a run and the one that takes its row over when its lease
lapsed, and two workers a session and its successor; a push by a session that lost the row
is a mishap, and so is the lease that has to lapse first; two mishaps are any pair of a failed or unheard call, a death, a stall, a
rejection, a conflict, a comment, a change request, a merge, a closing or a reopening
by hand, a bounce and a supersession by a person.  Six rows hold two rounds with a
merge row each.  Left out of this run are blocking, holding and
superseding merge rows by hand: with blocking, the first violation below reaches the
main branch, since a late verdict on a round that was cut short approves whatever was
pushed since (13 steps; `ApprovedHeadLands` is then violated too).
In `tui` the table is already under way, with the operator in the detail view of an
approved row without a link, from where three keys reach a lookup, an action with a
prompt (`bounce`, `merge`, `archive`, archiving a project: `Modes`; the other flows go
through the same `Confirm` and are in the theorems) and a switch of projects; arrows and
Esc are free, between the columns `review` and `approved`.
In `search` four rows hold cycles the search meets on its way, diamonds, and paths that
leave a visited row behind; every order in which neighbours are tried is explored.  The
edited row is one for all, since rows differ in nothing but their edges.
In `deps` a supersession lands between the check and the write of an edit, once, in
every arrangement of the edges that three rows can be edited into.
One agent name in `board` still covers racing claimants except for their names:
a lapsed lease lets the name claim a row anew while its earlier incarnation's
submission is still possible; two names matter in `auto` and `double_work`.

The properties, in words:

* `ApprovedIsUnanimous`: approved or done work has a latest review round, and all
  reviewers in it approved.
* `RoundsAreSeparate`: the review rows of one round number are exactly one per
  requested reviewer, so no tally mixes verdicts on two versions of the work.
* `HoldFreezes`: nobody claims a held row and no verdict moves it.
* `OffRampsSurviveVerdicts`: blocked, failed and abandoned work is not moved by a
  verdict that was on its way.
* `ReadyRowIsFree`, `VerdictsAreActedOn`, `OneHeir`, `DoneIsTerminal`,
  `ClaimNeedsNoLiveLease`: what the board keeps while people are orderly, see below.
  The first three violations below show what each disorderly step does to them.
* `JudgedByItsPanel`: the board implements `Panel`, see below; orderly use again.
* `ReworkWithinBudget`: rejected work is reworked within its model's threshold only,
  which takes in addition that nobody unblocks what the circuit breaker has blocked.
* `BuiltOnFinishedWork`: a row is claimed only when all it depends on is done, not
  merely approved.
* `DependentsFollow`: nobody waits for a row that has a replacement.
* `WorkSettles`: from some point on nothing is `in_progress` or in `review`, and what
  is still `ready` waits for unfinished work: every item that can go on ends
  approved, done, superseded or blocked for a person.
* `Acyclic`: no row waits, however indirectly, for itself.  It holds with one editor
  whatever supersession and planning do between check and write.
* `SearchIsExact`, `RefusalIsExact`: the search misses nothing and invents nothing,
  and an edit of an acyclic graph is refused if and only if it closes a cycle.
* `RecursionIsBounded`, `SearchEnds`: also in a graph that has a cycle already, which two
  edits at once can leave behind, the recursion is no deeper than there are rows and
  comes to an answer.
* `ApprovedHeadLands`: what is merged while its row is approved is the version the
  reviewers approved, although the merge call names no commit, unless a session that had
  lost the row pushed after the hand-in.  See below for what this leaves open.
* `RequestBouncesOnce`: PR-watch takes approved work back only for a review later than
  the approval; asking for changes once does not bounce the rework as well.  Times are
  compared with `updated_at`, so a hold put on the row, or taken off it, while a pass is
  looking at it counts as a later write; the run has none.
* `DeliversWhatLanded`: `Landing` implements `Delivery`, see below.
* `ApprovalsAreActedOn`: what happened to an approved row's pull request is recorded,
  and an agent's merge ends, whatever dies on the way.
* `MergeRowsSettle`: no merge row is retried for ever, unless a person took its parent
  off or closed the pull request.
* `StalePRsClose`: pull requests of replaced and abandoned work end up closed.
* `AcceptedWorkIsKept`: the commit of a submission that the board accepted is on the
  row's wip branch or on its MR branch, or was amended there, unless the row was
  abandoned or an MR branch has already lost something.
* `FirstLossIsStale`: the first commit an MR branch loses is lost to a freeze that finds
  the branch elsewhere than where the two last met, so another row's freeze has moved it
  since, or that freezes a branch on which a published commit was replaced.  That these can
  happen at all is how the code works: `branch -f` asks nothing, rows may share a slug, and
  a session that submits after its row's freeze amends what is frozen.  A late commit or
  a repeated freeze alone loses nothing: at a freeze the two meet again.
* `RewritesAreLate`: such an amend happens for rows only that have ended.  A row that can
  still be worked on is never frozen between the check and the amend, as long as
  `approve --freeze-only` is run on done rows only, which is what it is for.
* `ReworkCanResume`: a claimable row never has a wip branch without its worktree,
  which `wt-ensure` could not get past.
* `SelectionIsOnTheBoard`: the selection is a task of the column on show.
* `ActsAsAsked`: what a prompt starts is for the task it was opened on.
* `MergesItsOwnPR`: a task is recorded as merged only with its own pull request.
* `BoardCatchesUp`: again and again the board shows what the server has.

### What is not promised of merges

The merge call names no commit (`SquashMerge` in `internal/forge`), and two ways remain in
which the main branch gets what nobody reviewed.  The code does both, no document says it
must not, and `ApprovedHeadLands` leaves them out by name:

* a session that lost its row, its lease having lapsed, pushes after its successor handed
  in: the reviewers' approval, and the merge, are then of a branch they may not have seen.
  Without `~pr[t].stray` in the property TLC finds this in 12 states of run `landing`;
* a merger finds the row approved, stalls, a person or PR-watch takes the row back, the
  rework pushes, and the merger merges that.  The row is not approved by then: with
  `task[t].state = "approved"` dropped TLC finds this in 14 states.

What the property does say is that within these bounds nothing else can: not the pushes of
the session that has the row, nor those of one that lost it before the hand-in, nor a
merge that is late, repeated, unheard or made by hand.

### Orderly steps

The store lets a person take any row from its reviewers, replace work that has ended, or
build on a row that was replaced.  `OrderlyNext` is `Next` without just these steps:

* a person blocks or supersedes (by transition or by replacing it) no row a reviewer is
  still at, and releases held work in review only while it still awaits a verdict;
* a person replaces nothing that is done, failed, abandoned or superseded;
* a planner names as dependencies no row that has been replaced.

Everything else, people holding, bouncing, failing and abandoning at any moment included,
is still there.  `OrderlyNext` is a restriction on the environment, and the code enforces
none of it: the violations below are what happens without.

### Refinement

`TaskBoard`, in orderly use, implements `Panel` (`JudgedByItsPanel`, an INSTANCE with a
refinement mapping).  `Panel` knows neither leases, claims, models, rounds of rows nor
escalation: of each piece of work it sees a *stage*, *open*, *judged*, *accepted*, *done* or
*dropped*, the number of the *version* handed in, who of that version's panel is still
*waiting* to speak, who spoke *against* it, and whether the verdict is *held* back.  It
promises that a version gets a panel when it is handed in, and never another juror; that a
juror speaks once; that the last one to speak decides in the same step, for what all of
them said; and that nobody else moves work from a panel still sitting, other than to drop
it.  A hold puts the verdict off; with the panel through by then, the way on is to take
the work back or drop it, which is the third violation below from the other side.
The mapping reads the panel off the table: the review rows that target the item with its
current round.  Rows of other kinds, and ids without a row yet, count as open work.  Without
`OrderlyNext` it does not hold: a late juror of an earlier panel decides again.

`Landing` implements `Delivery` (`DeliversWhatLanded`, an INSTANCE with a refinement
mapping).  Of each implement row `Delivery` sees a stage, *building* until it is
approved, then *accepted*, and *delivered* or *dropped* in the end, and whether its pull
request has landed.  It promises that work is delivered only from accepted and landed,
and that delivered and dropped are final.  Rows of other kinds, and ids without a row
yet, count as building.  In the run this is checked for every interleaving of two
mergers, PR-watch and people; without blocking by hand, for the reason above.  That each
step of `Landing` maps to a step of `Delivery` or a stutter is also a theorem (`Delivers`).

That local mode and landing use the board only through its own actions is proved, not
checked: `LocalSpec => Spec` and `LandingSpec => Spec`.

### Fairness

`harness/agent.sh` polls for ever.  `WF(Claim(t))`: a row that stays claimable is
claimed.  Nothing is assumed of a single claimant: it may crash, or answer after
its lease lapsed.  `SF(Complete(t))`: if a row is claimed with a live lease again
and again, some claimant answers within its lease.  Without it the system may
reclaim a row for ever, which is the code's behaviour when every agent dies.
Promotion, planning, heartbeats, the clock and interventions are owed nothing.

`MCLandingFairSpec`: `WF(Worked)`, some worker or reviewer goes on; `WF(MergeRun(a))`, a
run of a merger goes on to its next call, failing being paid for from the budget;
`SF(MergeClaim(t))` for merge rows, since idle mergers poll for ever, and `WF(Expire(t))`,
the lease of a merge row without a run lapses in the end.  `WF(Watch)` and `WF` of the
closings: the reconcile runner's ticker starts a pass every interval, and a pass goes
through its list.  A closing whose comment cannot be posted is a mishap.

`MCSpec` of `MCCycle`, `WF(Next)`: the search is one goroutine, reads nothing and waits for
nothing.

`MCTUIFairSpec`: `WF(Poll)`, the tick is a timer, and every command ends, since each has a
context with a deadline.  The operator owes nothing.

### Where the documents and the code part

1. `DoneIsTerminal`.  `AGENT-API.md` says done and failed are terminal.  Block an
   item in review, unblock it, resubmit, approve and merge the second round; a
   reviewer of the first round, still at work, submits: the tally of the *second*
   round is complete and unanimous, `done` is not in the aggregator's guard, and
   the row goes back to `approved` (with a second merge row under `agent_merge`).
2. `ClaimNeedsNoLiveLease`.  The comment on `ClaimTask` says the predicate ensures
   there is no live lease.  A late rejection re-runs the tally of a rejected
   round while the row is `in_progress` again: it becomes `ready` with its lease
   live, and `claimableSQL` reads no lease of a ready row.
3. `VerdictsAreActedOn` with holds.  `ReleaseTask` is documented as restoring normal
   automated flow.  The last verdict under a hold is recorded, not tallied, and
   nothing tallies it on release: the row stays in `review`.
4. `Acyclic` with two editors.  `UpdateTaskDependsOn` is documented to return a
   conflict if a cycle would be created.  The graph is read before the
   transaction that writes: two edits checked on the same graph are both written, and
   their rows wait for each other for good.

## What is proved

`TaskBoardProofs` proves, for every set of agents, allowlist,
ladder, threshold map, batches and submissions that satisfy the named assumptions of
`TaskBoard`, and for tables of any length:

* `TypeCorrect == Spec => []TypeOK`
* `ReviewGate == Spec => []ApprovedIsUnanimous`
* `RoundsStaySeparate == Spec => []RoundsAreSeparate`
* `HoldsFreeze == Spec => HoldFreezes`
* `OffRampsHold == Spec => OffRampsSurviveVerdicts`

through `Invariance == Spec => []Inv`.  `ApprovedIsUnanimous` is not inductive: a
tally is over rows that *target* an item with its current round, whatever their
kind, and it says something only if those rows exist and are that item's
reviewers.  `Inv` adds, per row:

* `WellFormed`: columns in their domains, references inside the table;
* `VerdictIsFinal`: a review row that has a verdict is done or superseded, so the
  verdict cannot be overwritten by another submission;
* `Aimed`: a row that targets another is a review or a merge row of an implement
  row, and a round number never runs ahead of the item's own;
* `HasReviewer`: an item whose round is positive has a review row of that round, so
  the tally is not empty, and every item that can be approved has been submitted;
* `Unanimous`: the gate itself.

The proof has one lemma per action, each in the shape the code has: a step that
appends rows, a step that changes one row without touching what the gate reads
(`Calm`, `Harmless`, `Quiet`), a new round, a verdict with its tally, a
supersession.  The assumptions used are `AgentAssumption`, `LadderAssumption`,
`ThresholdAssumption`, `BatchAssumption` and `SubmissionAssumption`; the first says that
NULL is no agent, the others what `parseEscalationLadder`,
`parseEscalationThresholds` and the request decoder produce.

`RoundsAreSeparate` is about tables one at a time, and its induction (`Separate`) needs
`Aimed`: no review row has a round its target has not reached, so a submission's new
number is unused.  `RoundStep` puts it in one place: every step either leaves the
rounds and the reviews as they are or opens one round, with one review row per
reviewer.  The two action properties need no invariant of their own: a step is
`Silent`, it records no verdict and hands out no held row, or it is `Spoken`, a verdict,
and moves neither a held row nor one that was taken off (`SilentOrSpoken`).

`TaskBoardOrder` proves, of `OrderlySpec == Init /\ [][OrderlyNext]_vars` and under the
same assumptions on the constants:

* `ReadyRowsAreFree == OrderlySpec => []ReadyRowIsFree`
* `VerdictsAct == OrderlySpec => []VerdictsAreActedOn`
* `BuiltOnFinished == OrderlySpec => []BuiltOnFinishedWork`
* `HeirsAreFollowed == OrderlySpec => []DependentsFollow`
* `OneHeirOnly == OrderlySpec => OneHeir`
* `DoneStaysDone == OrderlySpec => DoneIsTerminal`
* `ClaimsFindNoLease == OrderlySpec => ClaimNeedsNoLiveLease`
* `ReworkIsBudgeted == OrderlySpec /\ [][UnblocksWithinBudget]_vars => []ReworkWithinBudget`

through `OrderInvariance == OrderlySpec => [](Inv /\ Order(task, NoTask))`.  None of them
is inductive.  What they have in common is that no verdict may come late, and `Order` says
so of every row (`Told`): a reviewer that has not spoken is one of the *latest* round of a
row that is *still in review*, or has failed.  From it follows that a tally finds the row
in review and moves it, so a row comes back to the queue from review only, where it holds
no lease (`Unleased`), and that what is done gets no verdict.  Conversely unheld work in
review awaits a reviewer of its latest round (`Awaits`).  `BuildsOnCurrent` and `RestsOn`
carry the dependencies along: no row depends on one that was replaced, and what is in
flight depends on done rows.  A verdict and a submission break `Awaits` for one row until
the tally, or the new review rows, restore it within the same action: `Order(T, x)`
excepts the row `x`, and the lemmas go from `Order(T, NoTask)` to `Order(T', x)` and back.
`Keeps` is what a step may do to one row, from which the action properties follow.
`UnblocksWithinBudget` is a condition on people of its own: unblocking is how one more
round is granted.

`JudgingProofs` proves
`PanelsJudge == OrderlySpec /\ [](Id \subseteq Juror) => JudgedByItsPanel`, for any set
`Item`: the initial states map to initial states and every orderly step to a step of `Panel`
or a stutter (`StepIsJudged`).  The hypothesis only names a set for the ids to be in.  The
invariant is `Inv` with `Order`.  Most steps are `Untold`: nobody hands work in or speaks, so
every panel is as it was (`UntoldCases`), and it remains that the item moved as `Panel`
allows.  `OthersAreJudged` shows that from what `Order` says of a step: a row leaves review
to be reworked only when its panel is through, because whoever has not spoken belongs to
the latest round of a row still in review (`Told`).  The other two steps have a lemma each.
`HandingInIsJudged`: the new round's number is unused, so the new panel is the rows just
inserted, and there is at least one.  `SpeakingIsJudged`: the reviewer is of the current
round (`Told` again), so it leaves exactly one panel, and the SQL count that decides is a
count of that panel (`TallyIsBench`), so it decides when the panel is empty and accepts if
and only if nobody spoke against.

`LocalCommitProofs` proves, of `LocalSpec` with any slugs, workers and interruptions:

* `LocalTypeCorrect`, through `LInv`: sessions, verbs, branches and links belong to rows;
* `LocalModeUsesTheBoard == LocalSpec => Spec`, so that all of the above holds in local mode;
* `ReworkResumes` and `AcceptedIsKept`: `ReworkCanResume` and `AcceptedWorkIsKept`, for
  behaviours that are orderly on the board and in which `approve --freeze-only` is run on
  done rows only (`FreezesFinished`), which is what it is for.  The first is inductive
  with `Settled`: a freeze that is past its transition is of a done row, a cleanup of a
  failed one, and only such rows have a branch without its worktree; that done and
  failed rows stay so is the board's theorem.  The second needs `WorkKept`: commits of a
  row are numbered in the order they are made (`Numbered`), so that a later one stands for
  all before it; whoever is about to submit a commit has it on the wip branch or it has
  been frozen; and from the second step of a freeze on, all that was linked is on the MR
  branch;
* `OnlyStaleFreezesLose == LocalSpec => FirstLossIsStale`.  The inductive part is `Based`:
  until an MR branch has lost something, every MR branch is ahead of where a wip branch
  last met it, and so is the wip branch unless it replaced a published commit: an amend
  takes the head off a branch, which leaves it ahead of where the two met unless the head
  is just there (`AmendedIsBased`), and then it was published.  A wip branch that last met
  its MR branch where that is now is therefore ahead of it, and freezing moves it ahead;
* `RewritesComeLate`: `RewritesAreLate`, under the same hypotheses as `ReworkResumes`, through
  `Live`: what a row that has not ended committed is on its own wip branch only
  (`Published`), since only rows that are done are frozen; the head of that branch is the
  row's own once anything was committed (`OwnTops`); and what a session of such a row found
  out, before the other steps that came in between, still holds (`SessionLive`).

`LandingProofs` proves, of `LandingSpec` with any number of workers and mergers and
whatever people do, blocking by hand included:

* `LandingTypeCorrect`, through `LandInv`: whoever handed in a pull request has one, so has
  the parent of each merge row, and what runs and passes refer to is there.  The
  argument follows links: a row gets the link `pr` from its own submission only, and
  merge rows are added only for rows that have it (`LinksKept`), which takes a lemma per
  action of the board;
* `LandingUsesTheBoard == LandingSpec => Spec`: mergers, PR-watch and people write the board
  only as the store allows, so that the theorems about the board hold of the whole.

It also proves, of behaviours of `LandingSpec` that are orderly on the board, with any
number of workers and mergers, crashes and failed calls, and whatever people do on GitHub:

* `ApprovedLands`: `ApprovedHeadLands`, through `LandOrder`: while work is under review or
  approved its pull request's head is what was handed in for its latest round, unless it is
  `stray` (`HeadsOK`), and it links that pull request (`LinksHeld`).  Sessions push at any
  time; but one that still works on a row under review or approved is not the assignee's
  (`SessionsOver`), since only the assignee can hand in and does so last, so that what it
  pushes is `stray`.  From the hand-in the way to approved is a unanimous round, which is
  where `Order` is used;
* `DoneHasLanded`: work recorded as done has its pull request merged.  Whoever is about to
  record a merge has seen it (`MergesKnown`), however long ago, and a merge is for good.
  It assumes that people mark approved work as done on the board only when they merged it
  (`PeopleRecordMerges`);
* `RequestsBounceOnce`: `RequestBouncesOnce`, if nobody holds or releases approved work
  (`NoHoldOnApproved`), through `PassTimely`.  A row that a pass has listed is in the round
  of the list only if it never left approval: whoever leaves it comes back by a submission,
  which opens a round (`ThroughReview`).  While it stays approved nothing writes it (`Keeps`,
  where `Order` rules out lapsing leases, late verdicts and repointed dependencies), so a
  review later than the list is later than the row's last write (`Timely`);
* `Delivers`: `DeliversWhatLanded`, with the same hypotheses, for tables in which the pull
  requests are of rows in `Work`, the ids `Delivery` speaks of, which may be any set.

`TerminalUIProofs` proves, of `TUISpec` with any projects, rows and number of commands:

* `PromptsAreKept == TUISpec => ActsAsAsked`
* `OwnPRIsMerged == TUISpec => MergesItsOwnPR`

through `UIInv`: the prompt on show is the one opened last, for what it was opened for
(no result touches what is pending, other than the one that opens a prompt of its own),
and a merge command carries the pull request of the task it will record, from the
lookup or the link through the prompt to the call.

* `BoardTypeCorrect == TUISpec => []TUITypeOK`
* `SelectionStaysOnTheBoard == TUISpec => []SelectionIsOnTheBoard`
* `OperatorsUseTheBoard == TUISpec => Spec`, so that the theorems about the board hold with
  operators at their terminals

through `BoardInv`, which adds that every command is at a call of its kind and is about a
row of the table (`CallOK`), that what it returned is what such a call returns, and that
the board model refers to rows and projects there are (`BoardOK`).  The table grows while
lists are on their way, so both are about a set of ids and only need it to grow.  Selecting
is safe because any list that arrives goes through `EnsureSelection`, which picks a place
of the new column (`EnsureSelects`), and everything else leaves the list alone or empties
it.  That a column is a list at all rests on `InOrder`: ranks in a finite set of numbers
are a bijection (`InOrderLists`).

`DependenciesProofs` proves `SerialEditsStayAcyclic == OneEditor => (DepSpec => []Acyclic)`:
with at most one edit under way no row ever waits for itself, for tables, batches and
edits of any size.  It uses the assumptions above, through `Inv`, and
`PlannerAssumption`.  `Acyclic` alone is not inductive, since the write trusts a check made
on an older graph; `DepInv` adds that the pending edit *would still pass* the check now.
The argument:

* every step of the board `Inherits`: it closes no cycle, and two old rows that had no
  path between them get none.  For all but planning there is a map from the new
  table's rows to the old one's that turns edges into edges (`MapsEdges`): the identity
  for most, the heir to the row it replaces for a supersession.  Closed sets pull back
  along it.  Planning adds rows that only look down the planner's ranks;
* so a pending edit stays safe until it is written (`BoardStepKeeps`);
* writing a safe edit closes no cycle (`SafeWrite`).  A second pending edit would not
  survive this step, which is where the proof needs `OneEditor` and where run
  `dep_cycle` finds its counterexample.

`CycleProofs` proves, of `Spec` of `Cycle` for any finite set of rows and any graphs on it
(`GraphAssumption`), the orders of neighbours and new dependencies left open:

* `SearchExact == Spec => []SearchIsExact`
* `RefusalExact == Spec => []RefusalIsExact`
* `RecursionBounded == Spec => []RecursionIsBounded`

through `SearchInvariance == Spec => []SearchInv`.  Nothing here is by induction over the
graph: the recursion is a stack in the state, and the invariant is about the calls on it.
`Traced`: every call is for a row that a new dependency leads to, so what is found is
reachable.  `Swept`: a visited row's neighbours are visited or still to
be tried by some call under way, and the row looked for is not visited; so when the last
call returns, what was visited is closed without the row, and by the definition of
reachability no path leads to it.  `Cleared` and `Answered` carry that over the
dependencies already tried.  The stack is no longer than the set of visited rows, which
gives the bound.  `RefusalIsExact` takes a lemma about graphs beside it
(`EditClosesCycle`): replacing the dependencies of a row of an acyclic graph closes a cycle
if and only if a new one led to the row before, because the sets without the row that are
closed in one of the two graphs are closed in the other.

Only model-checked:

* the properties above without their hypotheses on people.  Run `landing` also lets people
  supersede rows in review, which `OrderlyNext` does not, and finds `ApprovedHeadLands` and
  `DeliversWhatLanded` kept within its bounds; run `settle` lets them unblock freely;
* all liveness (`WorkSettles`, `ApprovalsAreActedOn`, `MergeRowsSettle`, `StalePRsClose`,
  `BoardCatchesUp`, `SearchEnds`): fairness and ENABLED are out of the prover's reach.

## Not modelled

* The HTTP API decodes, makes one store call and encodes: no state of its own.
* The notifier publishes what it sees on every pass under a key that makes repetitions
  harmless, and writes nothing.
* Of the event log nothing is read by a decision; documents, unarchiving and the
  creation of projects likewise.  Migrations run before the server serves.
* GitHub tokens, pagination and the deletion of a closed pull request's branch.
* Clones, tokens and back-off of the harness; its loop is the fairness above.
* The terminal UI's start-up, scrolling, text entry, documents and layout.
* Deployment, the site and the skills are packaging and prose.

## Plan

In the order of importance; each item is a module, its instances and theorems.

1. `TaskBoard`: done.
2. `Dependencies` and `Cycle`: done, with their theorems.
3. `Forge`, `Merger`, `PRWatch`, composed in `Landing`, with `Delivery` above them: done.
4. `LocalCommit`: done, with its theorems.
5. `TUICommands` and `TerminalUI`: done, with their theorems.
6. `Panel`, the abstract review gate that `TaskBoard` implements in orderly use: done, with
   the theorem.  An abstract work queue of claims and leases would say what the theorems
   of `TaskBoardOrder` say already.
7. The inductive invariant of a board used in order, and on it what lands, what is kept in
   local mode and the step simulation of `Delivery`: done.

---------------------------- MODULE MCDependencies ----------------------------
(***************************************************************************)
(* Dependencies for TLC: three planned rows, edited and superseded in any  *)
(* order, with an agent working on them as long as there is one.           *)
(***************************************************************************)
EXTENDS MCTaskBoard, Dependencies

\* <<first>>, then two rows that depend on it by its key.
Item(key, dependsOn) ==
    [key |-> key, dependsOn |-> dependsOn, model |-> "haiku", reviewers |-> <<"haiku">>,
     agentMerge |-> FALSE, escalate |-> TRUE]

Fan == {<<Item(-1, {}), Item(-2, {-1}), Item(NoKey, {-1})>>}

OneTier == <<"haiku">>

Thresholds == [haiku |-> 0]

PullRequest == {{"pr"}}

MCDepInit == MCInit /\ edits = {}
MCDepNext ==
    \/ MCNext /\ UNCHANGED edits
    \/ EditStep /\ UNCHANGED interventions

MCDepSpec == MCDepInit /\ [][MCDepNext]_<<depvars, interventions>>
=============================================================================

------------------------------- MODULE MCBoard -------------------------------
(***************************************************************************)
(* The values of TaskBoard's constants that a cfg cannot write.            *)
(***************************************************************************)
EXTENDS MCTaskBoard

TwoTiers == <<"haiku", "sonnet">>

Thresholds == [haiku |-> 0, sonnet |-> 1]

WorkItem(reviewers, agentMerge) ==
    [key |-> NoKey, dependsOn |-> {}, model |-> "haiku", reviewers |-> reviewers,
     agentMerge |-> agentMerge, escalate |-> TRUE]

OneReviewed == {<<WorkItem(<<"sonnet", "sonnet">>, TRUE)>>}

\* The second item depends on the first, by its batch key.
Chain ==
    LET first == [WorkItem(<<"sonnet">>, FALSE) EXCEPT !.key = -1]
        second == [WorkItem(<<"sonnet">>, FALSE) EXCEPT
                        !.dependsOn = {-1}, !.escalate = FALSE]
    IN  {<<first, second>>}

PullRequest == {{"pr"}}
=============================================================================

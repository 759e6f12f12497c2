-------------------------------- MODULE Panel --------------------------------
(***************************************************************************)
(* What the review gate promises of each piece of work: every version that *)
(* is handed in has a panel of its own, and the last of the panel to speak *)
(* decides, at once and once for all.                                      *)
(***************************************************************************)
EXTENDS Naturals

CONSTANTS Work, Juror

VARIABLES
    stage,    \* of each piece of work
    version,  \* how many times it was handed in
    waiting,  \* the panel of that version: those who have yet to speak,
    against,  \* and those who spoke against it
    held      \* the verdict is put off

panel == <<version, waiting, against>>
vars == <<stage, panel, held>>

Stage == {"open", "judged", "accepted", "done", "dropped"}

Init ==
    /\ stage = [w \in Work |-> "open"]
    /\ version = [w \in Work |-> 0]
    /\ waiting = [w \in Work |-> {}] /\ against = [w \in Work |-> {}]
    /\ held = [w \in Work |-> FALSE]

Move(w, to) == stage' = [stage EXCEPT ![w] = to]

HandIn(w) ==
    /\ stage[w] = "open" /\ Move(w, "judged")
    /\ version' = [version EXCEPT ![w] = @ + 1]
    /\ \E jury \in (SUBSET Juror) \ {{}} : waiting' = [waiting EXCEPT ![w] = jury]
    /\ against' = [against EXCEPT ![w] = {}]
    /\ UNCHANGED held

\* Where work goes when its panel has spoken.
Sentence(opponents) ==
    IF opponents = {} THEN {"accepted", "done"} ELSE {"open", "dropped"}

Speak(w, j) ==
    /\ waiting' = [waiting EXCEPT ![w] = @ \ {j}]
    /\ \E opposes \in SUBSET {j} : against' = [against EXCEPT ![w] = @ \cup opposes]
    /\ IF stage[w] = "judged" /\ ~held[w] /\ waiting'[w] = {}
       THEN \E to \in Sentence(against'[w]) : Move(w, to)
       ELSE UNCHANGED stage
    /\ UNCHANGED <<version, held>>

\* Nobody takes work from a panel that has yet to speak, but to drop it.
TakeBack(w) ==
    /\ stage[w] \in {"judged", "accepted"} /\ waiting[w] = {} /\ Move(w, "open")
    /\ UNCHANGED <<panel, held>>

Drop(w) ==
    /\ stage[w] \in {"open", "judged", "accepted"} /\ Move(w, "dropped")
    /\ UNCHANGED <<panel, held>>

Finish(w) ==
    /\ stage[w] = "accepted" /\ Move(w, "done")
    /\ UNCHANGED <<panel, held>>

Hold(w) ==
    /\ held' = [held EXCEPT ![w] = TRUE]
    /\ UNCHANGED <<stage, panel>>

Release(w) ==
    /\ stage[w] = "judged" => waiting[w] # {}
    /\ held' = [held EXCEPT ![w] = FALSE]
    /\ UNCHANGED <<stage, panel>>

Next ==
    \E w \in Work :
        \/ HandIn(w)
        \/ \E j \in waiting[w] : Speak(w, j)
        \/ TakeBack(w) \/ Drop(w) \/ Finish(w)
        \/ Hold(w) \/ Release(w)

Spec == Init /\ [][Next]_vars
=============================================================================

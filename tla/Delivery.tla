------------------------------ MODULE Delivery ------------------------------
(***************************************************************************)
(* What the board promises of each piece of work that goes through a pull  *)
(* request: it is recorded as delivered only once it has landed, and that  *)
(* record, like the record that it was given up, is final.                 *)
(***************************************************************************)
CONSTANT Work

VARIABLES
    stage,  \* of each piece of work, "building" until it is accepted
    landed  \* the pieces of work whose pull request was merged

Stage == {"building", "accepted", "delivered", "dropped"}

Init == stage = [w \in Work |-> "building"] /\ landed = {}

Accept(w) ==
    /\ stage[w] = "building"
    /\ stage' = [stage EXCEPT ![w] = "accepted"]
    /\ UNCHANGED landed

SendBack(w) ==
    /\ stage[w] = "accepted"
    /\ stage' = [stage EXCEPT ![w] = "building"]
    /\ UNCHANGED landed

\* A pull request is merged, whatever the board thinks of the work by then.
Land(w) ==
    /\ stage[w] # "delivered"
    /\ landed' = landed \cup {w}
    /\ UNCHANGED stage

Deliver(w) ==
    /\ stage[w] = "accepted" /\ w \in landed
    /\ stage' = [stage EXCEPT ![w] = "delivered"]
    /\ UNCHANGED landed

Drop(w) ==
    /\ stage[w] \in {"building", "accepted"}
    /\ stage' = [stage EXCEPT ![w] = "dropped"]
    /\ UNCHANGED landed

Next ==
    \E w \in Work : Accept(w) \/ SendBack(w) \/ Land(w) \/ Deliver(w) \/ Drop(w)

Spec == Init /\ [][Next]_<<stage, landed>>
=============================================================================

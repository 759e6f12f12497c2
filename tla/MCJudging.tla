------------------------------ MODULE MCJudging ------------------------------
(***************************************************************************)
(* The task board for TLC, next to what it implements.                     *)
(***************************************************************************)
EXTENDS MCBoard, Judging
=============================================================================

----------------------------- MODULE MCTurnRail -----------------------------
(* Instances of TurnRail for TLC. *)
EXTENDS TurnRail

\* The first and the third turn have the same summary.
MCText == [t \in 1..Turns |-> IF t = 3 THEN 1 ELSE t]
=============================================================================

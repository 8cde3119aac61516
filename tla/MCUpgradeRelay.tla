--------------------------- MODULE MCUpgradeRelay ---------------------------
(* Upgrades that differ in nothing are interchangeable. *)
EXTENDS UpgradeRelay, TLC

UpgradeSymmetry == Permutations(Upgrades)
=============================================================================

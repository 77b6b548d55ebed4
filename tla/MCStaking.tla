------------------------------ MODULE MCStaking -----------------------------
(***************************************************************************)
(* Staking with one validator and two delegators.  The delegators are      *)
(* interchangeable: no definition tells one from another.                  *)
(***************************************************************************)
EXTENDS Staking, TLC

CONSTANTS v1, d1, d2

MCDelegator == {d1, d2}
MCAmounts == {-1, 0, 1, 2}

Symmetry == Permutations(MCDelegator)
=============================================================================

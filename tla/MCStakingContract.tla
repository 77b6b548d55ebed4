-------------------------- MODULE MCStakingContract --------------------------
(***************************************************************************)
(* StakingContract with two accounts that register, one of them twice.     *)
(***************************************************************************)
EXTENDS StakingContract, TLC

CONSTANTS alice, bob

MCAddr == {alice, bob}

Symmetry == Permutations(MCAddr)
=============================================================================

--------------------------- MODULE MCTokenProgram ---------------------------
(***************************************************************************)
(* TokenProgram on one token of two owners, the first of them its creator. *)
(***************************************************************************)
EXTENDS TokenProgram

CONSTANTS gyd, alice, bob

MCTokenId == {gyd}
MCCreator == [id \in MCTokenId |-> alice]
MCOwner == {alice, bob}
MCAuthorities == {bob, Nobody}
MCFreezeAuths == {bob}
MCDelegates == {bob}
MCAmounts == {-1, 0, 1}
=============================================================================

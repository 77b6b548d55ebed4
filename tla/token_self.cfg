SPECIFICATION Spec
CONSTANTS
  gyd = gyd
  alice = alice
  bob = bob
  Nobody = Nobody
  TokenId <- MCTokenId
  Creator <- MCCreator
  Owner <- MCOwner
  Authorities <- MCAuthorities
  FreezeAuths <- MCFreezeAuths
  Delegates <- MCDelegates
  Amounts <- MCAmounts
  EventCap = 1
  MaxFaults = 1
  MaxTokens = 2
PROPERTIES
  TransferMoves

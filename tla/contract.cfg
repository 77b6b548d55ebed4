SPECIFICATION ContractSpec
CONSTANTS
  alice = alice
  bob = bob
  Addr <- MCAddr
  MIN_STAKE = 2
  Stakes = {1, 2, 3}
  Payments = {0, 1, 3}
  Slashes = {0, 1, 2}
  MaxList = 4
  MaxBalance = 13
SYMMETRY Symmetry
INVARIANTS
  ContractTypeOK
  Accounted
PROPERTIES
  NobodyElsePays
CHECK_DEADLOCK FALSE

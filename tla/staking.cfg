SPECIFICATION Spec
CONSTANTS
  v1 = v1
  d1 = d1
  d2 = d2
  Validator = {v1}
  Delegator <- MCDelegator
  MinValidatorStake = 2
  MinDelegation = 1
  Amounts <- MCAmounts
  Commissions = {0, 5000, 10001}
  Blocks = {1, 2}
  MaxStake = 3
  MaxSlashes = 2
  MaxRewards = 2
  MaxFaults = 1
SYMMETRY Symmetry
INVARIANTS
  TypeOK
  StakeAccounted
  RewardsPaidOnce
PROPERTIES
  JailedEarnsNothing
  

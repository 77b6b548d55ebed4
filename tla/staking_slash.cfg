SPECIFICATION Spec
CONSTANTS
  v1 = v1
  d1 = d1
  d2 = d2
  Validator = {v1}
  Delegator <- MCDelegator
  MinValidatorStake = 2
  MinDelegation = 1
  Amounts = {1, 2, 3}
  Commissions = {0}
  Blocks = {1, 2}
  MaxStake = 4
  MaxSlashes = 2
  MaxRewards = 2
  MaxFaults = 0
SYMMETRY Symmetry
PROPERTIES
  SlashPenalises

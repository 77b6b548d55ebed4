SPECIFICATION Spec
CONSTANTS
  Program <- MCProgram
  GasLimit = {30, 20000}
  MaxGas = 10100
  MaxCodeSize = 16
  MaxMemory = 4
  MemCap = 5
  WordLen = 2
  IntSize = 4096
  MaxShift = 8
  Env <- MCEnv
  Balance <- MCBalance
  Digest = {0, 3}
  MaxCalls = 2
INVARIANTS
  TypeOK
  GasMeters
  Aligned
  StoreExact
PROPERTIES
  Halts
CHECK_DEADLOCK FALSE

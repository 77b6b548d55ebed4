SPECIFICATION Spec
CONSTANTS
  Acceptor = Acceptor
  Dialer = Dialer
  SendCap = 1
  WireCap = 1
  MaxPings <- MCMaxPings
  MaxBlocks <- MCMaxBlocks
CHECK_DEADLOCK FALSE
INVARIANTS
  TypeOK
  InOrderOnce
  NothingElseLost
PROPERTIES
  WireDrains
  LoopsReturn

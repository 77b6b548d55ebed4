SPECIFICATION Spec
CONSTANTS
  p1 = p1
  p2 = p2
  alice = alice
  bob = bob
  carol = carol
  h1 = h1
  h2 = h2
  h3 = h3
  h4 = h4
  h5 = h5
  h6 = h6
  Sender <- MCSender
  Hash <- MCHash
  Tx <- MCTx
  MaxSize = 4
  MaxPerAddr = 2
  MaxEntries = 5
  MaxBlocks = 1
  Deadlines = {1, 3}
  Callers = {p1}
  Requests = {2}
INVARIANTS
  TypeOK
  QueuesHold
  HeapTracksIndex
  PendingIsBest
CHECK_DEADLOCK FALSE

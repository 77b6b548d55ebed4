SPECIFICATION Spec
CONSTANTS
  alice = alice
  bob = bob
  t1 = t1
  t2 = t2
  t3 = t3
  t4 = t4
  t5 = t5
  t6 = t6
  Word = 4
  MaxFaults = 1
  hg = hg
  ha1 = ha1
  ha2 = ha2
  hb1 = hb1
  hw = hw
  root = root
  None = None
  NoAddr = NoAddr
  Addr <- MCAddr
  TxHash <- MCTxHash
  Hash <- MCHash
  Block <- MCBlock
  Genesis <- MCGenesis
  GenesisAccounts <- MCGenesisAccounts
  Readers = {r1}
  Backends = {"mem", "disk"}
  MaxRestarts = 2
INVARIANTS
  TypeOK
  OneChain
  NobodyOverspends
  ReadersFindBlocks
  AckedBlockIsServed
PROPERTIES
  OnlyMintsGrowSupply
  CallsReturn
  Implements

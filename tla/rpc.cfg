SPECIFICATION ServerSpec
CONSTANTS
  alice = alice
  bob = bob
  t1 = t1
  t2 = t2
  t3 = t3
  t4 = t4
  t5 = t5
  t6 = t6
  t7 = t7
  Word = 4
  MaxFaults = 0
  hg = hg
  ha1 = ha1
  ha2 = ha2
  hb1 = hb1
  hw = hw
  root = root
  None = None
  NoAddr = NoAddr
  Addr <- MCAddr
  TxHash <- MCServerTxHash
  RawHash <- MCRawHash
  Hash <- MCHash
  Block <- MCBlock
  Genesis <- MCGenesis
  GenesisAccounts <- MCGenesisAccounts
  Readers = {r1}
  Backends = {"mem"}
  MaxRestarts = 1
PROPERTIES
  SessionsGoForward

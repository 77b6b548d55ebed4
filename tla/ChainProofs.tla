----------------------------- MODULE ChainProofs ----------------------------
(***************************************************************************)
(* Proofs about Chain, for any blocks, accounts, readers and number of     *)
(* restarts, and in the last part about the server: what holds of the      *)
(* chain holds under every handler, and a client that asks one thing after *)
(* the other never sees the chain go back, whatever is inserted between    *)
(* its questions and between the reads of one.                             *)
(***************************************************************************)
EXTENDS Rpc, Lemmas

\* A call is exactly one of: nothing, or a block with transactions to do.
LEMMA NoCallIsIdle ==
  ASSUME TypeOK
  PROVE  /\ call.stage \in {"index", "account"} => call \in [block: Block, todo: Seq(Tx), stage: {"index", "account"}]
         /\ ~IsFree => call.stage \in {"index", "account"}
         /\ IsFree => call.stage = "idle"
BY DEF TypeOK, CallType, NoCall, IsFree

\* A map stays a map when a key of its type gets a value of its type.
LEMMA PutType ==
  ASSUME NEW f, NEW K, NEW V, NEW k \in K, NEW v \in V, MapType(f, K, V)
  PROVE  MapType(Put(f, k, v), K, V)
BY DEF Put, MapType

\* Fee and cost are integers, of either sign.
LEMMA CostType ==
  ASSUME NEW tx \in Tx
  PROVE  Fee(tx) \in Int /\ Cost(tx) \in Int
<1>1. Signed(tx.gasUsed) \in Int
  BY WordAssumption DEF Signed, Tx
<1>2. Fee(tx) \in Int
  BY <1>1 DEF Fee, Tx
<1> QED  BY <1>2 DEF Cost, Tx

LEMMA TransferType ==
  ASSUME NEW acc \in Accounts, NEW tx \in Tx
  PROVE  Transfer(acc, tx) \in Accounts
<1> DEFINE debited == Debit(acc, tx)
<1>1. CASE CanPay(acc, tx)
  <2>1. debited \in Accounts
    BY CostType DEF Debit, Accounts, Account, Tx
  <2>2. Credit(debited, tx) \in Accounts
    BY <2>1, NoAddrAssumption DEF Credit, Accounts, Account, Tx
  <2> QED  BY <1>1, <2>2 DEF Transfer
<1>2. CASE ~CanPay(acc, tx)
  BY <1>2 DEF Transfer
<1> QED  BY <1>1, <1>2

LEMMA InitType == Init => TypeOK
<1> SUFFICES ASSUME Init PROVE TypeOK
  OBVIOUS
<1>1. Genesis \in Block /\ Genesis.hash \in Hash /\ Genesis.number \in Nat
  BY BlockAssumption DEF BlockType
<1>2. blocks \in Seq(Block) /\ Len(blocks) >= 1
  BY <1>1 DEF Init
<1>3. MapType(byHash, Hash, Block) /\ MapType(byNumber, Nat, Block) /\ MapType(txIndex, TxHash, Tx)
  BY <1>1 DEF Init, Singleton, MapType
<1>4. accounts \in Accounts
  BY AccountsAssumption DEF Init
<1>5. /\ db \subseteq Block /\ backend \in Backends /\ toLoad \subseteq db /\ serving \in BOOLEAN
      /\ call \in CallType /\ call.stage # "account"
      /\ opened \in BOOLEAN /\ faults \in 0 .. MaxFaults /\ unsaved \subseteq Block /\ unread \subseteq db
  BY BoundsAssumption DEF Init, CallType, NoCall
<1>6. answer \in [Hash -> {None, "ok", "ErrParentNotFound", "ErrInvalidBlock"}]
  BY DEF Init
<1>7. reader \in [Readers -> ReaderType] /\ \A r \in Readers : reader[r].op # "receipt"
  BY DEF Init, NoRead, ReaderType
<1>8. restarts \in 0 .. MaxRestarts
  BY BoundsAssumption DEF Init
<1> QED  BY <1>2, <1>3, <1>4, <1>5, <1>6, <1>7, <1>8 DEF TypeOK, Init

LEMMA NextType == TypeOK /\ [Next]_vars => TypeOK'
<1> SUFFICES ASSUME TypeOK, [Next]_vars PROVE TypeOK'
  OBVIOUS
<1> USE NoCallIsIdle
<1>1. ASSUME NEW b \in Block, InsertKnown(b) PROVE TypeOK'
  BY <1>1, BlockAssumption DEF InsertKnown, chainVars, diskVars, TypeOK, BlockType
<1>2. ASSUME NEW b \in Block, InsertRejected(b) PROVE TypeOK'
  <2>1. Refusal(b) \in {None, "ErrParentNotFound", "ErrInvalidBlock"} /\ b.hash \in Hash
    BY BlockAssumption DEF Refusal, BlockType
  <2> QED  BY <1>2, <2>1 DEF InsertRejected, chainVars, diskVars, TypeOK
<1>3. ASSUME NEW b \in Block, AddBlock(b) 
      PROVE  /\ blocks' \in Seq(Block) /\ Len(blocks') >= 1
             /\ MapType(byHash', Hash, Block) /\ MapType(byNumber', Nat, Block)
  <2>1. b.hash \in Hash /\ b.number \in Nat
    BY BlockAssumption DEF BlockType
  <2>2. blocks' \in Seq(Block) /\ Len(blocks') >= 1
    BY <1>3 DEF AddBlock, TypeOK
  <2>3. MapType(byHash', Hash, Block)
    BY <1>3, <2>1, PutType DEF AddBlock, TypeOK
  <2>4. MapType(byNumber', Nat, Block)
    BY <1>3, <2>1, PutType DEF AddBlock, TypeOK
  <2> QED  BY <2>2, <2>3, <2>4
<1>4. ASSUME NEW b \in Block, Begin(b)
      PROVE  call' \in CallType /\ call'.stage = "index"
  <2>1. b.txs \in Seq(Tx)
    BY BlockAssumption DEF BlockType
  <2> QED  BY <1>4, <2>1 DEF Begin, CallType
<1>5. ASSUME NEW b \in Block, InsertBegin(b) PROVE TypeOK'
  <2>1. AddBlock(b) /\ Begin(b)
    BY <1>5 DEF InsertBegin
  <2> QED  BY <1>5, <1>3, <1>4, <2>1 DEF InsertBegin, diskVars, TypeOK
<1>6. CASE IndexTx
  <2> DEFINE tx == Head(call.todo)
  <2>1. call \in [block: Block, todo: Seq(Tx), stage: {"index", "account"}]
    BY <1>6 DEF IndexTx
  <2>2. tx \in Tx /\ tx.hash \in TxHash /\ Tail(call.todo) \in Seq(Tx)
    <3>1. call.todo \in Seq(Tx) /\ call.todo # <<>>
      BY <1>6, <2>1 DEF IndexTx
    <3>2. tx \in Tx /\ Tail(call.todo) \in Seq(Tx)
      BY <3>1
    <3> QED  BY <3>2 DEF Tx
  <2>3. MapType(txIndex', TxHash, Tx)
    <3>1. txIndex' = Put(txIndex, tx.hash, tx) /\ MapType(txIndex, TxHash, Tx)
      BY <1>6 DEF IndexTx, TypeOK
    <3> HIDE DEF tx
    <3> QED  BY <2>2, <3>1, PutType
  <2>4. call' \in CallType /\ (call'.stage = "account" => call'.todo # <<>>)
    BY <1>6, <2>1, <2>2 DEF IndexTx, CallType
  <2> QED  BY <1>6, <2>3, <2>4 DEF IndexTx, chainVars, diskVars, TypeOK
<1>7. CASE ApplyTx
  <2>1. call \in [block: Block, todo: Seq(Tx), stage: {"index", "account"}] /\ call.todo # <<>>
    BY <1>7 DEF ApplyTx, TypeOK
  <2>2. Head(call.todo) \in Tx /\ Tail(call.todo) \in Seq(Tx)
    BY <2>1
  <2>3. accounts' \in Accounts
    BY <1>7, <2>2, TransferType DEF ApplyTx, TypeOK
  <2>4. call' \in CallType /\ call'.stage = "index"
    BY <1>7, <2>1, <2>2 DEF ApplyTx, CallType
  <2> QED  BY <1>7, <2>3, <2>4 DEF ApplyTx, chainVars, diskVars, TypeOK
<1>8. CASE InsertReturn
  <2>1. call \in [block: Block, todo: Seq(Tx), stage: {"index", "account"}] /\ call.block.hash \in Hash
    BY <1>8, BlockAssumption DEF InsertReturn, BlockType
  <2>2. NoCall \in CallType /\ NoCall.stage # "account"
    BY DEF CallType, NoCall
  <2>3. /\ db' \subseteq Block /\ db \subseteq db' /\ unsaved' \subseteq Block
        /\ faults' \in 0 .. MaxFaults
    BY <1>8, <2>1, BoundsAssumption DEF InsertReturn, Persist, Fault, TypeOK
  <2>4. /\ UNCHANGED <<chainVars, accounts, txIndex, backend, opened, unread, toLoad, serving, reader, restarts>>
        /\ answer' = [answer EXCEPT ![call.block.hash] = "ok"] /\ call' = NoCall
    BY <1>8 DEF InsertReturn
  <2>5. answer' \in [Hash -> {None, "ok", "ErrParentNotFound", "ErrInvalidBlock"}]
    BY <2>1, <2>4 DEF TypeOK
  <2> QED  BY <2>2, <2>3, <2>4, <2>5 DEF chainVars, TypeOK
<1>9. CASE Restart
  <2>1. Genesis \in Block /\ Genesis.hash \in Hash /\ Genesis.number \in Nat
    BY BlockAssumption DEF BlockType
  <2>2. /\ blocks' \in Seq(Block) /\ Len(blocks') >= 1
        /\ MapType(byHash', Hash, Block) /\ MapType(byNumber', Nat, Block)
        /\ MapType(txIndex', TxHash, Tx)
    BY <1>9, <2>1 DEF Restart, Singleton, MapType
  <2>3. accounts' \in Accounts
    BY <1>9, AccountsAssumption DEF Restart
  <2>4. /\ db' \subseteq Block /\ backend' \in Backends /\ toLoad' \subseteq db'
        /\ opened' \in BOOLEAN /\ faults' \in 0 .. MaxFaults /\ unsaved' \subseteq Block
        /\ unread' \subseteq db' /\ serving' = FALSE
    BY <1>9 DEF Restart, TypeOK
  <2>5. call' \in CallType /\ call'.stage # "account"
    BY <1>9 DEF Restart, CallType, NoCall
  <2>6. answer' \in [Hash -> {None, "ok", "ErrParentNotFound", "ErrInvalidBlock"}]
    BY <1>9 DEF Restart, TypeOK
  <2>7. reader' \in [Readers -> ReaderType] /\ \A r \in Readers : reader'[r].op # "receipt"
    BY <1>9 DEF Restart, NoRead, ReaderType
  <2>8. restarts' \in 0 .. MaxRestarts
    BY <1>9, BoundsAssumption DEF Restart, TypeOK
  <2> QED  BY <2>2, <2>3, <2>4, <2>5, <2>6, <2>7, <2>8 DEF TypeOK
<1>10. ASSUME NEW b \in Block, LoadBlock(b) PROVE TypeOK'
  <2>1. CASE IsKnown(b)
    BY <1>10, <2>1 DEF LoadBlock, chainVars, diskVars, TypeOK
  <2>2. CASE ~IsKnown(b)
    <3>1. AddBlock(b) /\ Begin(b)
      BY <1>10, <2>2 DEF LoadBlock
    <3> QED  BY <1>10, <1>3, <1>4, <3>1 DEF LoadBlock, diskVars, TypeOK
  <2> QED  BY <2>1, <2>2
<1>18. ASSUME NEW b \in Block, SkipBlock(b) PROVE TypeOK'
  <2>1. faults' \in 0 .. MaxFaults
    BY <1>18, BoundsAssumption DEF SkipBlock, Fault, TypeOK
  <2> QED  BY <1>18, <2>1 DEF SkipBlock, chainVars, TypeOK
<1>19. CASE LoadFails
  <2>1. faults' \in 0 .. MaxFaults
    BY <1>19, BoundsAssumption DEF LoadFails, Fault, TypeOK
  <2> QED  BY <1>19, <2>1 DEF LoadFails, chainVars, TypeOK
<1>11. CASE LoadNext
  BY <1>11 DEF LoadNext, chainVars, diskVars, TypeOK, CallType, NoCall
<1>12. CASE Serve
  BY <1>12 DEF Serve, chainVars, diskVars, TypeOK
<1>13. ASSUME NEW r \in Readers, NEW h \in TxHash, ReadTx(r, h) PROVE TypeOK'
  <2>1. txIndex[h] \in Tx
    BY <1>13 DEF ReadTx, TypeOK, MapType
  <2>2. txIndex[h] # None
    BY <2>1, BlockAssumption
  <2>3. reader' \in [Readers -> ReaderType]
    BY <1>13, <2>1 DEF ReadTx, TypeOK, NoRead, ReaderType
  <2>4. \A q \in Readers : reader'[q].op = "receipt" => reader'[q].tx # None
    BY <1>13, <2>2 DEF ReadTx, TypeOK, NoRead, ReaderType
  <2> QED  BY <1>13, <2>3, <2>4 DEF ReadTx, chainVars, diskVars, TypeOK
<1>14. ASSUME NEW r \in Readers, ReadTxBlock(r) PROVE TypeOK'
  <2>1. ByNumber(reader[r].tx.num) \in Block \cup {None}
    BY DEF ByNumber, TypeOK, MapType
  <2>2. reader' \in [Readers -> ReaderType]
    <3> DEFINE read == [reader[r] EXCEPT !.op = "receipt_done", !.block = ByNumber(reader[r].tx.num)]
    <3>1. reader \in [Readers -> ReaderType]
      BY DEF TypeOK
    <3>2. reader[r] \in ReaderType
      BY <3>1
    <3>3. read \in ReaderType
      <4> HIDE DEF TypeOK
      <4> QED  BY <2>1, <3>2 DEF ReaderType
    <3>4. reader' = [reader EXCEPT ![r] = read]
      BY <1>14, <3>1 DEF ReadTxBlock
    <3> HIDE DEF read
    <3> QED  BY <3>1, <3>3, <3>4
  <2>3. \A q \in Readers : reader'[q].op = "receipt" => reader'[q].tx # None
    BY <1>14, <2>1 DEF ReadTxBlock, TypeOK, ReaderType
  <2> QED  BY <1>14, <2>2, <2>3 DEF ReadTxBlock, chainVars, diskVars, TypeOK
<1>15. ASSUME NEW r \in Readers, ReadHeight(r) PROVE TypeOK'
  <2>1. Tip.number \in Nat
    BY BlockAssumption DEF Tip, TypeOK, BlockType
  <2>2. reader' \in [Readers -> ReaderType]
    BY <1>15, <2>1 DEF ReadHeight, TypeOK, NoRead, ReaderType
  <2>3. \A q \in Readers : reader'[q].op = "receipt" => reader'[q].tx # None
    BY <1>15, <2>1 DEF ReadHeight, TypeOK, NoRead, ReaderType
  <2> QED  BY <1>15, <2>2, <2>3 DEF ReadHeight, chainVars, diskVars, TypeOK
<1>16. ASSUME NEW r \in Readers, ReadHeightBlock(r) PROVE TypeOK'
  <2>1. ByNumber(reader[r].num) \in Block \cup {None}
    BY DEF ByNumber, TypeOK, MapType
  <2>2. reader' \in [Readers -> ReaderType]
    <3> DEFINE read == [reader[r] EXCEPT !.op = "latest_done", !.block = ByNumber(reader[r].num)]
    <3>1. reader \in [Readers -> ReaderType]
      BY DEF TypeOK
    <3>2. reader[r] \in ReaderType
      BY <3>1
    <3>3. read \in ReaderType
      <4> HIDE DEF TypeOK
      <4> QED  BY <2>1, <3>2 DEF ReaderType
    <3>4. reader' = [reader EXCEPT ![r] = read]
      BY <1>16, <3>1 DEF ReadHeightBlock
    <3> HIDE DEF read
    <3> QED  BY <3>1, <3>3, <3>4
  <2>3. \A q \in Readers : reader'[q].op = "receipt" => reader'[q].tx # None
    BY <1>16, <2>1 DEF ReadHeightBlock, TypeOK, ReaderType
  <2> QED  BY <1>16, <2>2, <2>3 DEF ReadHeightBlock, chainVars, diskVars, TypeOK
<1>17. CASE UNCHANGED vars
  BY <1>17 DEF vars, TypeOK
<1> QED  BY <1>1, <1>2, <1>5, <1>6, <1>7, <1>8, <1>9, <1>10, <1>11, <1>12, <1>13, <1>14,
            <1>15, <1>16, <1>17, <1>18, <1>19 DEF Next, CallStep, StartStep, ReadStep

\* Every state of every behaviour has the types of the Go variables.
THEOREM TypeCorrect == Spec => []TypeOK
<1> QED  BY InitType, NextType, PTL DEF Spec

----------------------------------------------------------------------------
(***************************************************************************)
(* The chain, its indexes and the readers, with the backend the code opens *)
(***************************************************************************)

\* Some block of the chain carries the transaction.
Held(tx) == \E k \in 1 .. Len(blocks) : Carries(blocks[k], tx)

\* What holds c.mu works on the head, and on transactions of the head only.
CallOfTip ==
  ~IsFree =>
    /\ call.block = Tip
    /\ \A j \in DOMAIN call.todo : \E i \in DOMAIN Tip.txs : Tip.txs[i] = call.todo[j]

\* Every indexed transaction is held.
IndexHeld == \A h \in DOMAIN txIndex : Held(txIndex[h])

ReadersHold ==
  \A r \in Readers :
    /\ reader[r].op = "receipt" => Held(reader[r].tx)
    /\ reader[r].op = "receipt_done" => Carries(reader[r].block, reader[r].tx)
    /\ reader[r].op = "latest" => \E k \in 1 .. Len(blocks) : blocks[k].number = reader[r].num
    /\ reader[r].op = "latest_done" =>
         reader[r].block # None /\ reader[r].block.number = reader[r].num

\* OneChain and ReadersFindBlocks, strengthened by what the running call and
\* the waiting readers rely on.
MemInv ==
  backend = "mem" =>
    /\ IsChain(blocks)
    /\ IndexesHold(blocks)
    /\ toLoad = {} /\ db \subseteq Block
    /\ CallOfTip
    /\ IndexHeld
    /\ ReadersHold

LEMMA MemInvInit == Init => MemInv
<1> SUFFICES ASSUME Init PROVE MemInv
  OBVIOUS
<1>1. Genesis \in Block /\ Genesis.number = 0
  BY BlockAssumption
<1>2. IsChain(blocks)
  BY <1>1 DEF Init, IsChain
<1>3. IndexesHold(blocks)
  BY <1>1 DEF Init, IndexesHold, Singleton
<1>4. CallOfTip
  BY DEF Init, CallOfTip, IsFree
<1>5. ReadersHold
  BY DEF Init, ReadersHold, NoRead
<1> QED  BY <1>2, <1>3, <1>4, <1>5 DEF Init, MemInv, IndexHeld

\* A child of the head that is not known yet extends the chain and both indexes.
LEMMA AddBlockExtends ==
  ASSUME TypeOK, IsChain(blocks), IndexesHold(blocks), NEW b \in Block,
         ~IsKnown(b), Refusal(b) = None, AddBlock(b)
  PROVE  /\ IsChain(blocks') /\ IndexesHold(blocks)'
         /\ Tip' = b
         /\ \A tx : Held(tx) => Held(tx)'
         /\ \A n : (\E k \in 1 .. Len(blocks) : blocks[k].number = n)
                    => \E k \in 1 .. Len(blocks') : blocks'[k].number = n
<1> DEFINE L == Len(blocks)
<1>1. blocks \in Seq(Block) /\ L \in Nat /\ L >= 1
  BY DEF TypeOK
<1>2. /\ blocks' = Append(blocks, b)
      /\ byHash' = Put(byHash, b.hash, b) /\ byNumber' = Put(byNumber, b.number, b)
  BY DEF AddBlock
<1>3. /\ Len(blocks') = L + 1 /\ blocks'[L + 1] = b
      /\ \A i \in 1 .. L : blocks'[i] = blocks[i]
  BY <1>1, <1>2
<1>4. b.parent = blocks[L].hash /\ b.number = blocks[L].number + 1
  BY BlockAssumption DEF Refusal, Tip
<1>5. b.number = L
  BY <1>1, <1>4 DEF IsChain
<1>6. IsChain(blocks')
  <2>1. blocks'[1] = Genesis
    BY <1>1, <1>3 DEF IsChain
  <2>2. \A i \in 1 .. L + 1 : blocks'[i].number = i - 1
    <3>1. \A i \in 1 .. L : blocks'[i].number = i - 1
      BY <1>3 DEF IsChain
    <3> QED  BY <1>1, <1>3, <1>5, <3>1
  <2>3. \A i \in 1 .. L : blocks'[i + 1].parent = blocks'[i].hash
    <3>1. ASSUME NEW i \in 1 .. L - 1 PROVE blocks'[i + 1].parent = blocks'[i].hash
      <4>1. i \in 1 .. L /\ i + 1 \in 1 .. L
        BY <1>1
      <4> QED  BY <1>3, <4>1 DEF IsChain
    <3>2. blocks'[L + 1].parent = blocks'[L].hash
      BY <1>1, <1>3, <1>4
    <3> QED  BY <1>1, <3>1, <3>2
  <2> QED  BY <1>1, <1>3, <2>1, <2>2, <2>3 DEF IsChain
<1>7. \A i \in 1 .. L : blocks[i].hash # b.hash /\ blocks[i].number # b.number
  <2>1. \A i \in 1 .. L : blocks[i].hash # b.hash
    BY DEF IsKnown, IndexesHold
  <2>2. \A i \in 1 .. L : blocks[i].number # b.number
    BY <1>1, <1>5 DEF IsChain
  <2> QED  BY <2>1, <2>2
<1>8. ASSUME NEW i \in 1 .. L + 1
      PROVE  /\ blocks'[i].hash \in DOMAIN byHash' /\ byHash'[blocks'[i].hash] = blocks'[i]
             /\ blocks'[i].number \in DOMAIN byNumber' /\ byNumber'[blocks'[i].number] = blocks'[i]
  <2>1. CASE i \in 1 .. L
    <3>1. /\ blocks[i].hash \in DOMAIN byHash /\ byHash[blocks[i].hash] = blocks[i]
          /\ blocks[i].number \in DOMAIN byNumber /\ byNumber[blocks[i].number] = blocks[i]
      BY <2>1 DEF IndexesHold
    <3>2. blocks'[i] = blocks[i] /\ blocks[i].hash # b.hash /\ blocks[i].number # b.number
      BY <1>3, <1>7, <2>1
    <3> QED  BY <1>2, <3>1, <3>2 DEF Put
  <2>2. CASE i = L + 1
    BY <1>2, <1>3, <2>2 DEF Put
  <2> QED  BY <1>1, <2>1, <2>2
<1>9. ASSUME NEW h \in DOMAIN byHash' PROVE \E i \in 1 .. L + 1 : blocks'[i].hash = h
  <2>1. h \in DOMAIN byHash \/ h = b.hash
    BY <1>2 DEF Put
  <2>2. CASE h \in DOMAIN byHash
    <3>1. PICK i \in 1 .. L : blocks[i].hash = h
      BY <2>2 DEF IndexesHold
    <3> QED  BY <1>1, <1>3, <3>1
  <2> QED  BY <1>1, <1>3, <2>1, <2>2
<1>10. ASSUME NEW n \in DOMAIN byNumber' PROVE \E i \in 1 .. L + 1 : blocks'[i].number = n
  <2>1. n \in DOMAIN byNumber \/ n = b.number
    BY <1>2 DEF Put
  <2>2. CASE n \in DOMAIN byNumber
    <3>1. PICK i \in 1 .. L : blocks[i].number = n
      BY <2>2 DEF IndexesHold
    <3> QED  BY <1>1, <1>3, <3>1
  <2> QED  BY <1>1, <1>3, <2>1, <2>2
<1>11. IndexesHold(blocks)'
  BY <1>3, <1>8, <1>9, <1>10 DEF IndexesHold
<1>12. Tip' = b
  BY <1>3 DEF Tip
<1>13. ASSUME NEW tx, Held(tx) PROVE Held(tx)'
  BY <1>1, <1>3, <1>13 DEF Held
<1>14. ASSUME NEW n, NEW k \in 1 .. Len(blocks), blocks[k].number = n
       PROVE  \E j \in 1 .. Len(blocks') : blocks'[j].number = n
  BY <1>1, <1>3, <1>14
<1> QED  BY <1>6, <1>11, <1>12, <1>13, <1>14

\* While the blocks stay, so does what is said of them.
LEMMA SameBlocks ==
  ASSUME UNCHANGED chainVars
  PROVE  /\ IsChain(blocks) => IsChain(blocks')
         /\ IndexesHold(blocks) => IndexesHold(blocks)'
         /\ Tip' = Tip
         /\ \A tx : Held(tx)' <=> Held(tx)
BY DEF chainVars, diskVars, IsChain, IndexesHold, Tip, Held

\* A transaction of the head is held, under its own number.
LEMMA TipCarries ==
  ASSUME TypeOK, NEW i \in DOMAIN Tip.txs
  PROVE  Held(Tip.txs[i])
<1>1. Len(blocks) \in Nat /\ Len(blocks) >= 1 /\ Tip \in Block
  BY DEF TypeOK, Tip
<1>2. Tip # None /\ Tip.txs[i].num = Tip.number
  BY <1>1, BlockAssumption, ProducerAssumption
<1>3. Carries(blocks[Len(blocks)], Tip.txs[i])
  BY <1>2 DEF Carries, Tip
<1> QED  BY <1>1, <1>3 DEF Held

\* Looking a held transaction's number up finds a block that carries it.
LEMMA ByNumberCarries ==
  ASSUME IndexesHold(blocks), NEW tx, Held(tx)
  PROVE  Carries(ByNumber(tx.num), tx)
<1>1. PICK k \in 1 .. Len(blocks) : Carries(blocks[k], tx)
  BY DEF Held
<1>2. blocks[k].number = tx.num
  BY <1>1 DEF Carries
<1>3. tx.num \in DOMAIN byNumber /\ byNumber[tx.num] = blocks[k]
  BY <1>2 DEF IndexesHold
<1> QED  BY <1>1, <1>3 DEF ByNumber

LEMMA MemInvNext == TypeOK /\ MemInv /\ [Next]_vars => MemInv'
<1> SUFFICES ASSUME TypeOK, MemInv, [Next]_vars, backend' = "mem" PROVE MemInv'
  BY DEF MemInv
<1>0. backend = "mem"
  BY DEF Next, CallStep, StartStep, ReadStep, InsertKnown, InsertRejected, InsertBegin,
         IndexTx, ApplyTx, InsertReturn, LoadNext, Restart, LoadBlock, SkipBlock, LoadFails,
         Serve, ReadTx, ReadTxBlock, ReadHeight, ReadHeightBlock, vars, diskVars
<1>i. /\ IsChain(blocks) /\ IndexesHold(blocks) /\ toLoad = {} /\ db \subseteq Block
      /\ CallOfTip /\ ReadersHold
      /\ IndexHeld
  BY <1>0 DEF MemInv
<1>1. ASSUME UNCHANGED <<chainVars, txIndex, call, toLoad, db, reader>> PROVE MemInv'
  <2>1. CallOfTip'
    BY <1>i, <1>1, SameBlocks DEF CallOfTip, IsFree
  <2>2. ReadersHold'
    BY <1>i, <1>1, SameBlocks DEF ReadersHold, chainVars, diskVars
  <2>3. IsChain(blocks)'
    BY <1>i, <1>1, SameBlocks DEF IsChain
  <2>4. IndexHeld'
    BY <1>i, <1>1 DEF IndexHeld, Held, chainVars, diskVars
  <2> QED  BY <1>i, <1>1, <2>1, <2>2, <2>3, <2>4, SameBlocks DEF MemInv
<1>2. ASSUME NEW b \in Block, InsertBegin(b) PROVE MemInv'
  <2>1. /\ ~IsKnown(b) /\ Refusal(b) = None /\ AddBlock(b) /\ Begin(b)
        /\ UNCHANGED <<txIndex, toLoad, db, reader>>
    BY <1>2 DEF InsertBegin, diskVars
  <2>2. /\ IsChain(blocks') /\ IndexesHold(blocks)' /\ Tip' = b
        /\ \A tx : Held(tx) => Held(tx)'
        /\ \A n : (\E k \in 1 .. Len(blocks) : blocks[k].number = n)
                   => \E k \in 1 .. Len(blocks') : blocks'[k].number = n
    BY <1>i, <2>1, AddBlockExtends
  <2>3. CallOfTip'
    BY <2>1, <2>2 DEF Begin, CallOfTip
  <2>4. ReadersHold'
    BY <1>i, <2>1, <2>2 DEF ReadersHold
  <2>5. IndexHeld'
    <3>1. ASSUME NEW h \in DOMAIN txIndex'
          PROVE  \E k \in 1 .. Len(blocks') : Carries(blocks'[k], txIndex'[h])
      <4>1. Held(txIndex[h]) /\ txIndex'[h] = txIndex[h]
        BY <1>i, <2>1 DEF IndexHeld
      <4> DEFINE t == txIndex[h]
      <4>2. Held(t)'
        BY <2>1, <2>2, <4>1
      <4> QED  BY <4>2 DEF Held
    <3> QED  BY <3>1 DEF IndexHeld, Held
  <2>6. IsChain(blocks)'
    BY <2>2 DEF IsChain
  <2> QED  BY <1>i, <2>1, <2>2, <2>3, <2>4, <2>5, <2>6 DEF MemInv
<1>3. CASE IndexTx
  <2> DEFINE tx == Head(call.todo)
  <2>1. /\ ~IsFree /\ call.todo # <<>> /\ txIndex' = Put(txIndex, tx.hash, tx)
        /\ UNCHANGED <<chainVars, toLoad, db, reader>>
        /\ call'.block = call.block
        /\ call'.todo \in {call.todo, Tail(call.todo)}
    BY <1>3, NoCallIsIdle DEF IndexTx, diskVars
  <2>2. call.todo \in Seq(Tx)
    BY <1>3, NoCallIsIdle DEF IndexTx
  <2>3. PICK i \in DOMAIN Tip.txs : Tip.txs[i] = tx
    BY <1>i, <2>1, <2>2 DEF CallOfTip
  <2>4. Held(tx)
    BY <2>3, TipCarries
  <2>5. IndexHeld'
    <3>1. ASSUME NEW h \in DOMAIN txIndex'
          PROVE  \E k \in 1 .. Len(blocks) : Carries(blocks[k], txIndex'[h])
      BY <1>i, <2>1, <2>4 DEF IndexHeld, Held, Put
    <3> QED  BY <2>1, <3>1 DEF IndexHeld, Held, chainVars, diskVars
  <2>6. \A j \in DOMAIN call'.todo : \E k \in DOMAIN call.todo : call'.todo[j] = call.todo[k]
    <3>1. CASE call'.todo = call.todo
      BY <3>1
    <3>2. CASE call'.todo = Tail(call.todo)
      BY <2>1, <2>2, <3>2
    <3> QED  BY <2>1, <3>1, <3>2
  <2>7. CallOfTip'
    BY <1>i, <2>1, <2>6, SameBlocks DEF CallOfTip
  <2>8. ReadersHold'
    BY <1>i, <2>1, SameBlocks DEF ReadersHold, chainVars, diskVars
  <2>9. IsChain(blocks)'
    BY <1>i, <2>1, SameBlocks DEF IsChain
  <2> QED  BY <1>i, <2>1, <2>5, <2>7, <2>8, <2>9, SameBlocks DEF MemInv
<1>4. CASE ApplyTx
  <2>1. /\ ~IsFree /\ call.todo # <<>>
        /\ UNCHANGED <<chainVars, txIndex, toLoad, db, reader>>
        /\ call'.block = call.block
        /\ call'.todo = Tail(call.todo)
    BY <1>4, NoCallIsIdle DEF ApplyTx, TypeOK, diskVars
  <2>2. call.todo \in Seq(Tx)
    BY <1>4, NoCallIsIdle DEF ApplyTx
  <2>3. \A j \in DOMAIN call'.todo : \E k \in DOMAIN call.todo : call'.todo[j] = call.todo[k]
    BY <2>1, <2>2
  <2>4. CallOfTip'
    BY <1>i, <2>1, <2>3, SameBlocks DEF CallOfTip
  <2>5. ReadersHold'
    BY <1>i, <2>1, SameBlocks DEF ReadersHold, chainVars, diskVars
  <2>6. IsChain(blocks)'
    BY <1>i, <2>1, SameBlocks DEF IsChain
  <2>7. IndexHeld'
    BY <1>i, <2>1 DEF IndexHeld, Held, chainVars, diskVars
  <2> QED  BY <1>i, <2>1, <2>4, <2>5, <2>6, <2>7, SameBlocks DEF MemInv
<1>5. CASE InsertReturn \/ LoadNext
  <2>1. UNCHANGED <<chainVars, txIndex, toLoad, reader>> /\ call' = NoCall
    BY <1>5 DEF InsertReturn, LoadNext
  <2>2. db' \subseteq Block
    BY <1>i, <1>5, NoCallIsIdle DEF InsertReturn, Persist, LoadNext, diskVars, TypeOK, CallType
  <2>3. CallOfTip'
    BY <2>1 DEF CallOfTip, IsFree
  <2>4. ReadersHold'
    BY <1>i, <2>1, SameBlocks DEF ReadersHold, chainVars, diskVars
  <2>5. IsChain(blocks)'
    BY <1>i, <2>1, SameBlocks DEF IsChain
  <2>6. IndexHeld'
    BY <1>i, <2>1 DEF IndexHeld, Held, chainVars, diskVars
  <2> QED  BY <1>i, <2>1, <2>2, <2>3, <2>4, <2>5, <2>6, SameBlocks DEF MemInv
<1>6. CASE Restart
  <2>1. Genesis \in Block /\ Genesis.number = 0
    BY BlockAssumption
  <2>2. /\ blocks' = <<Genesis>> /\ byHash' = Singleton(Genesis.hash, Genesis)
        /\ byNumber' = Singleton(Genesis.number, Genesis) /\ txIndex' = <<>>
        /\ db' = {} /\ toLoad' = {} /\ call' = NoCall
        /\ reader' = [r \in Readers |-> NoRead]
    BY <1>0, <1>6 DEF Restart
  <2>3. IsChain(blocks)'
    BY <2>1, <2>2 DEF IsChain
  <2>4. IndexesHold(blocks)'
    BY <2>1, <2>2 DEF IndexesHold, Singleton
  <2>5. CallOfTip'
    BY <2>2 DEF CallOfTip, IsFree
  <2>6. ReadersHold'
    BY <2>2 DEF ReadersHold, NoRead
  <2> QED  BY <2>2, <2>3, <2>4, <2>5, <2>6 DEF MemInv, IndexHeld
<1>7. ASSUME NEW b \in Block, LoadBlock(b) \/ SkipBlock(b) PROVE MemInv'
  BY <1>i, <1>7 DEF LoadBlock, SkipBlock
<1>15. CASE LoadFails
  BY <1>0, <1>15 DEF LoadFails, Fault
<1>8. ASSUME NEW r \in Readers, UNCHANGED <<chainVars, txIndex, call, toLoad, db>>,
             ReadersHold'
      PROVE  MemInv'
  <2>1. CallOfTip'
    BY <1>i, <1>8, SameBlocks DEF CallOfTip, IsFree
  <2>2. IsChain(blocks)'
    BY <1>i, <1>8, SameBlocks DEF IsChain
  <2>3. IndexHeld'
    BY <1>i, <1>8 DEF IndexHeld, Held, chainVars, diskVars
  <2> QED  BY <1>i, <1>8, <2>1, <2>2, <2>3, SameBlocks DEF MemInv
<1>9. ASSUME NEW r \in Readers, NEW h \in TxHash, ReadTx(r, h) PROVE MemInv'
  <2>1. /\ UNCHANGED <<chainVars, txIndex, call, toLoad, db>>
        /\ reader' = [reader EXCEPT ![r] = [NoRead EXCEPT !.op = "receipt", !.tx = txIndex[h]]]
        /\ Held(txIndex[h])
    BY <1>i, <1>9 DEF ReadTx, IndexHeld, diskVars
  <2>2. ReadersHold'
    BY <1>i, <2>1, SameBlocks DEF ReadersHold, chainVars, diskVars, TypeOK, NoRead
  <2> QED  BY <1>8, <2>1, <2>2
<1>10. ASSUME NEW r \in Readers, ReadTxBlock(r) PROVE MemInv'
  <2>1. /\ UNCHANGED <<chainVars, txIndex, call, toLoad, db>>
        /\ reader' = [reader EXCEPT ![r].op = "receipt_done", ![r].block = ByNumber(reader[r].tx.num)]
        /\ Carries(ByNumber(reader[r].tx.num), reader[r].tx)
    BY <1>i, <1>10, ByNumberCarries DEF ReadTxBlock, ReadersHold, diskVars
  <2>2. ReadersHold'
    BY <1>i, <2>1, SameBlocks DEF ReadersHold, chainVars, diskVars, TypeOK, ReaderType
  <2> QED  BY <1>8, <2>1, <2>2
<1>11. ASSUME NEW r \in Readers, ReadHeight(r) PROVE MemInv'
  <2>1. /\ UNCHANGED <<chainVars, txIndex, call, toLoad, db>>
        /\ reader' = [reader EXCEPT ![r] = [NoRead EXCEPT !.op = "latest", !.num = Tip.number]]
    BY <1>11 DEF ReadHeight, diskVars
  <2>2. \E k \in 1 .. Len(blocks) : blocks[k].number = Tip.number
    BY DEF TypeOK, Tip
  <2>3. ReadersHold'
    BY <1>i, <2>1, <2>2, SameBlocks DEF ReadersHold, chainVars, diskVars, TypeOK, NoRead
  <2> QED  BY <1>8, <2>1, <2>3
<1>12. ASSUME NEW r \in Readers, ReadHeightBlock(r) PROVE MemInv'
  <2>1. /\ UNCHANGED <<chainVars, txIndex, call, toLoad, db>> /\ reader[r].op = "latest"
        /\ reader' = [reader EXCEPT ![r].op = "latest_done", ![r].block = ByNumber(reader[r].num)]
    BY <1>12 DEF ReadHeightBlock, diskVars
  <2>2. PICK k \in 1 .. Len(blocks) : blocks[k].number = reader[r].num
    BY <1>i, <2>1 DEF ReadersHold
  <2>3. ByNumber(reader[r].num) = blocks[k] /\ blocks[k] \in Block
    <3>1. /\ reader[r].num \in DOMAIN byNumber /\ byNumber[reader[r].num] = blocks[k]
      BY <1>i, <2>2 DEF IndexesHold
    <3>2. blocks[k] \in Block
      BY <2>2 DEF TypeOK
    <3> QED  BY <3>1, <3>2 DEF ByNumber
  <2>4. ByNumber(reader[r].num) # None /\ ByNumber(reader[r].num).number = reader[r].num
    BY <2>2, <2>3, BlockAssumption
  <2>5. ReadersHold'
    BY <1>i, <2>1, <2>4, SameBlocks DEF ReadersHold, chainVars, diskVars, TypeOK, ReaderType
  <2> QED  BY <1>8, <2>1, <2>5
<1>13. ASSUME NEW b \in Block, InsertKnown(b) \/ InsertRejected(b) PROVE MemInv'
  BY <1>1, <1>13 DEF InsertKnown, InsertRejected, diskVars
<1>14. CASE Serve \/ UNCHANGED vars
  BY <1>1, <1>14 DEF Serve, vars, chainVars, diskVars
<1> QED  BY <1>2, <1>3, <1>4, <1>5, <1>6, <1>7, <1>9, <1>10, <1>11, <1>12, <1>13, <1>14, <1>15
         DEF Next, CallStep, StartStep, ReadStep

LEMMA MemInvCorrect == Spec => []MemInv
<1> QED  BY MemInvInit, MemInvNext, TypeCorrect, PTL DEF Spec

\* With the backend the code opens, the blocks are one linked chain from genesis
\* and both indexes are exact, whatever is inserted, by whom and when.
THEOREM OneChainCorrect == Spec => []OneChain
<1>1. MemInv => OneChain
  BY DEF MemInv, OneChain
<1> QED  BY <1>1, MemInvCorrect, PTL

\* Reads in two steps never find a transaction without its block, nor a height
\* without its block.
THEOREM ReadersCorrect == Spec => []ReadersFindBlocks
<1>1. MemInv => ReadersFindBlocks
  BY DEF MemInv, ReadersHold, ReadersFindBlocks
<1> QED  BY <1>1, MemInvCorrect, PTL

----------------------------------------------------------------------------
(***************************************************************************)
(* Answers outlive the process as long as the storage does                 *)
(***************************************************************************)

\* The hashes that a restart of a disk backend finds again.
Kept == {Genesis.hash} \cup {b.hash : b \in db}

\* Those of the blocks that a failure kept out of the storage.
Lost == {b.hash : b \in unsaved}

\* AckedBlockIsServed, strengthened: an answer is given only for a block that is kept
\* or lost, and so is every block in the index but the one still being inserted.
StoreInv ==
  /\ \A h \in Hash : answer[h] = "ok" => h \in Kept \cup Lost
  /\ Kept \subseteq DOMAIN byHash \cup {b.hash : b \in toLoad \cup unread}
  /\ IsFree => DOMAIN byHash \subseteq Kept \cup Lost
  /\ ~IsFree => /\ DOMAIN byHash \subseteq Kept \cup Lost \cup {call.block.hash}
                /\ call.block.hash \in DOMAIN byHash
                /\ ~serving => call.block \in db

LEMMA StoreInvInit == Init => StoreInv
BY BlockAssumption DEF Init, StoreInv, Kept, Lost, IsFree, Singleton

LEMMA StoreInvNext == TypeOK /\ StoreInv /\ [Next]_vars => StoreInv'
<1> SUFFICES ASSUME TypeOK, StoreInv, [Next]_vars PROVE StoreInv'
  OBVIOUS
<1>1. ASSUME UNCHANGED <<byHash, db, unsaved, unread, call, toLoad, serving, answer>> PROVE StoreInv'
  BY <1>1 DEF StoreInv, Kept, Lost, IsFree
<1>2. ASSUME NEW b \in Block, InsertKnown(b) PROVE StoreInv'
  <2>1. b.hash \in Kept \cup Lost
    BY <1>2 DEF InsertKnown, IsKnown, StoreInv
  <2> QED  BY <1>2, <2>1 DEF InsertKnown, chainVars, diskVars, StoreInv, Kept, Lost, IsFree, TypeOK
<1>3. ASSUME NEW b \in Block, InsertRejected(b) PROVE StoreInv'
  <2>1. Refusal(b) # "ok"
    BY BlockAssumption DEF Refusal
  <2> QED  BY <1>3, <2>1 DEF InsertRejected, chainVars, diskVars, StoreInv, Kept, Lost, IsFree, TypeOK
<1>4. ASSUME NEW b \in Block, IsFree, AddBlock(b), Begin(b),
             UNCHANGED <<db, unsaved, unread, serving, answer>>,
             serving => toLoad' = toLoad,
             ~serving => b \in db /\ toLoad' = toLoad \ {b}
      PROVE  StoreInv'
  <2>1. DOMAIN byHash' = DOMAIN byHash \cup {b.hash} /\ call'.block = b
    BY <1>4 DEF AddBlock, Put, Begin
  <2>2. call' # NoCall
    BY <1>4 DEF Begin, NoCall
  <2>3. {c.hash : c \in toLoad \cup unread} \subseteq {c.hash : c \in toLoad' \cup unread'} \cup {b.hash}
    BY <1>4 DEF TypeOK
  <2>4. Kept' = Kept /\ Lost' = Lost /\ DOMAIN byHash \subseteq Kept \cup Lost
    BY <1>4 DEF Kept, Lost, StoreInv
  <2>5. Kept' \subseteq DOMAIN byHash' \cup {c.hash : c \in toLoad' \cup unread'}
    BY <2>1, <2>3, <2>4 DEF StoreInv
  <2> QED  BY <1>4, <2>1, <2>2, <2>4, <2>5 DEF StoreInv, IsFree
<1>5. ASSUME NEW b \in Block, InsertBegin(b) PROVE StoreInv'
  BY <1>4, <1>5 DEF InsertBegin, diskVars
<1>6. ASSUME NEW b \in Block, LoadBlock(b) PROVE StoreInv'
  <2>1. /\ b \in db /\ ~serving /\ toLoad' = toLoad \ {b} /\ IsFree
        /\ UNCHANGED <<db, unsaved, unread, serving, answer>>
    BY <1>6 DEF LoadBlock, TypeOK, diskVars
  <2>2. CASE ~IsKnown(b)
    BY <1>4, <1>6, <2>1, <2>2 DEF LoadBlock
  <2>3. CASE IsKnown(b)
    <3>1. UNCHANGED <<byHash, call>> /\ b.hash \in DOMAIN byHash
      BY <1>6, <2>3 DEF LoadBlock, chainVars, diskVars, IsKnown
    <3>2. Kept' = Kept /\ Lost' = Lost
      BY <2>1 DEF Kept, Lost
    <3>3. Kept \subseteq DOMAIN byHash \cup {c.hash : c \in toLoad' \cup unread'}
      BY <2>1, <3>1 DEF StoreInv
    <3> QED  BY <2>1, <3>1, <3>2, <3>3 DEF StoreInv, IsFree
  <2> QED  BY <2>2, <2>3
<1>14. ASSUME IsFree, UNCHANGED <<byHash, db, unsaved, call, serving, answer>>,
              toLoad \cup unread \subseteq toLoad' \cup unread'
       PROVE  StoreInv'
  <2>1. Kept' = Kept /\ Lost' = Lost
    BY <1>14 DEF Kept, Lost
  <2>2. Kept \subseteq DOMAIN byHash \cup {c.hash : c \in toLoad' \cup unread'}
    BY <1>14 DEF StoreInv
  <2> QED  BY <1>14, <2>1, <2>2 DEF StoreInv, IsFree
<1>15. ASSUME NEW b \in Block, SkipBlock(b) PROVE StoreInv'
  BY <1>14, <1>15 DEF SkipBlock, chainVars
<1>16. CASE LoadFails
  BY <1>14, <1>16 DEF LoadFails, chainVars
<1>7. CASE IndexTx \/ ApplyTx
  <2>1. ~IsFree /\ call' # NoCall /\ call'.block = call.block
    <3>1. call \in [block: Block, todo: Seq(Tx), stage: {"index", "account"}]
      BY <1>7, NoCallIsIdle DEF IndexTx, ApplyTx
    <3>2. call'.block = call.block /\ call'.stage \in {"index", "account"}
      BY <1>7, <3>1 DEF IndexTx, ApplyTx
    <3> QED  BY <1>7, <3>2, NoCallIsIdle DEF IndexTx, ApplyTx, NoCall
  <2>2. UNCHANGED <<byHash, db, unsaved, unread, toLoad, serving, answer>>
    BY <1>7 DEF IndexTx, ApplyTx, chainVars, diskVars
  <2> QED  BY <2>1, <2>2 DEF StoreInv, Kept, Lost, IsFree
<1>8. CASE InsertReturn
  <2>1. /\ ~IsFree /\ serving /\ serving' = serving /\ call' = NoCall
        /\ answer' = [answer EXCEPT ![call.block.hash] = "ok"]
        /\ UNCHANGED <<byHash, toLoad, unread>>
    BY <1>8, NoCallIsIdle DEF InsertReturn, chainVars
  <2>2. /\ Kept \cup Lost \cup {call.block.hash} \subseteq Kept' \cup Lost'
        /\ Kept' \subseteq Kept \cup {call.block.hash}
    <3>1. CASE db' = db \cup {call.block} /\ unsaved' = unsaved \ {call.block}
      <4>1. Kept' = Kept \cup {call.block.hash} /\ Lost \subseteq Lost' \cup {call.block.hash}
        BY <3>1 DEF Kept, Lost
      <4> QED  BY <4>1
    <3>2. CASE db' = db /\ unsaved' = unsaved \cup ({call.block} \ db)
      <4>1. Kept' = Kept /\ Lost \subseteq Lost' /\ call.block.hash \in Kept \cup Lost'
        BY <3>2 DEF Kept, Lost
      <4> QED  BY <4>1
    <3> QED  BY <1>8, <3>1, <3>2 DEF InsertReturn, Persist
  <2> QED  BY <2>1, <2>2 DEF StoreInv, IsFree, TypeOK
<1>9. CASE LoadNext
  <2>1. ~IsFree /\ ~serving /\ call' = NoCall /\ UNCHANGED <<byHash, db, unsaved, unread, toLoad, serving, answer>>
    BY <1>9, NoCallIsIdle DEF LoadNext, chainVars, diskVars
  <2>2. call.block.hash \in Kept
    BY <2>1 DEF StoreInv, Kept
  <2> QED  BY <2>1, <2>2 DEF StoreInv, Kept, Lost, IsFree
<1>10. CASE Restart
  <2>1. DOMAIN byHash' = {Genesis.hash} /\ toLoad' = db' /\ call' = NoCall
    BY <1>10 DEF Restart, Singleton
  <2>2. ASSUME NEW h \in Hash, answer'[h] = "ok" PROVE h \in Kept' \cup Lost'
    <3>1. CASE backend = "disk"
      BY <1>10, <2>2, <3>1 DEF Restart, StoreInv, Kept, Lost
    <3>2. CASE backend # "disk"
      BY <1>10, <2>2, <3>2, BlockAssumption DEF Restart
    <3> QED  BY <3>1, <3>2
  <2> QED  BY <2>1, <2>2 DEF StoreInv, Kept, Lost, IsFree
<1>11. CASE Serve
  <2>1. toLoad = {} /\ IsFree /\ UNCHANGED <<byHash, db, unsaved, unread, call, toLoad, answer>>
    BY <1>11 DEF Serve, chainVars, diskVars
  <2> QED  BY <2>1 DEF StoreInv, Kept, Lost, IsFree
<1>12. ASSUME NEW r \in Readers, ReadStep(r) \/ ReadHeight(r) \/ \E h \in TxHash : ReadTx(r, h)
       PROVE  StoreInv'
  BY <1>1, <1>12 DEF ReadStep, ReadTxBlock, ReadHeightBlock, ReadHeight, ReadTx, chainVars, diskVars
<1>13. CASE UNCHANGED vars
  BY <1>1, <1>13 DEF vars
<1> QED  BY <1>2, <1>3, <1>5, <1>6, <1>7, <1>8, <1>9, <1>10, <1>11, <1>12, <1>13, <1>15, <1>16
         DEF Next, CallStep, StartStep

\* What InsertBlock answered with nil is found by hash in every later process
\* that serves, or the storage was one that dies with its process, or it failed: at the
\* Put of this block, or when this process read it.
THEOREM AckedCorrect == Spec => []AckedBlockIsServed
<1>1. TypeOK /\ StoreInv => AckedBlockIsServed
  <2> SUFFICES ASSUME TypeOK, StoreInv, serving, NEW h \in Hash, answer[h] = "ok"
               PROVE  h \in DOMAIN byHash \/ \E b \in unsaved \cup unread : b.hash = h
    BY DEF AckedBlockIsServed
  <2>1. toLoad = {}
    BY DEF TypeOK
  <2>2. CASE h \in Lost
    BY <2>2 DEF Lost
  <2>3. CASE h \in Kept
    BY <2>1, <2>3 DEF StoreInv
  <2> QED  BY <2>2, <2>3 DEF StoreInv
<1> QED  BY <1>1, StoreInvInit, StoreInvNext, TypeCorrect, PTL DEF Spec

----------------------------------------------------------------------------
(***************************************************************************)
(* What a sequence of transactions makes of the ledger                     *)
(***************************************************************************)

LEMMA EffectType ==
  ASSUME NEW acc \in Accounts, NEW tx \in Tx
  PROVE  Effect(acc, tx) \in Accounts
BY TransferType DEF Effect

\* g lists the ledgers from acc on, one transaction after the other.
Runs(g, acc, txs) ==
  /\ g[0] = acc
  /\ \A i \in 1 .. Len(txs) : g[i] = Effect(g[i - 1], txs[i])

LEMMA RunsTypes ==
  ASSUME NEW acc \in Accounts, NEW txs \in Seq(Tx), NEW g, Runs(g, acc, txs)
  PROVE  \A i \in 0 .. Len(txs) : g[i] \in Accounts
<1> DEFINE S == {i \in 0 .. Len(txs) : g[i] \in Accounts}
<1>1. 0 \in S
  BY DEF Runs
<1>2. ASSUME NEW i \in 1 .. Len(txs), i - 1 \in S PROVE i \in S
  <2>1. g[i] = Effect(g[i - 1], txs[i]) /\ g[i - 1] \in Accounts /\ txs[i] \in Tx
    BY <1>2 DEF Runs
  <2> QED  BY <2>1, EffectType
<1>3. \A i \in 0 .. Len(txs) : i \in S
  <2> DEFINE n == Len(txs)
  <2>1. n \in Nat
    OBVIOUS
  <2> HIDE DEF S, n
  <2>2. \A i \in 1 .. n : i - 1 \in S => i \in S
    BY <1>2 DEF n
  <2>3. \A i \in 0 .. n : i \in S
    BY <1>1, <2>1, <2>2, UpToInduction
  <2> QED  BY <2>3 DEF n
<1> QED  BY <1>3

\* There is such a list.
LEMMA RunsExist ==
  ASSUME NEW acc \in Accounts, NEW txs \in Seq(Tx)
  PROVE  \E g : g = [i \in 0 .. Len(txs) |-> IF i = 0 THEN acc ELSE Effect(g[i - 1], txs[i])]
<1> DEFINE n == Len(txs)
           step == [i \in 1 .. n |-> [a \in Accounts |-> Effect(a, txs[i])]]
<1>1. n \in Nat /\ \A i \in 1 .. n : txs[i] \in Tx
  OBVIOUS
<1>2. step \in [1 .. n -> [Accounts -> Accounts]]
  BY <1>1, EffectType
<1> HIDE DEF step, n
<1>3. PICK g : Recursion(g, n, Accounts, acc, step)
  BY Zenon, <1>1, <1>2, RecursionHolds
<1>4. ASSUME NEW i \in 1 .. n PROVE g[i] = Effect(g[i - 1], txs[i])
  <2>1. g[i - 1] \in Accounts /\ g[i] = step[i][g[i - 1]]
    BY <1>1, <1>3 DEF Recursion
  <2> QED  BY <2>1 DEF step
<1>5. g = [i \in 0 .. n |-> IF i = 0 THEN acc ELSE Effect(g[i - 1], txs[i])]
  BY <1>1, <1>3, <1>4 DEF Recursion
<1> QED  BY <1>5 DEF n

\* So the ledger after the transactions is where any such list ends.
LEMMA LedgerIs ==
  ASSUME NEW acc \in Accounts, NEW txs \in Seq(Tx), NEW h, Runs(h, acc, txs)
  PROVE  LedgerAfter(acc, txs) = h[Len(txs)] /\ LedgerAfter(acc, txs) \in Accounts
<1> DEFINE Equation(g) ==
             g = [i \in 0 .. Len(txs) |-> IF i = 0 THEN acc ELSE Effect(g[i - 1], txs[i])]
           g == CHOOSE g : Equation(g)
<1>1. LedgerAfter(acc, txs) = g[Len(txs)]
  BY Zenon DEF LedgerAfter
<1>2. Equation(g)
  <2>1. \E f : Equation(f)
    BY RunsExist
  <2> QED  BY Zenon, <2>1
<1> HIDE DEF g
<1>3. Runs(g, acc, txs)
  <2>1. g[0] = acc
    BY <1>2
  <2>2. \A i \in 1 .. Len(txs) : g[i] = Effect(g[i - 1], txs[i])
    BY <1>2
  <2> QED  BY <2>1, <2>2 DEF Runs
<1> DEFINE S == {i \in 0 .. Len(txs) : g[i] = h[i]}
<1>4. 0 \in S
  BY <1>3 DEF Runs
<1>5. ASSUME NEW i \in 1 .. Len(txs), i - 1 \in S PROVE i \in S
  BY <1>3, <1>5 DEF Runs
<1>6. Len(txs) \in S
  <2> DEFINE n == Len(txs)
  <2>1. n \in Nat
    OBVIOUS
  <2> HIDE DEF S, n
  <2>2. \A i \in 1 .. n : i - 1 \in S => i \in S
    BY <1>5 DEF n
  <2>3. \A i \in 0 .. n : i \in S
    BY <1>4, <2>1, <2>2, UpToInduction
  <2> QED  BY <2>1, <2>3 DEF n
<1>7. g[Len(txs)] \in Accounts
  BY <1>3, RunsTypes
<1> QED  BY <1>1, <1>6, <1>7

LEMMA LedgerRuns ==
  ASSUME NEW acc \in Accounts, NEW txs \in Seq(Tx)
  PROVE  \E g : Runs(g, acc, txs) /\ LedgerAfter(acc, txs) = g[Len(txs)]
<1>1. PICK g : g = [i \in 0 .. Len(txs) |-> IF i = 0 THEN acc ELSE Effect(g[i - 1], txs[i])]
  BY RunsExist
<1>2. Runs(g, acc, txs)
  <2>1. g[0] = acc
    BY <1>1
  <2>2. \A i \in 1 .. Len(txs) : g[i] = Effect(g[i - 1], txs[i])
    BY <1>1
  <2> QED  BY <2>1, <2>2 DEF Runs
<1> QED  BY <1>2, LedgerIs

\* No transactions change nothing.
LEMMA LedgerOfNone ==
  ASSUME NEW acc \in Accounts
  PROVE  LedgerAfter(acc, <<>>) = acc
<1> DEFINE g == [i \in 0 .. 0 |-> acc]
<1>1. Runs(g, acc, <<>>) /\ g[Len(<<>>)] = acc
  BY DEF Runs
<1>2. <<>> \in Seq(Tx)
  OBVIOUS
<1> HIDE DEF g
<1> QED  BY <1>1, <1>2, LedgerIs

\* Two sequences in a row.
LEMMA LedgerOfBoth ==
  ASSUME NEW acc \in Accounts, NEW s \in Seq(Tx), NEW t \in Seq(Tx)
  PROVE  LedgerAfter(acc, s \o t) = LedgerAfter(LedgerAfter(acc, s), t)
<1> DEFINE m == Len(s)
           n == Len(t)
<1>1. PICK g : Runs(g, acc, s) /\ LedgerAfter(acc, s) = g[m]
  BY LedgerRuns
<1>2. g[m] \in Accounts
  BY <1>1, RunsTypes
<1>3. PICK h : Runs(h, g[m], t) /\ LedgerAfter(g[m], t) = h[n]
  BY <1>2, LedgerRuns
<1> DEFINE f == [i \in 0 .. m + n |-> IF i <= m THEN g[i] ELSE h[i - m]]
<1>4. /\ s \o t \in Seq(Tx) /\ Len(s \o t) = m + n /\ m \in Nat /\ n \in Nat
      /\ \A i \in 1 .. m : (s \o t)[i] = s[i]
      /\ \A i \in m + 1 .. m + n : (s \o t)[i] = t[i - m]
  OBVIOUS
<1> HIDE DEF m, n
<1>5. f[0] = acc
  BY <1>1, <1>4 DEF Runs
<1>6. ASSUME NEW i \in 1 .. m + n PROVE f[i] = Effect(f[i - 1], (s \o t)[i])
  <2>1. CASE i <= m
    <3>1. i \in 1 .. m /\ i \in 0 .. m + n /\ i - 1 \in 0 .. m + n /\ i - 1 <= m
      BY <1>4, <2>1
    <3>2. f[i] = g[i]
      BY <2>1, <3>1
    <3>3. f[i - 1] = g[i - 1]
      BY <3>1
    <3>4. (s \o t)[i] = s[i]
      BY <1>4, <3>1
    <3> HIDE DEF f
    <3>5. g[i] = Effect(g[i - 1], s[i])
      BY <1>1, <3>1 DEF Runs, m
    <3> QED  BY <3>2, <3>3, <3>4, <3>5
  <2>2. CASE i = m + 1
    <3>1. /\ i \in 0 .. m + n /\ i - 1 \in 0 .. m + n /\ i \in m + 1 .. m + n
          /\ ~(i <= m) /\ i - 1 <= m /\ i - m = 1 /\ i - 1 = m /\ 1 \in 1 .. n
      BY <1>4, <2>2
    <3>2. f[i] = h[1]
      BY <3>1
    <3>3. f[i - 1] = g[m]
      BY <3>1
    <3>4. (s \o t)[i] = t[1]
      BY <1>4, <3>1
    <3> HIDE DEF f
    <3>5. h[1] = Effect(h[1 - 1], t[1]) /\ h[0] = g[m] /\ 1 - 1 = 0
      BY <1>3, <3>1 DEF Runs, n
    <3> QED  BY <3>2, <3>3, <3>4, <3>5
  <2>3. CASE i > m + 1
    <3> DEFINE k == i - m
    <3>1. k \in 1 .. n /\ i \in m + 1 .. m + n /\ i - 1 \in 0 .. m + n /\ ~(i - 1 <= m)
      BY <1>4, <2>3
    <3>2. f[i] = h[k] /\ (s \o t)[i] = t[k]
      BY <1>4, <2>3, <3>1
    <3>3. f[i - 1] = h[(i - 1) - m] /\ (i - 1) - m = k - 1
      BY <1>4, <3>1
    <3> HIDE DEF f, k
    <3>4. h[k] = Effect(h[k - 1], t[k])
      BY <1>3, <3>1 DEF Runs, n
    <3> QED  BY <3>2, <3>3, <3>4
  <2> QED  BY <1>4, <2>1, <2>2, <2>3
<1>7. f[m + n] = h[n]
  <2>1. CASE n = 0
    BY <1>3, <1>4, <2>1 DEF Runs
  <2>2. CASE n # 0
    BY <1>4, <2>2
  <2> QED  BY <2>1, <2>2
<1> HIDE DEF f
<1>8. Runs(f, acc, s \o t)
  BY <1>4, <1>5, <1>6 DEF Runs
<1>9. LedgerAfter(acc, s \o t) = f[m + n]
  <2> DEFINE st == s \o t
  <2>1. st \in Seq(Tx) /\ Len(st) = m + n /\ Runs(f, acc, st)
    BY <1>4, <1>8
  <2> HIDE DEF st
  <2>2. LedgerAfter(acc, st) = f[m + n]
    BY <2>1, LedgerIs
  <2> QED  BY <2>2 DEF st
<1> QED  BY <1>1, <1>3, <1>7, <1>9

\* One transaction off the front.
LEMMA LedgerOfFirst ==
  ASSUME NEW acc \in Accounts, NEW txs \in Seq(Tx), txs # <<>>
  PROVE  LedgerAfter(acc, txs) = LedgerAfter(Effect(acc, Head(txs)), Tail(txs))
<1> DEFINE one == <<Head(txs)>>
           g == [i \in 0 .. 1 |-> IF i = 0 THEN acc ELSE Effect(acc, Head(txs))]
<1>1. one \in Seq(Tx) /\ Tail(txs) \in Seq(Tx) /\ txs = one \o Tail(txs)
  OBVIOUS
<1>2. Runs(g, acc, one) /\ g[Len(one)] = Effect(acc, Head(txs))
  BY DEF Runs
<1> HIDE DEF g, one
<1>3. LedgerAfter(acc, one) = Effect(acc, Head(txs))
  BY <1>1, <1>2, LedgerIs
<1>4. LedgerAfter(acc, one \o Tail(txs)) = LedgerAfter(LedgerAfter(acc, one), Tail(txs))
  BY <1>1, LedgerOfBoth
<1> QED  BY <1>1, <1>3, <1>4

LEMMA LedgerTypes ==
  ASSUME NEW acc \in Accounts, NEW txs \in Seq(Tx)
  PROVE  LedgerAfter(acc, txs) \in Accounts
BY LedgerRuns, LedgerIs

----------------------------------------------------------------------------
(***************************************************************************)
(* What one transaction makes of the sum of the balances                   *)
(***************************************************************************)

Balances(acc) == [a \in Addr |-> acc[a].balance]

LEMMA SupplyIs ==
  ASSUME NEW acc \in Accounts
  PROVE  /\ Supply(acc) = SumFunctionOnSet(Balances(acc), Addr)
         /\ \A a \in Addr : Balances(acc)[a] \in Int
         /\ Supply(acc) \in Int
<1>1. Supply(acc) = SumFunctionOnSet(Balances(acc), Addr)
  BY DEF Supply, Balances, SumFunction
<1>2. \A a \in Addr : Balances(acc)[a] \in Int
  BY DEF Balances, Accounts, Account
<1> QED  BY <1>1, <1>2, SumInt, AccountsAssumption

\* One account changes its balance.
LEMMA SupplyOfChange ==
  ASSUME NEW acc \in Accounts, NEW new \in Accounts, NEW a \in Addr,
         \A b \in Addr \ {a} : new[b].balance = acc[b].balance
  PROVE  Supply(new) = Supply(acc) + (new[a].balance - acc[a].balance)
<1> DEFINE f == Balances(acc)
           g == Balances(new)
<1>1. \A b \in Addr : f[b] \in Int /\ g[b] \in Int
  BY SupplyIs
<1>2. \A b \in Addr \ {a} : g[b] = f[b]
  BY DEF Balances
<1>3. f[a] = acc[a].balance /\ g[a] = new[a].balance
  BY DEF Balances
<1>4. Supply(acc) = SumFunctionOnSet(f, Addr) /\ Supply(new) = SumFunctionOnSet(g, Addr)
  BY SupplyIs
<1> HIDE DEF f, g
<1>5. IsFiniteSet(Addr)
  BY AccountsAssumption
<1>6. SumFunctionOnSet(g, Addr) = SumFunctionOnSet(f, Addr) + (g[a] - f[a])
  BY <1>1, <1>2, <1>5, SumChange
<1> QED  BY <1>3, <1>4, <1>6

\* The sender loses value and fee, the recipient, where there is one, gains the
\* value: only a negative fee, or a negative value for nobody, adds to the sum.
LEMMA TransferNeverAdds ==
  ASSUME NEW acc \in Accounts, NEW tx \in Tx, ~Mints(tx)
  PROVE  Supply(Transfer(acc, tx)) <= Supply(acc)
<1>1. CASE ~CanPay(acc, tx)
  <2>1. Supply(acc) \in Int
    BY SupplyIs
  <2> QED  BY <1>1, <2>1 DEF Transfer
<1>2. ASSUME CanPay(acc, tx) PROVE Supply(Transfer(acc, tx)) <= Supply(acc)
  <2> DEFINE debited == Debit(acc, tx)
             credited == Credit(debited, tx)
  <2>1. /\ tx.from \in Addr /\ tx.to \in Addr \cup {NoAddr} /\ tx.value \in Int
        /\ Fee(tx) \in Int /\ Cost(tx) \in Int /\ Cost(tx) = tx.value + Fee(tx)
    BY CostType DEF Tx, Cost
  <2>2. acc[tx.from].balance \in Int /\ Fee(tx) >= 0 /\ (tx.to = NoAddr => tx.value >= 0)
    BY <2>1 DEF Mints, Accounts, Account
  <2>3. debited \in Accounts
    BY <2>1, <2>2 DEF Debit, Accounts, Account
  <2>4. debited[tx.from].balance = acc[tx.from].balance - Cost(tx)
    BY <2>1 DEF Debit, Accounts
  <2>5. \A b \in Addr \ {tx.from} : debited[b].balance = acc[b].balance
    BY <2>1 DEF Debit, Accounts
  <2> HIDE DEF debited
  <2>6. Supply(debited) = Supply(acc) + (debited[tx.from].balance - acc[tx.from].balance)
    BY <2>1, <2>3, <2>5, SupplyOfChange
  <2>7. Supply(acc) \in Int /\ Supply(debited) = Supply(acc) - Cost(tx)
    BY <2>1, <2>2, <2>4, <2>6, SupplyIs
  <2>8. CASE tx.to = NoAddr
    <3>1. Transfer(acc, tx) = debited
      BY <1>2, <2>8 DEF Transfer, Credit, debited
    <3> QED  BY <2>1, <2>2, <2>7, <2>8, <3>1
  <2>9. CASE tx.to # NoAddr
    <3>1. tx.to \in Addr
      BY <2>1, <2>9
    <3>2. Transfer(acc, tx) = [debited EXCEPT ![tx.to].balance = @ + tx.value]
      BY <1>2, <2>9 DEF Transfer, Credit, debited
    <3> DEFINE new == Transfer(acc, tx)
    <3>3. new \in Accounts
      BY TransferType
    <3>4. debited[tx.to].balance \in Int /\ new[tx.to].balance = debited[tx.to].balance + tx.value
      BY <2>1, <2>3, <3>1, <3>2 DEF Accounts, Account
    <3>5. \A b \in Addr \ {tx.to} : new[b].balance = debited[b].balance
      BY <2>3, <3>1, <3>2 DEF Accounts
    <3> HIDE DEF new
    <3>6. Supply(new) = Supply(debited) + (new[tx.to].balance - debited[tx.to].balance)
      BY <2>3, <3>1, <3>3, <3>5, SupplyOfChange
    <3>7. Supply(new) = Supply(debited) + tx.value
      BY <2>1, <2>3, <3>4, <3>6, SupplyIs
    <3>8. Supply(new) <= Supply(acc)
      BY <2>1, <2>2, <2>7, <3>7
    <3> QED  BY <3>8 DEF new
  <2> QED  BY <2>8, <2>9
<1> QED  BY <1>1, <1>2

\* Only applyTx writes to the ledger of a running process, and it creates no value but
\* by a transaction whose fee is negative or that takes a negative value to nobody,
\* whatever else is in the blocks.
THEOREM SupplyCorrect == Spec => OnlyMintsGrowSupply
<1> DEFINE Mint == call.stage = "account" /\ Mints(Head(call.todo))
<1>1. TypeOK /\ [Next]_vars =>
        [restarts' = restarts /\ Supply(accounts') > Supply(accounts) => Mint]_vars
  <2> SUFFICES ASSUME TypeOK, Next, restarts' = restarts, Supply(accounts') > Supply(accounts)
               PROVE  Mint
    BY DEF vars
  <2>1. accounts \in Accounts /\ Supply(accounts) \in Int
    BY SupplyIs DEF TypeOK
  <2>2. CASE ApplyTx
    <3> DEFINE tx == Head(call.todo)
    <3>1. tx \in Tx /\ accounts' = Transfer(accounts, tx) /\ call.stage = "account"
      BY <2>2, NoCallIsIdle DEF ApplyTx, TypeOK
    <3> HIDE DEF tx
    <3>2. Supply(Transfer(accounts, tx)) \in Int
      BY <2>1, <3>1, TransferType, SupplyIs
    <3>3. Mints(tx)
      BY <2>1, <3>1, <3>2, TransferNeverAdds
    <3> QED  BY <3>1, <3>3 DEF tx
  <2>3. ASSUME UNCHANGED accounts PROVE FALSE
    BY <2>1, <2>3
  <2>4. CASE Restart
    BY <2>4, BoundsAssumption DEF Restart, TypeOK
  <2>5. ASSUME NEW b \in Block, \/ InsertKnown(b) \/ InsertRejected(b) \/ InsertBegin(b)
                                \/ LoadBlock(b) \/ SkipBlock(b)
        PROVE  UNCHANGED accounts
    BY <2>5 DEF InsertKnown, InsertRejected, InsertBegin, LoadBlock, SkipBlock
  <2>6. ASSUME IndexTx \/ InsertReturn \/ LoadNext \/ LoadFails \/ Serve PROVE UNCHANGED accounts
    BY <2>6 DEF IndexTx, InsertReturn, LoadNext, LoadFails, Serve
  <2>7. ASSUME NEW r \in Readers, ReadStep(r) \/ ReadHeight(r) \/ \E h \in TxHash : ReadTx(r, h)
        PROVE  UNCHANGED accounts
    BY <2>7 DEF ReadStep, ReadTxBlock, ReadHeightBlock, ReadHeight, ReadTx
  <2> QED  BY <2>2, <2>3, <2>4, <2>5, <2>6, <2>7 DEF Next, CallStep, StartStep
<1> QED  BY <1>1, TypeCorrect, PTL DEF Spec, OnlyMintsGrowSupply

----------------------------------------------------------------------------
(***************************************************************************)
(* The transactions of a sequence of blocks                                *)
(***************************************************************************)

LEMMA TxsType ==
  ASSUME NEW bs \in Seq(Block), NEW i \in 1 .. Len(bs)
  PROVE  bs[i] \in Block /\ bs[i].txs \in Seq(Tx)
BY BlockAssumption DEF BlockType

\* g lists the transactions of the first 0, 1, 2, ... blocks.
Lists(g, bs) ==
  /\ g[0] = <<>>
  /\ \A i \in 1 .. Len(bs) : g[i] = g[i - 1] \o bs[i].txs

LEMMA ListsTypes ==
  ASSUME NEW bs \in Seq(Block), NEW g, Lists(g, bs)
  PROVE  \A i \in 0 .. Len(bs) : g[i] \in Seq(Tx)
<1> DEFINE n == Len(bs)
           S == {i \in 0 .. n : g[i] \in Seq(Tx)}
<1>1. 0 \in S /\ n \in Nat
  <2>1. g[0] \in Seq(Tx) /\ n \in Nat
    BY DEF Lists
  <2> QED  BY <2>1
<1>2. ASSUME NEW i \in 1 .. n, i - 1 \in S PROVE i \in S
  <2>1. g[i] = g[i - 1] \o bs[i].txs /\ g[i - 1] \in Seq(Tx) /\ bs[i].txs \in Seq(Tx)
    BY <1>2, TxsType DEF Lists
  <2>2. g[i - 1] \o bs[i].txs \in Seq(Tx)
    BY <2>1
  <2>3. i \in 0 .. n
    BY <1>1
  <2> QED  BY Zenon, <2>1, <2>2, <2>3
<1>3. \A i \in 0 .. n : i \in S
  <2> HIDE DEF S, n
  <2> QED  BY <1>1, <1>2, UpToInduction
<1> QED  BY <1>3

LEMMA ListsExist ==
  ASSUME NEW bs \in Seq(Block)
  PROVE  \E g : g = [i \in 0 .. Len(bs) |-> IF i = 0 THEN <<>> ELSE g[i - 1] \o bs[i].txs]
<1> DEFINE n == Len(bs)
           step == [i \in 1 .. n |-> [s \in Seq(Tx) |-> s \o bs[i].txs]]
<1>1. n \in Nat /\ <<>> \in Seq(Tx)
  OBVIOUS
<1>2. step \in [1 .. n -> [Seq(Tx) -> Seq(Tx)]]
  BY TxsType
<1> HIDE DEF step, n
<1>3. PICK g : Recursion(g, n, Seq(Tx), <<>>, step)
  BY Zenon, <1>1, <1>2, RecursionHolds
<1>4. ASSUME NEW i \in 1 .. n PROVE g[i] = g[i - 1] \o bs[i].txs
  <2>1. g[i - 1] \in Seq(Tx) /\ g[i] = step[i][g[i - 1]]
    BY <1>1, <1>3 DEF Recursion
  <2> QED  BY <2>1 DEF step
<1>5. ASSUME NEW i \in 0 .. n
      PROVE  g[i] = IF i = 0 THEN <<>> ELSE g[i - 1] \o bs[i].txs
  <2>1. CASE i = 0
    BY <1>3, <2>1 DEF Recursion
  <2>2. CASE i # 0
    <3>1. i \in 1 .. n
      BY <1>1, <2>2
    <3> QED  BY <1>4, <2>2, <3>1
  <2> QED  BY <2>1, <2>2
<1>6. g = [i \in 0 .. n |-> g[i]]
  BY <1>3 DEF Recursion
<1>7. g = [i \in 0 .. n |-> IF i = 0 THEN <<>> ELSE g[i - 1] \o bs[i].txs]
  BY Zenon, <1>5, <1>6
<1> QED  BY <1>7 DEF n

LEMMA ListsRun ==
  ASSUME NEW bs \in Seq(Block)
  PROVE  \E g : Lists(g, bs) /\ TxsOfBlocks(bs) = g[Len(bs)]
<1> DEFINE Equation(g) ==
             g = [i \in 0 .. Len(bs) |-> IF i = 0 THEN <<>> ELSE g[i - 1] \o bs[i].txs]
           g == CHOOSE g : Equation(g)
<1>1. TxsOfBlocks(bs) = g[Len(bs)]
  BY Zenon DEF TxsOfBlocks
<1>2. Equation(g)
  <2>1. \E f : Equation(f)
    BY ListsExist
  <2> QED  BY Zenon, <2>1
<1> HIDE DEF g
<1>3. Lists(g, bs)
  <2>1. g[0] = <<>>
    BY <1>2
  <2>2. \A i \in 1 .. Len(bs) : g[i] = g[i - 1] \o bs[i].txs
    BY <1>2
  <2> QED  BY <2>1, <2>2 DEF Lists
<1> QED  BY <1>1, <1>3

LEMMA TxsOfBlocksType ==
  ASSUME NEW bs \in Seq(Block)
  PROVE  TxsOfBlocks(bs) \in Seq(Tx)
<1>1. PICK g : Lists(g, bs) /\ TxsOfBlocks(bs) = g[Len(bs)]
  BY ListsRun
<1>2. Len(bs) \in 0 .. Len(bs)
  OBVIOUS
<1> QED  BY <1>1, <1>2, ListsTypes

LEMMA TxsOfNone == TxsOfBlocks(<<>>) = <<>>
<1>1. <<>> \in Seq(Block) /\ Len(<<>>) = 0
  OBVIOUS
<1>2. PICK g : Lists(g, <<>>) /\ TxsOfBlocks(<<>>) = g[0]
  BY <1>1, ListsRun
<1> QED  BY <1>2 DEF Lists

\* One block more adds its transactions at the end.
LEMMA TxsOfMore ==
  ASSUME NEW bs \in Seq(Block), NEW b \in Block
  PROVE  TxsOfBlocks(Append(bs, b)) = TxsOfBlocks(bs) \o b.txs
<1> DEFINE n == Len(bs)
           more == Append(bs, b)
<1>1. /\ n \in Nat /\ more \in Seq(Block) /\ Len(more) = n + 1 /\ more[n + 1] = b
      /\ \A i \in 1 .. n : more[i] = bs[i]
  OBVIOUS
<1>2. PICK g : Lists(g, bs) /\ TxsOfBlocks(bs) = g[n]
  BY ListsRun
<1> HIDE DEF more
<1>3. PICK h : Lists(h, more) /\ TxsOfBlocks(more) = h[n + 1]
  BY <1>1, ListsRun
<1> HIDE DEF n
<1> DEFINE S == {i \in 0 .. n : g[i] = h[i]}
<1>4. 0 \in S
  BY <1>1, <1>2, <1>3 DEF Lists
<1>5. ASSUME NEW i \in 1 .. n, i - 1 \in S PROVE i \in S
  <2>1. g[i] = g[i - 1] \o bs[i].txs
    BY <1>2 DEF Lists, n
  <2>2. i \in 1 .. Len(more) /\ more[i] = bs[i]
    BY <1>1
  <2>3. h[i] = h[i - 1] \o bs[i].txs
    BY <1>3, <2>2 DEF Lists
  <2>4. g[i - 1] = h[i - 1] /\ i \in 0 .. n
    BY <1>1, <1>5
  <2>5. g[i] = h[i]
    BY Zenon, <2>1, <2>3, <2>4
  <2> QED  BY <2>4, <2>5
<1>6. \A i \in 0 .. n : i \in S
  <2> HIDE DEF S
  <2> QED  BY <1>1, <1>4, <1>5, UpToInduction
<1>7. g[n] = h[n]
  BY <1>1, <1>6
<1>8. n + 1 \in 1 .. Len(more) /\ (n + 1) - 1 = n
  BY <1>1
<1>9. h[n + 1] = h[n] \o b.txs
  BY <1>1, <1>3, <1>8 DEF Lists
<1> QED  BY <1>2, <1>3, <1>7, <1>9 DEF more

LEMMA TxsOfGenesis == TxsOfBlocks(<<Genesis>>) = <<>>
<1>1. <<Genesis>> = Append(<<>>, Genesis) /\ <<>> \in Seq(Block) /\ Genesis \in Block
  BY BlockAssumption
<1>2. TxsOfBlocks(<<Genesis>>) = TxsOfBlocks(<<>>) \o Genesis.txs
  BY <1>1, TxsOfMore
<1>3. Genesis.txs = <<>> /\ <<>> \o <<>> = <<>>
  BY BlockAssumption
<1> QED  BY <1>2, <1>3, TxsOfNone

----------------------------------------------------------------------------
(***************************************************************************)
(* The invariant of the refinement                                         *)
(***************************************************************************)

\* The blocks are genesis and others, each once; while they are loaded, the
\* others are those that the iterator has yielded and that could be read; while one is
\* inserted, it is the last and a child of the one before.  A storage that is given up
\* or passed over has failed.
BlocksInv ==
  /\ blocks[1] = Genesis
  /\ \A i, j \in 1 .. Len(blocks) : blocks[i] = blocks[j] => i = j
  /\ DOMAIN byHash = {blocks[i].hash : i \in 1 .. Len(blocks)}
  /\ IsFiniteSet(db) /\ Genesis \notin db
  /\ ~serving => /\ {blocks[i] : i \in 2 .. Len(blocks)} = db \ (toLoad \cup unread)
                 /\ toLoad \cap unread = {}
  /\ ~opened \/ unread # {} => faults > 0
  /\ serving /\ ~IsFree =>
       Len(blocks) >= 2 /\ call.block = Tip /\ Abstract!IsChild(Tip, blocks[Len(blocks) - 1])

\* What is left to apply leads to the ledger of all blocks.
LedgerInv ==
  /\ LedgerAfter(accounts, call.todo) = LedgerAfter(GenesisAccounts, TxsOfBlocks(blocks))
  /\ call.stage = "account" => Head(call.todo).value # 0

LEMMA BlocksInvInit == Init => BlocksInv
<1> SUFFICES ASSUME Init PROVE BlocksInv
  OBVIOUS
<1>1. blocks = <<Genesis>> /\ Len(blocks) = 1 /\ blocks[1] = Genesis
  BY DEF Init
<1>2. DOMAIN byHash = {blocks[i].hash : i \in 1 .. Len(blocks)}
  BY <1>1 DEF Init, Singleton
<1>3. IsFiniteSet(db) /\ Genesis \notin db /\ serving /\ IsFree /\ opened /\ unread = {}
  BY FS_EmptySet DEF Init, IsFree
<1> QED  BY <1>1, <1>2, <1>3 DEF BlocksInv

\* A block of an unknown hash comes last.
LEMMA BlocksGrow ==
  ASSUME TypeOK, BlocksInv, NEW b \in Block, ~IsKnown(b), AddBlock(b)
  PROVE  /\ blocks' = Append(blocks, b) /\ Len(blocks') = Len(blocks) + 1
         /\ blocks'[Len(blocks) + 1] = b
         /\ \A i \in 1 .. Len(blocks) : blocks'[i] = blocks[i] /\ blocks[i] # b
         /\ blocks'[1] = Genesis
         /\ \A i, j \in 1 .. Len(blocks') : blocks'[i] = blocks'[j] => i = j
         /\ DOMAIN byHash' = {blocks'[i].hash : i \in 1 .. Len(blocks')}
<1> DEFINE L == Len(blocks)
<1>1. blocks \in Seq(Block) /\ L \in Nat /\ L >= 1
  BY DEF TypeOK
<1>2. blocks' = Append(blocks, b) /\ DOMAIN byHash' = DOMAIN byHash \cup {b.hash}
  BY DEF AddBlock, Put
<1>3. /\ Len(blocks') = L + 1 /\ blocks'[L + 1] = b
      /\ \A i \in 1 .. L : blocks'[i] = blocks[i]
  BY <1>1, <1>2
<1>4. \A i \in 1 .. L : blocks[i] # b
  BY DEF IsKnown, BlocksInv
<1> HIDE DEF L
<1>5. blocks'[1] = Genesis
  BY <1>1, <1>3 DEF BlocksInv, L
<1>6. ASSUME NEW i \in 1 .. L + 1, NEW j \in 1 .. L + 1, blocks'[i] = blocks'[j] PROVE i = j
  <2>1. CASE i \in 1 .. L /\ j \in 1 .. L
    <3>1. blocks[i] = blocks[j]
      BY <1>3, <1>6, <2>1
    <3> QED  BY <2>1, <3>1 DEF BlocksInv, L
  <2>2. CASE i = L + 1 /\ j = L + 1
    BY <2>2
  <2>3. CASE i = L + 1 /\ j \in 1 .. L
    BY <1>3, <1>4, <1>6, <2>3
  <2>4. CASE j = L + 1 /\ i \in 1 .. L
    BY <1>3, <1>4, <1>6, <2>4
  <2>5. ASSUME NEW k \in 1 .. L + 1 PROVE k \in 1 .. L \/ k = L + 1
    BY <1>1
  <2> QED  BY <2>1, <2>2, <2>3, <2>4, <2>5
<1>7. DOMAIN byHash' = {blocks'[i].hash : i \in 1 .. L + 1}
  <2>1. ASSUME NEW h \in DOMAIN byHash' PROVE \E i \in 1 .. L + 1 : blocks'[i].hash = h
    <3>1. CASE h = b.hash
      BY <1>1, <1>3, <3>1
    <3>2. CASE h # b.hash
      <4>1. PICK i \in 1 .. L : blocks[i].hash = h
        BY <1>2, <3>2 DEF BlocksInv, L
      <4> QED  BY <1>1, <1>3, <4>1
    <3> QED  BY <3>1, <3>2
  <2>2. ASSUME NEW i \in 1 .. L + 1 PROVE blocks'[i].hash \in DOMAIN byHash'
    <3>1. CASE i = L + 1
      BY <1>2, <1>3, <3>1
    <3>2. CASE i # L + 1
      <4>1. i \in 1 .. L
        BY <1>1, <3>2
      <4>2. blocks[i].hash \in DOMAIN byHash
        BY <4>1 DEF BlocksInv, L
      <4> QED  BY <1>2, <1>3, <4>1, <4>2
    <3> QED  BY <3>1, <3>2
  <2> QED  BY <2>1, <2>2
<1> QED  BY <1>2, <1>3, <1>4, <1>5, <1>6, <1>7 DEF L

\* A call goes on with the block it holds.
LEMMA CallGoesOn ==
  ASSUME TypeOK, IndexTx \/ ApplyTx
  PROVE  /\ ~IsFree /\ ~IsFree' /\ call'.block = call.block
         /\ call.todo \in Seq(Tx) /\ call.todo # <<>>
         /\ call'.todo \in {call.todo, Tail(call.todo)}
<1>1. call \in [block: Block, todo: Seq(Tx), stage: {"index", "account"}]
  BY NoCallIsIdle DEF IndexTx, ApplyTx
<1>2. call.todo # <<>>
  BY DEF TypeOK, IndexTx, ApplyTx
<1>3. call'.block = call.block /\ call'.stage \in {"index", "account"}
  BY <1>1 DEF IndexTx, ApplyTx
<1>4. call'.todo \in {call.todo, Tail(call.todo)}
  BY <1>1 DEF IndexTx, ApplyTx
<1> QED  BY <1>1, <1>2, <1>3, <1>4, NoCallIsIdle DEF IndexTx, ApplyTx, NoCall, IsFree

\* The steps that neither add a block nor end a call.
Aside ==
  \/ \E b \in Block : InsertKnown(b) \/ InsertRejected(b)
  \/ \E r \in Readers : ReadStep(r) \/ ReadHeight(r) \/ \E h \in TxHash : ReadTx(r, h)
  \/ UNCHANGED vars

LEMMA AsideKeeps ==
  ASSUME Aside
  PROVE  UNCHANGED <<blocks, byHash, accounts, diskVars, call, toLoad, serving>>
<1>1. ASSUME NEW b \in Block, InsertKnown(b) \/ InsertRejected(b)
      PROVE  UNCHANGED <<blocks, byHash, accounts, diskVars, call, toLoad, serving>>
  BY <1>1 DEF InsertKnown, InsertRejected, chainVars, diskVars
<1>2. ASSUME NEW r \in Readers, ReadStep(r) \/ ReadHeight(r) \/ \E h \in TxHash : ReadTx(r, h)
      PROVE  UNCHANGED <<blocks, byHash, accounts, diskVars, call, toLoad, serving>>
  BY <1>2 DEF ReadStep, ReadTxBlock, ReadHeightBlock, ReadHeight, ReadTx, chainVars, diskVars
<1> QED  BY <1>1, <1>2 DEF Aside, vars, diskVars

\* The iterator's failures: stored blocks are passed over, one or all that are left.
PassOver ==
  /\ ~serving /\ faults' = faults + 1
  /\ toLoad' \subseteq toLoad /\ unread' = unread \cup (toLoad \ toLoad')
  /\ UNCHANGED <<blocks, byHash, accounts, db, call, serving>>

LEMMA PassesOver ==
  ASSUME TypeOK, LoadFails \/ \E b \in Block : SkipBlock(b)
  PROVE  PassOver
<1>1. CASE LoadFails
  BY <1>1 DEF LoadFails, Fault, chainVars, PassOver
<1>2. ASSUME NEW b \in Block, SkipBlock(b) PROVE PassOver
  <2>1. b \in toLoad /\ toLoad' = toLoad \ {b} /\ unread' = unread \cup {b}
    BY <1>2 DEF SkipBlock
  <2>2. unread' = unread \cup (toLoad \ toLoad')
    BY <2>1
  <2> QED  BY <1>2, <2>1, <2>2 DEF SkipBlock, Fault, chainVars, PassOver
<1> QED  BY <1>1, <1>2

\* Every step is one of these.
LEMMA StepCases ==
  ASSUME TypeOK, [Next]_vars
  PROVE  \/ Aside \/ PassOver
         \/ IndexTx \/ ApplyTx \/ InsertReturn \/ LoadNext \/ Restart \/ Serve
         \/ \E b \in Block : InsertBegin(b) \/ LoadBlock(b)
BY PassesOver DEF Next, CallStep, StartStep, Aside

LEMMA BlocksInvNext == TypeOK /\ BlocksInv /\ [Next]_vars => BlocksInv'
<1> SUFFICES ASSUME TypeOK, BlocksInv, [Next]_vars PROVE BlocksInv'
  OBVIOUS
<1>1. CASE Aside
  <2>1. UNCHANGED <<blocks, byHash, db, opened, faults, unread, call, toLoad, serving>>
    BY <1>1, AsideKeeps DEF diskVars
  <2> QED  BY <2>1 DEF BlocksInv, IsFree, Tip, Abstract!IsChild
<1>2. CASE IndexTx \/ ApplyTx
  <2>1. UNCHANGED <<blocks, byHash, db, opened, faults, unread, toLoad, serving>>
    BY <1>2 DEF IndexTx, ApplyTx, chainVars, diskVars
  <2>2. ~IsFree /\ ~IsFree' /\ call'.block = call.block
    BY <1>2, CallGoesOn
  <2> QED  BY <2>1, <2>2 DEF BlocksInv, Tip, Abstract!IsChild
<1>3. CASE InsertReturn
  <2>1. /\ UNCHANGED <<blocks, byHash, opened, unread, toLoad, serving>>
        /\ serving /\ ~IsFree /\ IsFree'
    BY <1>3, NoCallIsIdle DEF InsertReturn, chainVars, IsFree
  <2>5. db' \in {db, db \cup {call.block}} /\ faults' \in {faults, faults + 1}
    BY <1>3 DEF InsertReturn, Persist, Fault
  <2>2. Len(blocks) \in Nat /\ Len(blocks) >= 2 /\ call.block = blocks[Len(blocks)]
    BY <2>1 DEF BlocksInv, TypeOK, Tip
  <2>3. call.block # blocks[1]
    BY <2>2 DEF BlocksInv
  <2>4. IsFiniteSet(db')
    BY <2>5, FS_AddElement DEF BlocksInv
  <2>6. faults > 0 => faults' > 0
    BY <2>5 DEF TypeOK
  <2> QED  BY <2>1, <2>3, <2>4, <2>5, <2>6 DEF BlocksInv
<1>4. CASE LoadNext
  <2>1. UNCHANGED <<blocks, byHash, db, opened, faults, unread, toLoad, serving>> /\ ~serving
    BY <1>4 DEF LoadNext, chainVars, diskVars
  <2> QED  BY <2>1 DEF BlocksInv
<1>5. CASE Restart
  <2>1. blocks' = <<Genesis>> /\ Len(blocks') = 1 /\ blocks'[1] = Genesis
    BY <1>5 DEF Restart
  <2>2. DOMAIN byHash' = {blocks'[i].hash : i \in 1 .. Len(blocks')}
    BY <1>5, <2>1 DEF Restart, Singleton
  <2>3. /\ IsFiniteSet(db') /\ Genesis \notin db' /\ ~serving' /\ db' \ toLoad' = {}
        /\ opened' /\ unread' = {}
    BY <1>5, FS_EmptySet DEF Restart, BlocksInv
  <2> QED  BY <2>1, <2>2, <2>3 DEF BlocksInv
<1>6. CASE Serve
  <2>1. UNCHANGED <<blocks, byHash, db, opened, faults, unread, toLoad, call>> /\ IsFree /\ serving'
    BY <1>6 DEF Serve, chainVars, diskVars
  <2> QED  BY <2>1 DEF BlocksInv, IsFree
<1>7. ASSUME NEW b \in Block, InsertBegin(b) PROVE BlocksInv'
  <2>1. /\ ~IsKnown(b) /\ AddBlock(b) /\ Refusal(b) = None /\ serving
        /\ UNCHANGED <<db, opened, faults, unread, toLoad, serving>>
    BY <1>7 DEF InsertBegin, diskVars
  <2>2. call'.block = b
    BY <1>7 DEF InsertBegin, Begin
  <2>3. Len(blocks) \in Nat /\ Len(blocks) >= 1
    BY DEF TypeOK
  <2>4. Abstract!IsChild(b, blocks[Len(blocks)])
    BY <2>1, BlockAssumption DEF Refusal, Tip, Abstract!IsChild
  <2>5. /\ Len(blocks') >= 2 /\ Tip' = b
        /\ blocks'[Len(blocks') - 1] = blocks[Len(blocks)]
    <3>1. /\ Len(blocks') = Len(blocks) + 1 /\ blocks'[Len(blocks) + 1] = b
          /\ \A i \in 1 .. Len(blocks) : blocks'[i] = blocks[i]
      BY <2>1, BlocksGrow
    <3>2. Len(blocks') - 1 = Len(blocks) /\ Len(blocks) \in 1 .. Len(blocks)
      BY <2>3, <3>1
    <3> QED  BY <2>3, <3>1, <3>2 DEF Tip
  <2>6. Abstract!IsChild(Tip', blocks'[Len(blocks') - 1])
    BY <2>4, <2>5
  <2>7. /\ blocks'[1] = Genesis
        /\ \A i, j \in 1 .. Len(blocks') : blocks'[i] = blocks'[j] => i = j
        /\ DOMAIN byHash' = {blocks'[i].hash : i \in 1 .. Len(blocks')}
    BY <2>1, BlocksGrow
  <2> QED  BY <2>1, <2>2, <2>5, <2>6, <2>7 DEF BlocksInv, Abstract!IsChild
<1>8. ASSUME NEW b \in Block, LoadBlock(b) PROVE BlocksInv'
  <2>1. /\ ~serving /\ b \in toLoad /\ toLoad \subseteq db /\ toLoad' = toLoad \ {b}
        /\ UNCHANGED <<db, opened, faults, unread, serving>> /\ Genesis \notin db
        /\ b \notin unread /\ toLoad \cap unread = {}
    BY <1>8 DEF LoadBlock, TypeOK, BlocksInv, diskVars
  <2>2. Len(blocks) \in Nat /\ Len(blocks) >= 1 /\ \A i \in 1 .. Len(blocks) : blocks[i] \in Block
    BY DEF TypeOK
  <2>3. ~IsKnown(b)
    <3>1. SUFFICES ASSUME IsKnown(b) PROVE FALSE
      OBVIOUS
    <3>2. PICK i \in 1 .. Len(blocks) : blocks[i].hash = b.hash
      BY <3>1 DEF IsKnown, BlocksInv
    <3>3. blocks[i] = b
      BY <2>2, <3>2, BlockAssumption
    <3>4. CASE i = 1
      BY <2>1, <3>3, <3>4 DEF BlocksInv
    <3>5. CASE i # 1
      <4>1. i \in 2 .. Len(blocks)
        BY <2>2, <3>5
      <4>2. b \in db \ (toLoad \cup unread)
        BY <2>1, <3>3, <4>1 DEF BlocksInv
      <4> QED  BY <2>1, <4>2
    <3> QED  BY <3>4, <3>5
  <2>4. AddBlock(b)
    BY <1>8, <2>3 DEF LoadBlock
  <2>5. {blocks'[i] : i \in 2 .. Len(blocks')} = {blocks[i] : i \in 2 .. Len(blocks)} \cup {b}
    <3>1. /\ Len(blocks') = Len(blocks) + 1 /\ blocks'[Len(blocks) + 1] = b
          /\ \A i \in 1 .. Len(blocks) : blocks'[i] = blocks[i]
      BY <2>3, <2>4, BlocksGrow
    <3> DEFINE L == Len(blocks)
    <3>2. 2 .. L + 1 = (2 .. L) \cup {L + 1} /\ 2 .. L \subseteq 1 .. L
      BY <2>2
    <3> QED  BY <3>1, <3>2
  <2>6. {blocks'[i] : i \in 2 .. Len(blocks')} = db' \ (toLoad' \cup unread')
    BY <2>1, <2>5 DEF BlocksInv
  <2>7. /\ blocks'[1] = Genesis
        /\ \A i, j \in 1 .. Len(blocks') : blocks'[i] = blocks'[j] => i = j
        /\ DOMAIN byHash' = {blocks'[i].hash : i \in 1 .. Len(blocks')}
    BY <2>3, <2>4, BlocksGrow
  <2> QED  BY <2>1, <2>6, <2>7 DEF BlocksInv
<1>9. CASE PassOver
  <2>1. /\ ~serving /\ ~serving' /\ faults' > 0
        /\ UNCHANGED <<blocks, byHash, db>>
    BY <1>9 DEF PassOver, TypeOK
  <2>2. toLoad' \cup unread' = toLoad \cup unread /\ toLoad' \cap unread' = {}
    BY <1>9, <2>1 DEF PassOver, BlocksInv
  <2> QED  BY <2>1, <2>2 DEF BlocksInv
<1> QED  BY <1>1, <1>2, <1>3, <1>4, <1>5, <1>6, <1>7, <1>8, <1>9, StepCases

LEMMA LedgerInvInit == Init => LedgerInv
<1> SUFFICES ASSUME Init PROVE LedgerInv
  OBVIOUS
<1>1. accounts = GenesisAccounts /\ call.todo = <<>> /\ call.stage = "idle" /\ blocks = <<Genesis>>
  BY DEF Init, NoCall
<1> QED  BY <1>1, TxsOfGenesis DEF LedgerInv

\* A block joins the chain with all its transactions left to apply.
LEMMA LedgerOfBlock ==
  ASSUME TypeOK, LedgerInv, IsFree, NEW b \in Block, AddBlock(b), Begin(b), UNCHANGED accounts
  PROVE  LedgerInv'
<1>1. blocks \in Seq(Block) /\ b.txs \in Seq(Tx) /\ accounts \in Accounts
  BY BlockAssumption DEF BlockType, TypeOK
<1>2. call.todo = <<>> /\ call'.todo = b.txs /\ call'.stage = "index"
  BY DEF IsFree, NoCall, Begin
<1> DEFINE txs == TxsOfBlocks(blocks)
           more == b.txs
<1>3. txs \in Seq(Tx) /\ more \in Seq(Tx) /\ TxsOfBlocks(blocks') = txs \o more
  BY <1>1, TxsOfBlocksType, TxsOfMore DEF AddBlock
<1>4. accounts = LedgerAfter(GenesisAccounts, txs)
  BY <1>1, <1>2, LedgerOfNone DEF LedgerInv
<1> HIDE DEF txs, more
<1>5. GenesisAccounts \in Accounts
  BY AccountsAssumption
<1>6. LedgerAfter(GenesisAccounts, txs \o more) = LedgerAfter(LedgerAfter(GenesisAccounts, txs), more)
  BY <1>3, <1>5, LedgerOfBoth
<1> QED  BY <1>2, <1>3, <1>4, <1>6 DEF LedgerInv, more

LEMMA LedgerInvNext == TypeOK /\ LedgerInv /\ [Next]_vars => LedgerInv'
<1> SUFFICES ASSUME TypeOK, LedgerInv, [Next]_vars PROVE LedgerInv'
  OBVIOUS
<1>1. ASSUME UNCHANGED <<blocks, accounts>>, call'.todo = call.todo,
             call'.stage = "account" => Head(call.todo).value # 0
      PROVE  LedgerInv'
  BY <1>1 DEF LedgerInv
<1>2. CASE Aside
  BY <1>2, AsideKeeps DEF LedgerInv
<1>3. CASE IndexTx
  <2> DEFINE todo == call.todo
             tx == Head(todo)
  <2>1. call \in [block: Block, todo: Seq(Tx), stage: {"index", "account"}]
    BY <1>3, NoCallIsIdle DEF IndexTx
  <2>2. /\ todo \in Seq(Tx) /\ todo # <<>> /\ tx \in Tx /\ accounts \in Accounts
        /\ UNCHANGED <<blocks, accounts>>
    BY <1>3, CallGoesOn DEF TypeOK, IndexTx, chainVars, diskVars
  <2>3. CASE tx.value = 0
    <3>1. call'.todo = Tail(todo) /\ call'.stage = "index"
      BY <1>3, <2>1, <2>3 DEF IndexTx
    <3>2. Effect(accounts, tx) = accounts
      BY <2>3 DEF Effect
    <3> HIDE DEF todo
    <3>3. LedgerAfter(accounts, todo) = LedgerAfter(Effect(accounts, tx), Tail(todo))
      BY <2>2, LedgerOfFirst
    <3> QED  BY <2>2, <3>1, <3>2, <3>3 DEF LedgerInv, todo
  <2>4. CASE tx.value # 0
    BY <1>1, <1>3, <2>1, <2>2, <2>4 DEF IndexTx
  <2> QED  BY <2>3, <2>4
<1>4. CASE ApplyTx
  <2> DEFINE todo == call.todo
             tx == Head(todo)
  <2>1. call \in [block: Block, todo: Seq(Tx), stage: {"index", "account"}]
    BY <1>4, NoCallIsIdle DEF ApplyTx
  <2>2. todo \in Seq(Tx) /\ todo # <<>> /\ accounts \in Accounts
    BY <1>4, CallGoesOn DEF TypeOK
  <2>3. call'.todo = Tail(todo) /\ call'.stage = "index" /\ blocks' = blocks
    BY <1>4, <2>1 DEF ApplyTx, chainVars, diskVars
  <2>4. accounts' = Effect(accounts, tx)
    BY <1>4 DEF ApplyTx, Effect, LedgerInv
  <2> HIDE DEF todo
  <2>5. LedgerAfter(accounts, todo) = LedgerAfter(Effect(accounts, tx), Tail(todo))
    BY <2>2, LedgerOfFirst
  <2> QED  BY <2>3, <2>4, <2>5 DEF LedgerInv, todo
<1>5. CASE InsertReturn \/ LoadNext
  <2>1. call.todo = <<>> /\ call' = NoCall /\ UNCHANGED <<blocks, accounts>>
    BY <1>5 DEF InsertReturn, LoadNext, chainVars, diskVars
  <2> QED  BY <1>1, <2>1 DEF NoCall
<1>6. CASE Restart
  <2>1. /\ accounts' = GenesisAccounts /\ call'.todo = <<>> /\ call'.stage = "idle"
        /\ blocks' = <<Genesis>>
    BY <1>6 DEF Restart, NoCall
  <2> QED  BY <2>1, TxsOfGenesis DEF LedgerInv
<1>7. CASE Serve
  BY <1>7 DEF Serve, chainVars, diskVars, LedgerInv
<1>8. ASSUME NEW b \in Block, InsertBegin(b) PROVE LedgerInv'
  BY <1>8, LedgerOfBlock DEF InsertBegin
<1>9. ASSUME NEW b \in Block, LoadBlock(b) PROVE LedgerInv'
  <2>1. CASE IsKnown(b)
    BY <1>9, <2>1 DEF LoadBlock, chainVars, diskVars, LedgerInv
  <2>2. CASE ~IsKnown(b)
    BY <1>9, <2>2, LedgerOfBlock DEF LoadBlock
  <2> QED  BY <2>1, <2>2
<1>10. CASE PassOver
  BY <1>10 DEF PassOver, LedgerInv
<1> QED  BY <1>2, <1>3, <1>4, <1>5, <1>6, <1>7, <1>8, <1>9, <1>10, StepCases

\* The invariant of the refinement, in every state.
LEMMA RefinementInv == Spec => [](TypeOK /\ BlocksInv /\ LedgerInv)
BY TypeCorrect, BlocksInvInit, BlocksInvNext, LedgerInvInit, LedgerInvNext, PTL DEF Spec

----------------------------------------------------------------------------
(***************************************************************************)
(* Who can be below zero                                                   *)
(***************************************************************************)

\* A transaction takes an account below zero only by paying it a negative amount.
LEMMA TransferOverspends ==
  ASSUME NEW acc \in Accounts, NEW tx \in Tx, NEW a \in Addr,
         Transfer(acc, tx)[a].balance < 0
  PROVE  acc[a].balance < 0 \/ (tx.to = a /\ tx.value < 0)
<1>1. CASE ~CanPay(acc, tx)
  BY <1>1 DEF Transfer
<1>2. ASSUME CanPay(acc, tx) PROVE acc[a].balance < 0 \/ (tx.to = a /\ tx.value < 0)
  <2> DEFINE debited == Debit(acc, tx)
  <2>1. /\ tx.from \in Addr /\ tx.value \in Int /\ Cost(tx) \in Int
        /\ \A b \in Addr : acc[b].balance \in Int
    BY CostType DEF Tx, Accounts, Account
  <2>2. acc[tx.from].balance >= Cost(tx)
    BY <1>2 DEF CanPay
  <2>3. debited[a].balance = IF a = tx.from THEN acc[a].balance - Cost(tx) ELSE acc[a].balance
    BY <2>1 DEF Debit, Accounts
  <2>4. debited[a].balance \in Int /\ (debited[a].balance < 0 => acc[a].balance < 0)
    BY <2>1, <2>2, <2>3
  <2>5. debited \in Accounts
    BY <2>1 DEF Debit, Accounts, Account
  <2> HIDE DEF debited
  <2>6. Transfer(acc, tx) = Credit(debited, tx)
    BY <1>2 DEF Transfer, debited
  <2>7. CASE tx.to = a
    <3>1. Transfer(acc, tx)[a].balance = debited[a].balance + tx.value
      BY <2>5, <2>6, <2>7, NoAddrAssumption DEF Credit, Accounts, Account
    <3> QED  BY <2>1, <2>4, <2>7, <3>1
  <2>8. CASE tx.to # a
    <3>1. Transfer(acc, tx)[a].balance = debited[a].balance
      BY <2>5, <2>6, <2>8 DEF Credit, Accounts
    <3> QED  BY <2>4, <3>1
  <2> QED  BY <2>7, <2>8
<1> QED  BY <1>1, <1>2

\* With either backend, the transactions that a call still has to do are its block's,
\* and its block is in the chain.
OverspendInv == CallOfTip /\ NobodyOverspends

\* Blocks only join, and what was paid stays paid.
LEMMA OverspendKept ==
  ASSUME TypeOK, NobodyOverspends, NEW b \in Block, AddBlock(b), accounts' = accounts
  PROVE  NobodyOverspends'
<1>1. /\ DOMAIN blocks \subseteq DOMAIN blocks'
      /\ \A i \in DOMAIN blocks : blocks'[i] = blocks[i]
  BY DEF AddBlock, TypeOK
<1>2. \A a \in Addr : IsPaidNegative(a) => IsPaidNegative(a)'
  BY <1>1 DEF IsPaidNegative
<1> QED  BY <1>2 DEF NobodyOverspends

LEMMA OverspendInvNext == TypeOK /\ OverspendInv /\ [Next]_vars => OverspendInv'
<1> SUFFICES ASSUME TypeOK, OverspendInv, [Next]_vars PROVE OverspendInv'
  OBVIOUS
<1>1. ASSUME UNCHANGED <<blocks, accounts, call>> PROVE OverspendInv'
  <2>1. CallOfTip'
    BY <1>1 DEF OverspendInv, CallOfTip, IsFree, Tip
  <2>2. \A a : IsPaidNegative(a)' <=> IsPaidNegative(a)
    BY <1>1 DEF IsPaidNegative
  <2>3. NobodyOverspends'
    BY <1>1, <2>2 DEF OverspendInv, NobodyOverspends
  <2> QED  BY <2>1, <2>3 DEF OverspendInv
<1>2. ASSUME NEW b \in Block, AddBlock(b), Begin(b), accounts' = accounts PROVE OverspendInv'
  <2>1. Tip' = b /\ call'.block = b /\ call'.todo = b.txs
    BY <1>2 DEF AddBlock, Begin, Tip, TypeOK
  <2>2. CallOfTip'
    BY <2>1 DEF CallOfTip
  <2> QED  BY <1>2, <2>2, OverspendKept DEF OverspendInv
<1>3. CASE IndexTx \/ ApplyTx
  <2>1. /\ ~IsFree /\ call'.block = call.block /\ call.todo \in Seq(Tx) /\ call.todo # <<>>
        /\ call'.todo \in {call.todo, Tail(call.todo)}
    BY <1>3, CallGoesOn
  <2>2. blocks' = blocks /\ Tip' = Tip
    BY <1>3 DEF IndexTx, ApplyTx, chainVars, Tip
  <2>3. \A j \in DOMAIN call'.todo : \E k \in DOMAIN call.todo : call'.todo[j] = call.todo[k]
    <3>1. CASE call'.todo = call.todo
      BY <3>1
    <3>2. CASE call'.todo = Tail(call.todo)
      BY <2>1, <3>2
    <3> QED  BY <2>1, <3>1, <3>2
  <2>4. CallOfTip'
    BY <2>1, <2>2, <2>3 DEF OverspendInv, CallOfTip
  <2>5. \A a : IsPaidNegative(a)' <=> IsPaidNegative(a)
    BY <2>2 DEF IsPaidNegative
  <2>6. CASE IndexTx
    BY <2>4, <2>5, <2>6 DEF IndexTx, OverspendInv, NobodyOverspends
  <2>7. CASE ApplyTx
    <3> DEFINE tx == Head(call.todo)
    <3>1. tx \in Tx /\ accounts' = Transfer(accounts, tx) /\ accounts \in Accounts
      BY <2>1, <2>7 DEF ApplyTx, TypeOK
    <3>2. PICK i \in DOMAIN Tip.txs : Tip.txs[i] = tx
      BY <2>1 DEF OverspendInv, CallOfTip
    <3>3. Len(blocks) \in DOMAIN blocks /\ Tip = blocks[Len(blocks)]
      BY DEF TypeOK, Tip
    <3> HIDE DEF tx
    <3>4. ASSUME NEW a \in Addr, accounts'[a].balance < 0 PROVE IsPaidNegative(a)
      <4>1. accounts[a].balance < 0 \/ (tx.to = a /\ tx.value < 0)
        BY <3>1, <3>4, TransferOverspends
      <4>2. CASE accounts[a].balance < 0
        BY <4>2 DEF OverspendInv, NobodyOverspends
      <4>3. CASE tx.to = a /\ tx.value < 0
        BY <3>2, <3>3, <4>3 DEF IsPaidNegative
      <4> QED  BY <4>1, <4>2, <4>3
    <3>5. NobodyOverspends'
      BY <2>5, <3>4 DEF NobodyOverspends
    <3> QED  BY <2>4, <3>5 DEF OverspendInv
  <2> QED  BY <1>3, <2>6, <2>7
<1>4. CASE InsertReturn \/ LoadNext
  <2>1. UNCHANGED <<blocks, accounts>> /\ call' = NoCall
    BY <1>4 DEF InsertReturn, LoadNext, chainVars
  <2>2. CallOfTip'
    BY <2>1 DEF CallOfTip, IsFree
  <2>3. \A a : IsPaidNegative(a)' <=> IsPaidNegative(a)
    BY <2>1 DEF IsPaidNegative
  <2> QED  BY <2>1, <2>2, <2>3 DEF OverspendInv, NobodyOverspends
<1>5. CASE Restart
  <2>1. accounts' = GenesisAccounts /\ call' = NoCall
    BY <1>5 DEF Restart
  <2>2. CallOfTip'
    BY <2>1 DEF CallOfTip, IsFree
  <2>3. NobodyOverspends'
    BY <2>1, AccountsAssumption DEF NobodyOverspends, Accounts, Account
  <2> QED  BY <2>2, <2>3 DEF OverspendInv
<1>6. ASSUME Serve \/ PassOver \/ Aside PROVE OverspendInv'
  BY <1>1, <1>6, AsideKeeps DEF Serve, PassOver, chainVars
<1>7. ASSUME NEW b \in Block, InsertBegin(b) PROVE OverspendInv'
  BY <1>2, <1>7 DEF InsertBegin
<1>8. ASSUME NEW b \in Block, LoadBlock(b) PROVE OverspendInv'
  BY <1>1, <1>2, <1>8 DEF LoadBlock, chainVars
<1> QED  BY <1>3, <1>4, <1>5, <1>6, <1>7, <1>8, StepCases

\* A balance is below zero only where a block pays the account a negative amount:
\* nobody spends what he does not have, whatever the fees, in whatever order the blocks
\* are applied, and again after every restart.
THEOREM OverspendCorrect == Spec => []NobodyOverspends
<1>1. Init => OverspendInv
  <2> SUFFICES ASSUME Init PROVE OverspendInv
    OBVIOUS
  <2>1. CallOfTip
    BY DEF Init, CallOfTip, IsFree
  <2>2. NobodyOverspends
    BY AccountsAssumption DEF Init, NobodyOverspends, Accounts, Account
  <2> QED  BY <2>1, <2>2 DEF OverspendInv
<1>2. OverspendInv => NobodyOverspends
  BY DEF OverspendInv
<1> QED  BY <1>1, <1>2, OverspendInvNext, TypeCorrect, PTL DEF Spec

----------------------------------------------------------------------------
(***************************************************************************)
(* Every step is a step of ChainSpec, or none                              *)
(***************************************************************************)

LEMMA SameEffect ==
  ASSUME NEW acc, NEW tx
  PROVE  Abstract!Effect(acc, tx) = Effect(acc, tx)
BY DEF Abstract!Effect, Abstract!Transfer, Abstract!CanPay, Abstract!Cost, Abstract!Fee,
       Abstract!Signed, Abstract!Credit, Abstract!Debit, Effect, Transfer, CanPay, Cost, Fee,
       Signed, Credit, Debit

LEMMA SameLedgerAfter ==
  ASSUME NEW acc, NEW txs
  PROVE  Abstract!LedgerAfter(acc, txs) = LedgerAfter(acc, txs)
BY SameEffect DEF Abstract!LedgerAfter, LedgerAfter

LEMMA SameCardinality ==
  ASSUME NEW S
  PROVE  Abstract!Cardinality(S) = Cardinality(S)
BY DEF Abstract!Cardinality, Cardinality

LEMMA SameTxs ==
  ASSUME NEW bs
  PROVE  Abstract!TxsOf(bs) = TxsOfBlocks(bs)
BY DEF Abstract!TxsOf, TxsOfBlocks

LEMMA ImplementsInit == Init => Abstract!Init
BY DEF Init, Abstract!Init, Committed, CommittedLedger, IsFree

Shown == <<Committed, CommittedLedger, db, faults > 0>>

\* Inside a call, and while blocks are loaded, nothing shows.
LEMMA NothingShows ==
  ASSUME UNCHANGED <<blocks, serving, db, faults>>, IsFree' <=> IsFree, IsFree => accounts' = accounts
  PROVE  UNCHANGED Shown
<1>1. Committed' = Committed
  BY DEF Committed
<1>2. CommittedLedger' = CommittedLedger
  BY <1>1 DEF CommittedLedger
<1> QED  BY <1>1, <1>2 DEF Shown

\* Nor does it show that a process which serves nothing loads a block.
LEMMA LoadingShowsNothing ==
  ASSUME ~serving, ~serving', db' = db, faults' = faults
  PROVE  UNCHANGED Shown
<1>1. Committed' = Committed
  BY DEF Committed
<1>2. CommittedLedger' = CommittedLedger
  BY <1>1 DEF CommittedLedger
<1> QED  BY <1>1, <1>2 DEF Shown

\* A new block is last, and still hidden.
LEMMA BeginShowsNothing ==
  ASSUME TypeOK, LedgerInv, NEW b \in Block, InsertBegin(b)
  PROVE  UNCHANGED Shown
<1>1. /\ serving /\ serving' /\ IsFree /\ UNCHANGED <<db, faults>> /\ blocks' = Append(blocks, b)
      /\ call' # NoCall
  BY DEF InsertBegin, AddBlock, Begin, NoCall, diskVars
<1>2. blocks \in Seq(Block) /\ accounts \in Accounts
  BY DEF TypeOK
<1>3. SubSeq(Append(blocks, b), 1, Len(Append(blocks, b)) - 1) = blocks
  BY <1>2
<1>4. Committed = blocks /\ Committed' = blocks
  BY <1>1, <1>3 DEF Committed, IsFree
<1>5. CommittedLedger = accounts
  BY <1>1 DEF CommittedLedger
<1>6. CommittedLedger' = LedgerAfter(GenesisAccounts, TxsOfBlocks(blocks))
  BY <1>1, <1>4 DEF CommittedLedger, IsFree
<1>7. LedgerAfter(accounts, <<>>) = LedgerAfter(GenesisAccounts, TxsOfBlocks(blocks))
  BY <1>1 DEF LedgerInv, IsFree, NoCall
<1> QED  BY <1>1, <1>2, <1>4, <1>5, <1>6, <1>7, LedgerOfNone DEF Shown

\* A sequence is what comes before its last element, and that element.
LEMMA LastApart ==
  ASSUME NEW S, NEW s \in Seq(S), Len(s) >= 2
  PROVE  LET before == SubSeq(s, 1, Len(s) - 1)
         IN  /\ before \in Seq(S) /\ Len(before) = Len(s) - 1 /\ before # <<>>
             /\ \A i \in 1 .. Len(s) - 1 : before[i] = s[i]
             /\ s = Append(before, s[Len(s)])
<1> DEFINE n == Len(s)
           before == SubSeq(s, 1, n - 1)
           all == Append(before, s[n])
<1>1. n \in Nat /\ n - 1 \in Nat /\ n \in 1 .. n /\ s[n] \in S
  OBVIOUS
<1>2. before \in Seq(S) /\ Len(before) = n - 1
  BY <1>1
<1>3. ASSUME NEW i \in 1 .. n - 1 PROVE before[i] = s[i]
  BY <1>1
<1> HIDE DEF before
<1>4. before # <<>>
  BY <1>2
<1>5. all \in Seq(S) /\ Len(all) = n /\ all[n] = s[n]
  BY <1>1, <1>2
<1>6. ASSUME NEW i \in 1 .. n PROVE all[i] = s[i]
  <2>1. CASE i = n
    BY <1>5, <2>1
  <2>2. CASE i # n
    <3>1. i \in 1 .. n - 1
      BY <1>1, <2>2
    <3>2. all[i] = before[i]
      BY <1>2, <3>1
    <3> QED  BY <1>3, <3>1, <3>2
  <2> QED  BY <2>1, <2>2
<1> HIDE DEF all
<1>7. s = all
  BY <1>1, <1>5, <1>6
<1> QED  BY <1>2, <1>3, <1>4, <1>7 DEF before, all

\* The return of InsertBlock is where the block, and the ledger after it, show.
LEMMA ReturnExtends ==
  ASSUME TypeOK, BlocksInv, LedgerInv, InsertReturn
  PROVE  Abstract!Extend(call.block)
<1> DEFINE L == Len(blocks)
           before == SubSeq(blocks, 1, L - 1)
           b == call.block
<1>1. /\ serving /\ serving' /\ ~IsFree /\ IsFree' /\ UNCHANGED <<blocks, accounts>>
      /\ call.todo = <<>>
  BY NoCallIsIdle DEF InsertReturn, chainVars, IsFree
<1>13. \/ db' = db \cup {b} /\ (faults' > 0) = (faults > 0)
       \/ db' = db /\ (faults' > 0) = TRUE
  <2>1. CASE db' = db \cup {call.block} /\ faults' = faults
    BY <2>1
  <2>2. CASE db' = db /\ ~opened /\ faults' = faults
    BY <2>2 DEF BlocksInv
  <2>3. CASE db' = db /\ faults' = faults + 1
    BY <2>3 DEF TypeOK
  <2> QED  BY <2>1, <2>2, <2>3 DEF InsertReturn, Persist, Fault
<1>2. /\ blocks \in Seq(Block) /\ L \in Nat /\ L >= 2 /\ b = blocks[L]
      /\ Abstract!IsChild(b, blocks[L - 1]) /\ b \in Block /\ accounts \in Accounts
  BY <1>1 DEF BlocksInv, TypeOK, Tip
<1>3. /\ before \in Seq(Block) /\ Len(before) = L - 1 /\ before # <<>>
      /\ \A i \in 1 .. L - 1 : before[i] = blocks[i]
      /\ blocks = Append(before, blocks[L])
  BY <1>2, LastApart
<1>4. Committed = before /\ Committed' = blocks
  BY <1>1 DEF Committed
<1>5. b \notin Range(before)
  <2>1. \A i \in 1 .. L - 1 : i # L /\ i \in 1 .. L
    BY <1>2
  <2>2. ASSUME NEW i \in 1 .. L - 1 PROVE before[i] # b
    <3>1. blocks[i] # blocks[L]
      BY <1>2, <2>1 DEF BlocksInv
    <3> QED  BY <1>2, <1>3, <3>1
  <2>3. DOMAIN before = 1 .. L - 1
    BY <1>3
  <2> HIDE DEF before, b, L
  <2> QED  BY <2>2, <2>3 DEF Range
<1>6. Abstract!IsChild(b, Abstract!Tip(before))
  BY <1>2, <1>3 DEF Abstract!Tip
<1>7. CommittedLedger = LedgerAfter(GenesisAccounts, TxsOfBlocks(before))
  BY <1>1, <1>4 DEF CommittedLedger
<1>8. CommittedLedger' = accounts
  BY <1>1 DEF CommittedLedger
<1>9. accounts = LedgerAfter(GenesisAccounts, TxsOfBlocks(blocks))
  BY <1>1, <1>2, LedgerOfNone DEF LedgerInv
<1>10. TxsOfBlocks(blocks) = TxsOfBlocks(before) \o b.txs
  <2> HIDE DEF before, b, L
  <2> QED  BY <1>2, <1>3, TxsOfMore
<1>11. LedgerAfter(GenesisAccounts, TxsOfBlocks(before) \o b.txs) = LedgerAfter(CommittedLedger, b.txs)
  <2> DEFINE txs == TxsOfBlocks(before)
             more == b.txs
  <2>1. txs \in Seq(Tx) /\ more \in Seq(Tx) /\ GenesisAccounts \in Accounts
    BY <1>2, <1>3, TxsOfBlocksType, AccountsAssumption, BlockAssumption DEF BlockType
  <2> HIDE DEF txs, more
  <2>2. LedgerAfter(GenesisAccounts, txs \o more) = LedgerAfter(LedgerAfter(GenesisAccounts, txs), more)
    BY <2>1, LedgerOfBoth
  <2> QED  BY <1>7, <2>2 DEF txs, more
<1>12. CommittedLedger' = Abstract!LedgerAfter(CommittedLedger, b.txs)
  BY <1>8, <1>9, <1>10, <1>11, SameLedgerAfter
<1> HIDE DEF before, b, L
<1> QED  BY <1>1, <1>2, <1>3, <1>4, <1>5, <1>6, <1>12, <1>13 DEF Abstract!Extend, Abstract!Range, Range, b

LEMMA RestartStops ==
  ASSUME Restart
  PROVE  Abstract!Stop
<1>1. ~serving' /\ db' \in {db, {}} /\ faults' = faults
  BY DEF Restart
<1>2. Committed' = <<>>
  BY <1>1 DEF Committed
<1>3. CommittedLedger' = LedgerAfter(GenesisAccounts, <<>>)
  BY <1>1, <1>2, TxsOfNone DEF CommittedLedger
<1>4. CommittedLedger' = GenesisAccounts
  BY <1>3, LedgerOfNone, AccountsAssumption
<1> QED  BY <1>1, <1>2, <1>4 DEF Abstract!Stop

\* What was loaded is an ordering of what is stored.
LEMMA LoadedIsStored ==
  ASSUME NEW bs \in Seq(Block), NEW S, Len(bs) >= 1, bs[1] = Genesis,
         \A i, j \in 1 .. Len(bs) : bs[i] = bs[j] => i = j,
         {bs[i] : i \in 2 .. Len(bs)} = S
  PROVE  \E order \in Abstract!Orderings(S) : bs = <<Genesis>> \o order
<1> DEFINE m == Len(bs) - 1
           order == [i \in 1 .. m |-> bs[i + 1]]
<1>1. m \in Nat /\ Len(bs) = m + 1
  OBVIOUS
<1>2. \A i \in 1 .. m : i + 1 \in 2 .. Len(bs) /\ i + 1 \in 1 .. Len(bs)
  BY <1>1
<1>3. \A i \in 1 .. m : order[i] = bs[i + 1] /\ order[i] \in S
  BY <1>2
<1>4. order \in [1 .. m -> S]
  BY <1>3
<1>5. ASSUME NEW i \in 1 .. m, NEW j \in 1 .. m, order[i] = order[j] PROVE i = j
  <2>1. i + 1 = j + 1
    BY <1>2, <1>3, <1>5
  <2> QED  BY <1>1, <2>1
<1>6. \A x \in S : \E i \in 1 .. m : order[i] = x
  <2> SUFFICES ASSUME NEW x \in S PROVE \E i \in 1 .. m : order[i] = x
    OBVIOUS
  <2>1. PICK k \in 2 .. Len(bs) : bs[k] = x
    OBVIOUS
  <2>2. k - 1 \in 1 .. m /\ (k - 1) + 1 = k
    BY <1>1
  <2>3. order[k - 1] = x
    BY <2>1, <2>2
  <2> QED  BY <2>2, <2>3
<1>7. bs = <<Genesis>> \o order
  <2>1. order \in Seq(S) /\ Len(order) = m /\ Len(<<Genesis>> \o order) = m + 1
    BY <1>1, <1>4
  <2>2. ASSUME NEW i \in 1 .. m + 1 PROVE (<<Genesis>> \o order)[i] = bs[i]
    <3>1. CASE i = 1
      BY <1>1, <2>1, <3>1
    <3>2. CASE i # 1
      <4>1. i - 1 \in 1 .. m /\ (i - 1) + 1 = i
        BY <1>1, <3>2
      <4>2. (<<Genesis>> \o order)[i] = order[i - 1]
        BY <1>1, <2>1, <3>2
      <4> QED  BY <1>3, <4>1, <4>2
    <3> QED  BY <3>1, <3>2
  <2> QED  BY <1>1, <2>1, <2>2
<1> HIDE DEF m, order
<1>8. order \in Surjection(1 .. m, S) /\ order \in Injection(1 .. m, S)
  BY <1>4, <1>5, <1>6 DEF Surjection, Injection, IsInjective
<1>9. IsFiniteSet(1 .. m) /\ Cardinality(1 .. m) = m
  BY <1>1, FS_Interval
<1>10. Cardinality(S) = m
  BY <1>8, <1>9, FS_Surjection
<1>11. order \in Abstract!Orderings(S)
  <2>1. order \in [1 .. Abstract!Cardinality(S) -> S] /\ DOMAIN order = 1 .. m
    BY <1>4, <1>10, SameCardinality
  <2> QED  BY <1>5, <2>1 DEF Abstract!Orderings
<1> QED  BY <1>7, <1>11

LEMMA ServeRecovers ==
  ASSUME TypeOK, BlocksInv, LedgerInv, Serve
  PROVE  Abstract!Recover
<1>1. ~serving /\ serving' /\ IsFree /\ IsFree' /\ toLoad = {} /\ UNCHANGED <<blocks, accounts, db, faults>>
  BY DEF Serve, chainVars, diskVars, IsFree
<1>2. Committed = <<>> /\ Committed' = blocks /\ CommittedLedger' = accounts
  BY <1>1 DEF Committed, CommittedLedger
<1>3. blocks \in Seq(Block) /\ Len(blocks) >= 1 /\ accounts \in Accounts
  BY DEF TypeOK
<1> DEFINE read == db \ unread
<1>4. /\ {blocks[i] : i \in 2 .. Len(blocks)} = read /\ read \in SUBSET db
      /\ faults > 0 \/ read = db
  BY <1>1 DEF BlocksInv
<1> HIDE DEF read
<1>5. PICK order \in Abstract!Orderings(read) : blocks = <<Genesis>> \o order
  <2>1. blocks[1] = Genesis /\ \A i, j \in 1 .. Len(blocks) : blocks[i] = blocks[j] => i = j
    BY DEF BlocksInv
  <2> QED  BY <1>3, <1>4, <2>1, LoadedIsStored
<1>6. accounts = LedgerAfter(GenesisAccounts, TxsOfBlocks(blocks))
  BY <1>1, <1>3, LedgerOfNone DEF LedgerInv, IsFree, NoCall
<1>7. CommittedLedger' = Abstract!LedgerAfter(GenesisAccounts, Abstract!TxsOf(blocks))
  BY <1>2, <1>6, SameLedgerAfter, SameTxs
<1>8. Abstract!Serve(blocks)
  BY <1>2, <1>7 DEF Abstract!Serve
<1> QED  BY <1>1, <1>2, <1>4, <1>5, <1>8 DEF Abstract!Recover

LEMMA ImplementsNext ==
  TypeOK /\ BlocksInv /\ LedgerInv /\ [Next]_vars => [Abstract!Next]_(Abstract!vars)
<1> SUFFICES ASSUME TypeOK, BlocksInv, LedgerInv, [Next]_vars
             PROVE  Abstract!Next \/ UNCHANGED Shown
  BY DEF Abstract!vars, Shown
<1>1. CASE Aside
  <2>1. UNCHANGED <<blocks, accounts, db, faults, call, serving>>
    BY <1>1, AsideKeeps DEF diskVars
  <2> QED  BY <2>1, NothingShows DEF IsFree
<1>2. CASE IndexTx \/ ApplyTx
  <2>1. UNCHANGED <<blocks, db, faults, serving>> /\ ~IsFree /\ ~IsFree'
    BY <1>2, CallGoesOn DEF IndexTx, ApplyTx, chainVars, diskVars
  <2> QED  BY <2>1, NothingShows
<1>3. CASE InsertReturn
  <2>1. call.block \in Block
    BY <1>3, NoCallIsIdle DEF InsertReturn
  <2> QED  BY <1>3, <2>1, ReturnExtends DEF Abstract!Next
<1>4. CASE LoadNext
  BY <1>4, LoadingShowsNothing DEF LoadNext, diskVars
<1>5. CASE Restart
  BY <1>5, RestartStops DEF Abstract!Next
<1>6. CASE Serve
  BY <1>6, ServeRecovers DEF Abstract!Next
<1>7. ASSUME NEW b \in Block, InsertBegin(b) PROVE UNCHANGED Shown
  BY <1>7, BeginShowsNothing
<1>8. ASSUME NEW b \in Block, LoadBlock(b) PROVE UNCHANGED Shown
  BY <1>8, LoadingShowsNothing DEF LoadBlock, diskVars
<1>9. CASE PassOver
  <2>1. (faults' > 0) = TRUE /\ ~serving /\ ~serving' /\ db' = db
    BY <1>9 DEF PassOver, TypeOK
  <2>2. Committed' = Committed
    BY <2>1 DEF Committed
  <2>3. CommittedLedger' = CommittedLedger
    BY <2>1, <2>2 DEF CommittedLedger
  <2> QED  BY <2>1, <2>2, <2>3 DEF Abstract!Next, Abstract!Fail
<1> QED  BY <1>1, <1>2, <1>3, <1>4, <1>5, <1>6, <1>7, <1>8, <1>9, StepCases

\* Lock by lock, transaction by transaction, through crashes, failures of the storage
\* and whatever order its iterator yields the blocks in: a caller sees one atomic step per
\* block, and the ledger it reads while nothing is inserted is the one that the
\* transactions of the blocks it sees lead to.
THEOREM ImplementsCorrect == Spec => Implements
<1>1. Init => Abstract!Init
  BY ImplementsInit
<1>2. TypeOK /\ BlocksInv /\ LedgerInv /\ [Next]_vars => [Abstract!Next]_(Abstract!vars)
  BY ImplementsNext
<1> QED  BY <1>1, <1>2, RefinementInv, PTL DEF Spec, Implements, Abstract!Spec

----------------------------------------------------------------------------
(***************************************************************************)
(* The server                                                              *)
(***************************************************************************)

\* A handler does to the chain what one of Chain's readers does, or nothing.
LEMMA ServerStep == [ServerNext]_serverVars => [Next]_vars
<1> SUFFICES ASSUME ServerNext PROVE [Next]_vars
  BY DEF serverVars
<1>1. CASE ChainStep
  BY <1>1 DEF ChainStep, Next
<1>2. ASSUME NEW r \in Readers, Handler(r) PROVE [Next]_vars
  <2>1. CASE AskHead(r) \/ AskPending(r) \/ \E b \in Block : AskNumber(r, b.number) \/ AskHash(r, b.hash)
    BY <2>1 DEF AskHead, AskPending, AskNumber, AskHash
  <2>2. CASE AskCount(r) \/ AnswerCount(r) \/ AnswerReceipt(r)
    BY <2>2 DEF AskCount, AnswerCount, AnswerReceipt, Next, ReadStep
  <2>3. CASE \E h \in TxHash : AskTx(r, h) \/ AskReceipt(r, h)
    BY <2>3 DEF AskTx, AskReceipt, Next
  <2>4. CASE \E h \in RawHash : SendRaw(r, h)
    BY <2>4 DEF SendRaw
  <2>5. CASE \E a \in Addr : AskBalance(r, a) \/ AskNonce(r, a)
    BY <2>5 DEF AskBalance, AskNonce
  <2> QED  BY <1>2, <2>1, <2>2, <2>3, <2>4, <2>5 DEF Handler
<1> QED  BY <1>1, <1>2 DEF ServerNext

\* The server's behaviours keep what Chain keeps.
LEMMA ServerInvs == ServerSpec => [](TypeOK /\ MemInv)
<1>1. ServerInit => Init
  BY DEF ServerInit
<1> QED  BY <1>1, ServerStep, InitType, NextType, MemInvInit, MemInvNext, PTL DEF ServerSpec

\* The chain that the handlers answer from is one linked chain with exact indexes.
THEOREM ServerOneChain == ServerSpec => []OneChain
<1>1. MemInv => OneChain
  BY DEF MemInv, OneChain
<1> QED  BY <1>1, ServerInvs, PTL

\* A receipt or a count of the latest block that a client asked for has its block.
THEOREM ServerReaders == ServerSpec => []ReadersFindBlocks
<1>1. MemInv => ReadersFindBlocks
  BY DEF MemInv, ReadersHold, ReadersFindBlocks
<1> QED  BY <1>1, ServerInvs, PTL

----------------------------------------------------------------------------
(***************************************************************************)
(* The transaction index and the blocks                                    *)
(***************************************************************************)

\* An index knows a transaction of this hash, in the block of number n or later.
IsIndexed(index, h, n) == h \in DOMAIN index /\ index[h].num >= n

\* A transaction of this hash is among those to index.
IsToDo(todo, h) == \E j \in DOMAIN todo : todo[j].hash = h

\* Every transaction of a block is indexed under that block or a later one, but for
\* those of the head that the running call has still to come to.
IndexInv ==
  backend = "mem" =>
    /\ \A h \in DOMAIN txIndex : txIndex[h].hash = h
    /\ \A k \in 1 .. Len(blocks) : \A h \in TxsOf(blocks[k]) :
         \/ IsIndexed(txIndex, h, blocks[k].number)
         \/ k = Len(blocks) /\ IsToDo(call.todo, h)
    /\ call.stage = "account" => IsIndexed(txIndex, Head(call.todo).hash, Tip.number)

\* What a block of the chain is to the index.
LEMMA BlockFacts ==
  ASSUME TypeOK, MemInv, backend = "mem"
  PROVE  /\ Len(blocks) \in Nat /\ Len(blocks) >= 1
         /\ \A k \in 1 .. Len(blocks) : blocks[k] \in Block /\ blocks[k].number = k - 1
         /\ Tip = blocks[Len(blocks)] /\ Tip.number = Len(blocks) - 1
         /\ \A h \in DOMAIN txIndex : txIndex[h].num \in Nat /\ txIndex[h].num <= Tip.number
<1>1. /\ Len(blocks) \in Nat /\ Len(blocks) >= 1
      /\ \A k \in 1 .. Len(blocks) : blocks[k] \in Block /\ blocks[k].number = k - 1
  BY DEF TypeOK, MemInv, IsChain
<1>2. Tip = blocks[Len(blocks)] /\ Tip.number = Len(blocks) - 1
  BY <1>1 DEF Tip
<1>3. ASSUME NEW h \in DOMAIN txIndex
      PROVE  txIndex[h].num \in Nat /\ txIndex[h].num <= Tip.number
  <2>1. PICK k \in 1 .. Len(blocks) : Carries(blocks[k], txIndex[h])
    BY <1>3 DEF MemInv, IndexHeld, Held
  <2> QED  BY <1>1, <1>2, <2>1 DEF Carries
<1> QED  BY <1>1, <1>2, <1>3

\* No block and no transaction is lost, and the index moves to later blocks only.
Grows ==
  /\ Len(blocks') >= Len(blocks) /\ \A k \in 1 .. Len(blocks) : blocks'[k] = blocks[k]
  /\ \A h \in DOMAIN txIndex : h \in DOMAIN txIndex' /\ txIndex'[h].num >= txIndex[h].num

LEMMA GrowsNext ==
  ASSUME TypeOK, MemInv, backend = "mem", [Next]_vars, ~Restart
  PROVE  Grows
<1>1. ASSUME UNCHANGED <<blocks, txIndex>> PROVE Grows
  <2>1. Len(blocks) >= Len(blocks) /\ \A h \in DOMAIN txIndex : txIndex[h].num >= txIndex[h].num
    BY BlockFacts
  <2> QED  BY <1>1, <2>1 DEF Grows
<1>2. ASSUME NEW b \in Block, InsertBegin(b) PROVE Grows
  <2>1. blocks \in Seq(Block) /\ blocks' = Append(blocks, b) /\ txIndex' = txIndex
    BY <1>2 DEF InsertBegin, AddBlock, TypeOK
  <2> QED  BY <2>1, BlockFacts DEF Grows
<1>3. CASE IndexTx
  <2> DEFINE tx == Head(call.todo)
  <2>1. ~IsFree /\ call.todo # <<>> /\ call.todo \in Seq(Tx) /\ blocks' = blocks
    BY <1>3, NoCallIsIdle DEF IndexTx, chainVars, diskVars
  <2>2. txIndex' = Put(txIndex, tx.hash, tx)
    BY <1>3 DEF IndexTx
  <2>3. PICK i \in DOMAIN Tip.txs : Tip.txs[i] = tx
    BY <2>1 DEF MemInv, CallOfTip
  <2>4. tx.num = Tip.number
    BY <2>3, BlockFacts, ProducerAssumption
  <2>5. \A h \in DOMAIN txIndex : h \in DOMAIN txIndex' /\ txIndex'[h].num >= txIndex[h].num
    BY <2>2, <2>4, BlockFacts DEF Put
  <2>6. Len(blocks') >= Len(blocks) /\ \A k \in 1 .. Len(blocks) : blocks'[k] = blocks[k]
    BY <2>1, BlockFacts
  <2> QED  BY <2>5, <2>6 DEF Grows
<1>4. CASE ApplyTx \/ InsertReturn \/ LoadNext \/ Serve \/ UNCHANGED vars
  BY <1>1, <1>4 DEF ApplyTx, InsertReturn, LoadNext, Serve, vars, chainVars, diskVars
<1>5. ASSUME NEW b \in Block, InsertKnown(b) \/ InsertRejected(b) \/ LoadBlock(b) PROVE Grows
  BY <1>1, <1>5 DEF InsertKnown, InsertRejected, LoadBlock, chainVars, diskVars, MemInv
<1>6. ASSUME NEW r \in Readers, ReadStep(r) \/ ReadHeight(r) \/ \E h \in TxHash : ReadTx(r, h)
      PROVE  Grows
  BY <1>1, <1>6 DEF ReadStep, ReadTxBlock, ReadHeightBlock, ReadHeight, ReadTx, chainVars, diskVars
<1>7. ASSUME LoadFails \/ \E b \in Block : SkipBlock(b) PROVE Grows
  BY <1>1, <1>7 DEF LoadFails, SkipBlock, chainVars
<1> QED  BY <1>2, <1>3, <1>4, <1>5, <1>6, <1>7 DEF Next, CallStep, StartStep

\* What is indexed stays so.
LEMMA IndexedStays ==
  ASSUME TypeOK, MemInv, backend = "mem", Grows, TypeOK', MemInv', backend' = "mem",
         NEW h, NEW n \in Nat, IsIndexed(txIndex, h, n)
  PROVE  IsIndexed(txIndex', h, n)
<1>1. h \in DOMAIN txIndex' /\ txIndex'[h].num >= txIndex[h].num /\ txIndex[h].num >= n
  BY DEF Grows, IsIndexed
<1>2. txIndex[h].num \in Nat
  BY BlockFacts DEF IsIndexed
<1>3. txIndex'[h].num \in Nat
  BY <1>1, BlockFacts DEF TypeOK, MapType, Tx
<1> QED  BY <1>1, <1>2, <1>3 DEF IsIndexed

LEMMA BackendStays == [Next]_vars => backend' = backend
BY DEF Next, CallStep, StartStep, ReadStep, InsertKnown, InsertRejected, InsertBegin,
       IndexTx, ApplyTx, InsertReturn, LoadNext, Restart, LoadBlock, SkipBlock, LoadFails,
       Serve, ReadTx, ReadTxBlock, ReadHeight, ReadHeightBlock, vars, diskVars

\* A process that starts has only genesis, which carries no transaction.
LEMMA FreshIndex ==
  ASSUME blocks = <<Genesis>>, txIndex = <<>>, call = NoCall
  PROVE  IndexInv
BY BlockAssumption DEF IndexInv, TxsOf, NoCall

LEMMA IndexInvInit == Init => IndexInv
BY FreshIndex DEF Init

LEMMA IndexInvNext == TypeOK /\ MemInv /\ IndexInv /\ [Next]_vars => IndexInv'
<1> SUFFICES ASSUME TypeOK, MemInv, IndexInv, [Next]_vars, backend' = "mem" PROVE IndexInv'
  BY DEF IndexInv
<1>0. backend = "mem" /\ TypeOK' /\ MemInv'
  BY BackendStays, NextType, MemInvNext
<1>1. ASSUME ~Restart PROVE Grows
  BY <1>0, <1>1, GrowsNext
<1>2. CASE Restart
  <2>1. blocks' = <<Genesis>> /\ txIndex' = <<>> /\ call' = NoCall
    BY <1>2 DEF Restart
  <2> QED  BY <2>1, BlockAssumption DEF IndexInv, TxsOf, NoCall
<1>3. ASSUME UNCHANGED <<blocks, txIndex, call>> PROVE IndexInv'
  BY <1>0, <1>3 DEF IndexInv, IsIndexed, IsToDo, Tip
<1>4. ASSUME NEW b \in Block, InsertBegin(b) PROVE IndexInv'
  <2> DEFINE L == Len(blocks)
  <2>1. /\ IsFree /\ blocks \in Seq(Block) /\ blocks' = Append(blocks, b) /\ txIndex' = txIndex
        /\ call' = [block |-> b, todo |-> b.txs, stage |-> "index"]
    BY <1>4 DEF InsertBegin, AddBlock, Begin, TypeOK
  <2>2. L \in Nat /\ Len(blocks') = L + 1 /\ blocks'[L + 1] = b /\ \A k \in 1 .. L : blocks'[k] = blocks[k]
    BY <2>1
  <2>3. ASSUME NEW k \in 1 .. L, NEW h \in TxsOf(blocks[k]) PROVE IsIndexed(txIndex, h, blocks[k].number)
    <3>1. ~IsToDo(call.todo, h)
      BY <2>1 DEF IsToDo, IsFree, NoCall
    <3> QED  BY <1>0, <3>1 DEF IndexInv
  <2>4. \A h \in TxsOf(b) : IsToDo(call'.todo, h)
    BY <2>1 DEF IsToDo, TxsOf
  <2>5. ASSUME NEW k \in 1 .. L + 1, NEW h \in TxsOf(blocks'[k])
        PROVE  IsIndexed(txIndex', h, blocks'[k].number) \/ (k = L + 1 /\ IsToDo(call'.todo, h))
    <3>1. CASE k \in 1 .. L
      BY <2>1, <2>2, <2>3, <2>5, <3>1 DEF IsIndexed
    <3> QED  BY <2>2, <2>4, <2>5, <3>1
  <2>6. \A h \in DOMAIN txIndex' : txIndex'[h].hash = h
    BY <1>0, <2>1 DEF IndexInv
  <2> QED  BY <2>1, <2>2, <2>5, <2>6 DEF IndexInv
<1>5. CASE IndexTx
  <2> DEFINE tx == Head(call.todo)
             L == Len(blocks)
  <2>1. /\ ~IsFree /\ call.todo # <<>> /\ call.todo \in Seq(Tx) /\ blocks' = blocks
        /\ txIndex' = Put(txIndex, tx.hash, tx)
    BY <1>5, NoCallIsIdle DEF IndexTx, chainVars, diskVars
  <2>2. call'.todo = call.todo \/ call'.todo = Tail(call.todo)
    BY <1>5, NoCallIsIdle DEF IndexTx
  <2>3. tx = call.todo[1] /\ 1 \in DOMAIN call.todo
    BY <2>1
  <2>4. PICK i \in DOMAIN Tip.txs : Tip.txs[i] = tx
    BY <1>0, <2>1, <2>3 DEF MemInv, CallOfTip
  <2>5. tx.num = Tip.number /\ Tip' = Tip /\ Tip.number \in Nat
    BY <1>0, <2>1, <2>4, BlockFacts, ProducerAssumption DEF Tip
  <2>6. IsIndexed(txIndex', tx.hash, Tip.number)
    BY <2>1, <2>5 DEF IsIndexed, Put
  <2>7. \A h \in DOMAIN txIndex' : txIndex'[h].hash = h
    BY <1>0, <2>1 DEF IndexInv, Put
  <2>8. ASSUME NEW k \in 1 .. L, NEW h \in TxsOf(blocks[k])
        PROVE  IsIndexed(txIndex', h, blocks[k].number) \/ (k = L /\ IsToDo(call'.todo, h))
    <3>1. blocks[k].number \in Nat /\ Tip = blocks[L]
      BY <1>0, BlockFacts
    <3>2. CASE IsIndexed(txIndex, h, blocks[k].number)
      <4>1. ~Restart
        BY <2>1, NoCallIsIdle, BlockAssumption DEF Restart, Put
      <4>2. Grows
        BY <1>1, <4>1
      <4> QED  BY <1>0, <2>1, <3>1, <3>2, <4>2, IndexedStays DEF IsIndexed
    <3>3. CASE k = L /\ IsToDo(call.todo, h)
      <4>1. PICK j \in DOMAIN call.todo : call.todo[j].hash = h
        BY <3>3 DEF IsToDo
      <4>2. CASE j = 1
        BY <2>1, <2>3, <2>5, <2>6, <3>1, <3>3, <4>1, <4>2 DEF IsIndexed
      <4>3. CASE j # 1
        <5>1. j - 1 \in DOMAIN Tail(call.todo) /\ Tail(call.todo)[j - 1] = call.todo[j]
          BY <2>1, <4>1, <4>3
        <5> QED  BY <2>2, <3>3, <4>1, <5>1 DEF IsToDo
      <4> QED  BY <4>2, <4>3
    <3> QED  BY <1>0, <3>2, <3>3 DEF IndexInv
  <2>9. call'.stage = "account" => IsIndexed(txIndex', Head(call'.todo).hash, Tip'.number)
    <3> SUFFICES ASSUME call'.stage = "account" PROVE call'.todo = call.todo
      BY <2>5, <2>6
    <3> QED  BY <1>5, NoCallIsIdle DEF IndexTx
  <2> QED  BY <2>1, <2>7, <2>8, <2>9 DEF IndexInv
<1>6. CASE ApplyTx
  <2> DEFINE tx == Head(call.todo)
             L == Len(blocks)
  <2>1. /\ call.stage = "account" /\ blocks' = blocks /\ txIndex' = txIndex
        /\ call.todo \in Seq(Tx) /\ call.todo # <<>>
        /\ call'.todo = Tail(call.todo) /\ call'.stage = "index"
    BY <1>6, NoCallIsIdle DEF ApplyTx, chainVars, diskVars, TypeOK
  <2>2. IsIndexed(txIndex, tx.hash, Tip.number) /\ tx = call.todo[1] /\ Tip = blocks[L]
    BY <1>0, <2>1, BlockFacts DEF IndexInv
  <2>3. ASSUME NEW k \in 1 .. L, NEW h \in TxsOf(blocks[k])
        PROVE  IsIndexed(txIndex, h, blocks[k].number) \/ (k = L /\ IsToDo(call'.todo, h))
    <3>1. ASSUME k = L, NEW j \in DOMAIN call.todo, call.todo[j].hash = h, j # 1 PROVE IsToDo(call'.todo, h)
      <4>1. j - 1 \in DOMAIN Tail(call.todo) /\ Tail(call.todo)[j - 1] = call.todo[j]
        BY <2>1, <3>1
      <4> QED  BY <2>1, <3>1, <4>1 DEF IsToDo
    <3>2. CASE IsIndexed(txIndex, h, blocks[k].number)
      BY <3>2
    <3>3. CASE k = L /\ IsToDo(call.todo, h)
      <4>1. PICK j \in DOMAIN call.todo : call.todo[j].hash = h
        BY <3>3 DEF IsToDo
      <4> QED  BY <2>2, <3>1, <3>3, <4>1
    <3> QED  BY <1>0, <3>2, <3>3 DEF IndexInv
  <2> QED  BY <1>0, <2>1, <2>3 DEF IndexInv, IsIndexed
<1>7. CASE InsertReturn \/ LoadNext
  <2>1. /\ blocks' = blocks /\ txIndex' = txIndex
        /\ call.todo = <<>> /\ call' = NoCall
    BY <1>7 DEF InsertReturn, LoadNext, chainVars, diskVars
  <2>2. \A h : ~IsToDo(call.todo, h)
    BY <2>1 DEF IsToDo
  <2> QED  BY <1>0, <2>1, <2>2 DEF IndexInv, IsIndexed, NoCall
<1>8. ASSUME NEW b \in Block, InsertKnown(b) \/ InsertRejected(b) \/ LoadBlock(b) PROVE IndexInv'
  BY <1>0, <1>3, <1>8 DEF InsertKnown, InsertRejected, LoadBlock, chainVars, diskVars, MemInv
<1>9. CASE Serve \/ UNCHANGED vars
  BY <1>3, <1>9 DEF Serve, vars, chainVars, diskVars
<1>10. ASSUME NEW r \in Readers, ReadStep(r) \/ ReadHeight(r) \/ \E h \in TxHash : ReadTx(r, h)
       PROVE  IndexInv'
  BY <1>3, <1>10 DEF ReadStep, ReadTxBlock, ReadHeightBlock, ReadHeight, ReadTx, chainVars, diskVars
<1>11. ASSUME LoadFails \/ \E b \in Block : SkipBlock(b) PROVE IndexInv'
  BY <1>3, <1>11 DEF LoadFails, SkipBlock, chainVars
<1> QED  BY <1>2, <1>4, <1>5, <1>6, <1>7, <1>8, <1>9, <1>10, <1>11 DEF Next, CallStep, StartStep

LEMMA ServerIndexInv == ServerSpec => []IndexInv
<1>1. ServerInit => Init
  BY DEF ServerInit
<1> QED  BY <1>1, ServerStep, ServerInvs, IndexInvInit, IndexInvNext, PTL DEF ServerSpec

----------------------------------------------------------------------------
(***************************************************************************)
(* The answers                                                             *)
(***************************************************************************)

\* What answer a shows is still there: its block in bs, its transactions in an index
\* under the height it had reached or a later one, and what it took in the table.
IsBacked(a, bs, index, table) ==
  /\ a.num \in Int /\ (a.op # "balance" => a.num \in Nat)
  /\ a.block # None => \E k \in 1 .. Len(bs) : bs[k] = a.block
  /\ \A h \in ShownTxs(a) : IsIndexed(index, h, Reached(a))
  /\ Reached(a) \in Nat /\ Reached(a) < Len(bs)
  /\ a.op \in {"sent", "pending"} => a.key \in table

\* A client that got answer a and waits for its next one: the transaction it looks for
\* in the table was not shown to it, and a handler between two reads goes on from no
\* earlier height.
Fits(a, hash, read) ==
  /\ hash # None => read.op \notin {"receipt", "latest"} /\ hash \notin ShownTxs(a)
  /\ read.op = "latest" => read.num >= Reached(a)
  /\ read.op = "receipt" /\ read.tx.hash \in ShownTxs(a) => read.tx.num >= Reached(a)

SaidInv ==
  /\ DOMAIN said = Readers /\ DOMAIN asking = Readers
  /\ backend = "mem" =>
       \A r \in Readers : /\ IsBacked(said[r], blocks, txIndex, pendingTx)
                          /\ Fits(said[r], asking[r], reader[r])

\* An answer that shows no block and no transaction.
LEMMA BackedPlain ==
  ASSUME TypeOK, NEW op, op \notin {"mined", "receipt"}, NEW key, NEW num \in Nat,
         NEW table, op \in {"sent", "pending"} => key \in table
  PROVE  IsBacked([op |-> op, key |-> key, num |-> num, block |-> None], blocks, txIndex, table)
BY DEF IsBacked, ShownTxs, Reached, TypeOK

LEMMA BackedBalance ==
  ASSUME TypeOK, NEW key, NEW num \in Int, NEW table
  PROVE  IsBacked([op |-> "balance", key |-> key, num |-> num, block |-> None],
                  blocks, txIndex, table)
BY DEF IsBacked, ShownTxs, Reached, TypeOK

\* An answer made from a block while c.mu is free: all of its transactions are indexed.
LEMMA BackedBlock ==
  ASSUME TypeOK, MemInv, IndexInv, backend = "mem", IsFree, NEW k \in 1 .. Len(blocks),
         NEW op \in {"head", "block", "receipt"}, NEW key,
         op = "receipt" => key \in TxsOf(blocks[k]), NEW table
  PROVE  IsBacked([op |-> op, key |-> key, num |-> 0, block |-> blocks[k]], blocks, txIndex, table)
<1> DEFINE a == [op |-> op, key |-> key, num |-> 0, block |-> blocks[k]]
<1>1. /\ blocks[k] # None /\ blocks[k].number = k - 1
      /\ Len(blocks) \in Nat /\ Reached(a) = blocks[k].number
  BY BlockFacts, BlockAssumption DEF Reached
<1>2. ShownTxs(a) = TxsOf(blocks[k])
  BY <1>1 DEF ShownTxs
<1>3. ASSUME NEW h \in TxsOf(blocks[k]) PROVE IsIndexed(txIndex, h, blocks[k].number)
  <2>1. ~IsToDo(call.todo, h)
    BY DEF IsFree, NoCall, IsToDo
  <2> QED  BY <2>1 DEF IndexInv
<1>4. Reached(a) \in Nat /\ Reached(a) < Len(blocks)
  BY <1>1
<1> HIDE DEF a
<1> QED  BY <1>1, <1>2, <1>3, <1>4 DEF IsBacked, a

\* A block of the chain under its number is the block that an earlier answer showed.
LEMMA SameNumber ==
  ASSUME TypeOK, MemInv, backend = "mem", NEW j \in 1 .. Len(blocks), NEW k \in 1 .. Len(blocks),
         blocks[j].number = blocks[k].number
  PROVE  blocks[j] = blocks[k]
BY BlockFacts

\* What a lookup by hash or number finds is a block of the chain, and every block is found.
LEMMA Lookups ==
  ASSUME MemInv, backend = "mem"
  PROVE  /\ \A h \in DOMAIN byHash : \E k \in 1 .. Len(blocks) : byHash[h] = blocks[k]
         /\ \A n \in DOMAIN byNumber : \E k \in 1 .. Len(blocks) : byNumber[n] = blocks[k]
         /\ \A k \in 1 .. Len(blocks) : blocks[k].hash \in DOMAIN byHash
<1>1. IndexesHold(blocks)
  BY DEF MemInv
<1>2. ASSUME NEW h \in DOMAIN byHash PROVE \E k \in 1 .. Len(blocks) : byHash[h] = blocks[k]
  <2>1. PICK k \in 1 .. Len(blocks) : blocks[k].hash = h
    BY <1>1 DEF IndexesHold
  <2>2. byHash[blocks[k].hash] = blocks[k]
    BY <1>1 DEF IndexesHold
  <2> QED  BY <2>1, <2>2
<1>3. ASSUME NEW n \in DOMAIN byNumber PROVE \E k \in 1 .. Len(blocks) : byNumber[n] = blocks[k]
  <2>1. PICK k \in 1 .. Len(blocks) : blocks[k].number = n
    BY <1>1 DEF IndexesHold
  <2>2. byNumber[blocks[k].number] = blocks[k]
    BY <1>1 DEF IndexesHold
  <2> QED  BY <2>1, <2>2
<1>4. \A k \in 1 .. Len(blocks) : blocks[k].hash \in DOMAIN byHash
  BY <1>1 DEF IndexesHold
<1> QED  BY <1>2, <1>3, <1>4

\* Whoever has its answer waits for nothing.
LEMMA FitsIdle ==
  ASSUME NEW a, NEW read, read.op \notin {"receipt", "latest"}
  PROVE  Fits(a, None, read)
BY DEF Fits

\* What a handler's step does to the client it answers.
Goes(r) ==
  /\ said'[r] # said[r] => KeepsChain(said[r], said'[r])
  /\ IsBacked(said'[r], blocks, txIndex, pendingTx')
  /\ Fits(said'[r], asking'[r], reader'[r])

\* Handlers that answer from one read, or from none of the chain.
LEMMA OneReadGoes ==
  ASSUME TypeOK, MemInv, IndexInv, SaidInv, backend = "mem", NEW r \in Readers,
         CanAsk(r), UNCHANGED <<vars, asking>>,
         NEW a, said' = [said EXCEPT ![r] = a],
         IsBacked(a, blocks, txIndex, pendingTx'), KeepsChain(said[r], a)
  PROVE  Goes(r)
<1>1. said'[r] = a /\ asking'[r] = None /\ reader'[r].op \notin {"receipt", "latest"}
  BY DEF CanAsk, IsReading, SaidInv, vars
<1> QED  BY <1>1, FitsIdle DEF Goes

LEMMA AskHeadGoes ==
  ASSUME TypeOK, MemInv, IndexInv, SaidInv, backend = "mem", NEW r \in Readers, AskHead(r)
  PROVE  Goes(r)
<1> DEFINE a == [op |-> "head", key |-> None, num |-> 0, block |-> Tip]
<1>1. /\ CanAsk(r) /\ IsFree /\ UNCHANGED <<vars, asking>> /\ pendingTx' = pendingTx
      /\ said' = [said EXCEPT ![r] = a]
  BY DEF AskHead, Said
<1>2. Tip = blocks[Len(blocks)] /\ Len(blocks) \in 1 .. Len(blocks) /\ Tip.number = Len(blocks) - 1
  BY BlockFacts
<1>3. IsBacked(a, blocks, txIndex, pendingTx')
  BY <1>1, <1>2, BackedBlock
<1>4. Reached(said[r]) \in Nat /\ Reached(said[r]) < Len(blocks)
  BY DEF SaidInv, IsBacked
<1>5. KeepsChain(said[r], a)
  BY <1>2, <1>4, BlockFacts DEF KeepsChain
<1> QED  BY <1>1, <1>3, <1>5, OneReadGoes

LEMMA AskNumberGoes ==
  ASSUME TypeOK, MemInv, IndexInv, SaidInv, backend = "mem", NEW r \in Readers,
         NEW n \in Nat, AskNumber(r, n)
  PROVE  Goes(r)
<1>1. CanAsk(r) /\ IsFree /\ UNCHANGED <<vars, asking>> /\ pendingTx' = pendingTx
  BY DEF AskNumber
<1>2. IsBacked(said[r], blocks, txIndex, pendingTx)
  BY DEF SaidInv
<1>3. CASE ByNumber(n) # None
  <2> DEFINE a == [op |-> "block", key |-> None, num |-> 0, block |-> ByNumber(n)]
  <2>1. said' = [said EXCEPT ![r] = a]
    BY <1>3 DEF AskNumber, Said
  <2>2. PICK k \in 1 .. Len(blocks) : ByNumber(n) = blocks[k]
    BY <1>3, Lookups DEF ByNumber
  <2>3. IsBacked(a, blocks, txIndex, pendingTx')
    BY <1>1, <2>2, BackedBlock
  <2>4. said[r].block # None /\ said[r].block.number = blocks[k].number => said[r].block = blocks[k]
    BY <1>2, SameNumber DEF IsBacked
  <2>5. KeepsChain(said[r], a)
    BY <2>2, <2>4 DEF KeepsChain
  <2> QED  BY <1>1, <2>1, <2>3, <2>5, OneReadGoes
<1>4. CASE ByNumber(n) = None
  <2> DEFINE a == [op |-> "no number", key |-> None, num |-> n, block |-> None]
  <2>1. said' = [said EXCEPT ![r] = a]
    BY <1>4 DEF AskNumber, Said
  <2>2. IsBacked(a, blocks, txIndex, pendingTx')
    BY BackedPlain
  <2>3. n >= Len(blocks)
    <3>1. SUFFICES ASSUME n < Len(blocks) PROVE FALSE
      BY BlockFacts
    <3>2. n + 1 \in 1 .. Len(blocks) /\ blocks[n + 1].number = n /\ blocks[n + 1] # None
      BY <3>1, BlockFacts, BlockAssumption
    <3> QED  BY <1>4, <3>2 DEF ByNumber, MemInv, IndexesHold
  <2>4. KeepsChain(said[r], a)
    BY <1>2, <2>3, BlockFacts DEF KeepsChain, IsBacked
  <2> QED  BY <1>1, <2>1, <2>2, <2>4, OneReadGoes
<1> QED  BY <1>3, <1>4

LEMMA AskHashGoes ==
  ASSUME TypeOK, MemInv, IndexInv, SaidInv, backend = "mem", NEW r \in Readers,
         NEW h, AskHash(r, h)
  PROVE  Goes(r)
<1>1. CanAsk(r) /\ IsFree /\ UNCHANGED <<vars, asking>> /\ pendingTx' = pendingTx
  BY DEF AskHash
<1>2. IsBacked(said[r], blocks, txIndex, pendingTx)
  BY DEF SaidInv
<1>3. CASE h \in DOMAIN byHash
  <2> DEFINE a == [op |-> "block", key |-> None, num |-> 0, block |-> byHash[h]]
  <2>1. said' = [said EXCEPT ![r] = a]
    BY <1>3 DEF AskHash, Said
  <2>2. PICK k \in 1 .. Len(blocks) : byHash[h] = blocks[k]
    BY <1>3, Lookups
  <2>3. IsBacked(a, blocks, txIndex, pendingTx')
    BY <1>1, <2>2, BackedBlock
  <2>4. said[r].block # None /\ said[r].block.number = blocks[k].number => said[r].block = blocks[k]
    BY <1>2, SameNumber DEF IsBacked
  <2>5. KeepsChain(said[r], a)
    BY <2>2, <2>4 DEF KeepsChain
  <2> QED  BY <1>1, <2>1, <2>3, <2>5, OneReadGoes
<1>4. CASE h \notin DOMAIN byHash
  <2> DEFINE a == [op |-> "no hash", key |-> h, num |-> 0, block |-> None]
  <2>1. said' = [said EXCEPT ![r] = a]
    BY <1>4 DEF AskHash, Said
  <2>2. IsBacked(a, blocks, txIndex, pendingTx')
    BY BackedPlain
  <2>3. said[r].block = None \/ said[r].block.hash # h
    BY <1>2, <1>4, Lookups DEF IsBacked
  <2>4. KeepsChain(said[r], a)
    BY <2>3 DEF KeepsChain
  <2> QED  BY <1>1, <2>1, <2>2, <2>4, OneReadGoes
<1> QED  BY <1>3, <1>4

LEMMA SendRawGoes ==
  ASSUME TypeOK, MemInv, IndexInv, SaidInv, backend = "mem", NEW r \in Readers,
         NEW h, SendRaw(r, h)
  PROVE  Goes(r)
<1> DEFINE a == [op |-> "sent", key |-> h, num |-> 0, block |-> None]
<1>1. /\ CanAsk(r) /\ UNCHANGED <<vars, asking>> /\ pendingTx' = pendingTx \cup {h}
      /\ said' = [said EXCEPT ![r] = a]
  BY DEF SendRaw, Said
<1>2. IsBacked(a, blocks, txIndex, pendingTx')
  BY <1>1, BackedPlain
<1>3. KeepsChain(said[r], a)
  BY DEF KeepsChain
<1> QED  BY <1>1, <1>2, <1>3, OneReadGoes

LEMMA AskAccountGoes ==
  ASSUME TypeOK, MemInv, IndexInv, SaidInv, backend = "mem", NEW r \in Readers,
         NEW addr \in Addr, AskBalance(r, addr) \/ AskNonce(r, addr)
  PROVE  Goes(r)
<1>1. PICK op \in {"balance", "nonce"}, num \in Int :
        /\ CanAsk(r) /\ UNCHANGED <<vars, asking, pendingTx>> /\ (op = "balance" \/ num \in Nat)
        /\ said' = [said EXCEPT ![r] = [op |-> op, key |-> addr, num |-> num, block |-> None]]
  <2>1. /\ accounts[addr].balance \in Int
        /\ accounts[addr].nonce \in Nat /\ accounts[addr].nonce \in Int
    BY DEF TypeOK, Accounts, Account
  <2>2. CASE AskBalance(r, addr)
    <3>1. /\ CanAsk(r) /\ UNCHANGED <<vars, asking, pendingTx>>
          /\ said' = [said EXCEPT ![r] = [op |-> "balance", key |-> addr,
                                         num |-> accounts[addr].balance, block |-> None]]
      BY <2>2 DEF AskBalance, Said
    <3> QED  BY <2>1, <3>1, Zenon
  <2>3. CASE AskNonce(r, addr)
    <3>1. /\ CanAsk(r) /\ UNCHANGED <<vars, asking, pendingTx>>
          /\ said' = [said EXCEPT ![r] = [op |-> "nonce", key |-> addr,
                                         num |-> accounts[addr].nonce, block |-> None]]
      BY <2>3 DEF AskNonce, Said
    <3> QED  BY <2>1, <3>1, Zenon
  <2> QED  BY <2>2, <2>3
<1> DEFINE a == [op |-> op, key |-> addr, num |-> num, block |-> None]
<1>2. IsBacked(a, blocks, txIndex, pendingTx')
  <2>1. CASE op = "balance"
    BY <2>1, BackedBalance
  <2>2. CASE op = "nonce"
    BY <1>1, <2>2, BackedPlain
  <2> QED  BY <2>1, <2>2
<1>3. KeepsChain(said[r], a)
  BY DEF KeepsChain
<1> QED  BY <1>1, <1>2, <1>3, OneReadGoes

\* The transaction is in the index, or the client goes on to the table.
LEMMA AskTxGoes ==
  ASSUME TypeOK, MemInv, IndexInv, SaidInv, backend = "mem", NEW r \in Readers,
         NEW h, AskTx(r, h)
  PROVE  Goes(r)
<1>1. CanAsk(r) /\ UNCHANGED <<vars, pendingTx>>
  BY DEF AskTx
<1>2. IsBacked(said[r], blocks, txIndex, pendingTx)
  BY DEF SaidInv
<1>3. CASE h \in DOMAIN txIndex
  <2> DEFINE a == [op |-> "mined", key |-> h, num |-> txIndex[h].num, block |-> None]
  <2>1. said' = [said EXCEPT ![r] = a] /\ asking' = asking
    BY <1>3 DEF AskTx, Said
  <2>2. txIndex[h].num \in Nat /\ txIndex[h].num < Len(blocks)
    BY <1>3, BlockFacts
  <2>3. IsBacked(a, blocks, txIndex, pendingTx')
    BY <1>3, <2>2 DEF IsBacked, ShownTxs, Reached, IsIndexed
  <2>4. h \in ShownTxs(said[r]) => txIndex[h].num >= Reached(said[r])
    BY <1>2 DEF IsBacked, IsIndexed
  <2>5. KeepsChain(said[r], a)
    BY <2>4 DEF KeepsChain, Reached
  <2> QED  BY <1>1, <2>1, <2>3, <2>5, OneReadGoes
<1>4. CASE h \notin DOMAIN txIndex
  <2>1. said' = said /\ asking' = [asking EXCEPT ![r] = h]
    BY <1>4 DEF AskTx
  <2>2. h \notin ShownTxs(said[r])
    BY <1>2, <1>4 DEF IsBacked, IsIndexed
  <2>3. asking'[r] = h /\ reader'[r].op \notin {"receipt", "latest"}
    BY <1>1, <2>1 DEF SaidInv, CanAsk, IsReading, vars
  <2>4. Fits(said'[r], asking'[r], reader'[r])
    BY <2>1, <2>2, <2>3 DEF Fits
  <2> QED  BY <1>1, <1>2, <2>1, <2>4 DEF Goes
<1> QED  BY <1>3, <1>4

\* The table answers for what the index did not hold.
LEMMA AskPendingGoes ==
  ASSUME TypeOK, MemInv, IndexInv, SaidInv, backend = "mem", NEW r \in Readers,
         AskPending(r)
  PROVE  Goes(r)
<1>1. PICK op \in {"pending", "no tx"} :
        /\ op = IF asking[r] \in pendingTx THEN "pending" ELSE "no tx"
        /\ said' = [said EXCEPT ![r] = [op |-> op, key |-> asking[r], num |-> 0, block |-> None]]
  BY DEF AskPending, Said
<1>2. asking[r] # None /\ asking'[r] = None /\ reader' = reader /\ pendingTx' = pendingTx
  BY DEF AskPending, SaidInv, vars
<1>3. /\ IsBacked(said[r], blocks, txIndex, pendingTx)
      /\ reader[r].op \notin {"receipt", "latest"} /\ asking[r] \notin ShownTxs(said[r])
  BY <1>2 DEF SaidInv, Fits
<1> DEFINE a == [op |-> op, key |-> asking[r], num |-> 0, block |-> None]
<1>4. said'[r] = a
  BY <1>1 DEF SaidInv
<1>5. IsBacked(a, blocks, txIndex, pendingTx')
  BY <1>1, <1>2, BackedPlain
<1>6. KeepsChain(said[r], a)
  BY <1>1, <1>3 DEF KeepsChain, IsBacked
<1> QED  BY <1>2, <1>3, <1>4, <1>5, <1>6, FitsIdle DEF Goes

\* A receipt: the index first.
LEMMA AskReceiptGoes ==
  ASSUME TypeOK, MemInv, IndexInv, SaidInv, backend = "mem", NEW r \in Readers,
         NEW h, AskReceipt(r, h)
  PROVE  Goes(r)
<1>1. CanAsk(r) /\ asking' = asking /\ pendingTx' = pendingTx
  BY DEF AskReceipt
<1>2. IsBacked(said[r], blocks, txIndex, pendingTx)
  BY DEF SaidInv
<1>3. CASE h \in DOMAIN txIndex
  <2>1. said' = said /\ ReadTx(r, h)
    BY <1>3 DEF AskReceipt
  <2>2. reader'[r].op = "receipt" /\ reader'[r].tx = txIndex[h]
    BY <2>1 DEF ReadTx, NoRead, TypeOK
  <2>3. txIndex[h].hash = h
    BY <1>3 DEF IndexInv
  <2>4. h \in ShownTxs(said[r]) => txIndex[h].num >= Reached(said[r])
    BY <1>2 DEF IsBacked, IsIndexed
  <2>5. Fits(said'[r], asking'[r], reader'[r])
    BY <1>1, <2>1, <2>2, <2>3, <2>4 DEF Fits, CanAsk
  <2> QED  BY <1>1, <1>2, <2>1, <2>5 DEF Goes
<1>4. CASE h \notin DOMAIN txIndex
  <2> DEFINE a == [op |-> "no receipt", key |-> h, num |-> 0, block |-> None]
  <2>1. said' = [said EXCEPT ![r] = a] /\ UNCHANGED vars
    BY <1>4 DEF AskReceipt, Said
  <2>2. IsBacked(a, blocks, txIndex, pendingTx')
    BY BackedPlain
  <2>3. h \notin ShownTxs(said[r])
    BY <1>2, <1>4 DEF IsBacked, IsIndexed
  <2>4. KeepsChain(said[r], a)
    BY <2>3 DEF KeepsChain
  <2> QED  BY <1>1, <2>1, <2>2, <2>4, OneReadGoes
<1> QED  BY <1>3, <1>4

\* Then the block that the transaction names.
LEMMA AnswerReceiptGoes ==
  ASSUME TypeOK, MemInv, IndexInv, SaidInv, backend = "mem", NEW r \in Readers,
         AnswerReceipt(r)
  PROVE  Goes(r)
<1> DEFINE tx == reader[r].tx
           a == [op |-> "receipt", key |-> tx.hash, num |-> 0, block |-> ByNumber(tx.num)]
<1>1. /\ IsFree /\ reader[r].op = "receipt" /\ reader'[r].op = "receipt_done"
      /\ asking' = asking /\ pendingTx' = pendingTx
      /\ said' = [said EXCEPT ![r] = a]
  BY DEF AnswerReceipt, ReadTxBlock, Said, TypeOK
<1>2. /\ IsBacked(said[r], blocks, txIndex, pendingTx) /\ asking[r] = None /\ said'[r] = a
      /\ tx.hash \in ShownTxs(said[r]) => tx.num >= Reached(said[r])
  BY <1>1 DEF SaidInv, Fits
<1>3. Carries(ByNumber(tx.num), tx)
  BY <1>1, ByNumberCarries DEF MemInv, ReadersHold
<1>4. PICK k \in 1 .. Len(blocks) : ByNumber(tx.num) = blocks[k]
  BY <1>3, Lookups DEF ByNumber, Carries
<1>5. blocks[k] # None /\ blocks[k].number = tx.num /\ tx.hash \in TxsOf(blocks[k])
  BY <1>3, <1>4 DEF Carries, TxsOf
<1>6. IsBacked(a, blocks, txIndex, pendingTx')
  BY <1>1, <1>4, <1>5, BackedBlock
<1>7. KeepsChain(said[r], a)
  BY <1>2, <1>4, <1>5 DEF KeepsChain, Reached
<1> QED  BY <1>1, <1>2, <1>6, <1>7, FitsIdle DEF Goes

\* A count of the latest block: its height first.
LEMMA AskCountGoes ==
  ASSUME TypeOK, MemInv, IndexInv, SaidInv, backend = "mem", NEW r \in Readers,
         AskCount(r)
  PROVE  Goes(r)
<1>1. /\ asking[r] = None /\ UNCHANGED rpcVars
      /\ reader'[r].op = "latest" /\ reader'[r].num = Tip.number
  BY DEF AskCount, CanAsk, ReadHeight, NoRead, TypeOK
<1>2. IsBacked(said[r], blocks, txIndex, pendingTx)
  BY DEF SaidInv
<1>3. Tip.number >= Reached(said[r])
  BY <1>2, BlockFacts DEF IsBacked
<1>4. Fits(said[r], None, reader'[r])
  BY <1>1, <1>3 DEF Fits
<1> QED  BY <1>1, <1>2, <1>4 DEF Goes, rpcVars

\* Then the block of that height.
LEMMA AnswerCountGoes ==
  ASSUME TypeOK, MemInv, IndexInv, SaidInv, backend = "mem", NEW r \in Readers,
         AnswerCount(r)
  PROVE  Goes(r)
<1> DEFINE n == reader[r].num
           a == [op |-> "head", key |-> None, num |-> 0, block |-> ByNumber(n)]
<1>1. /\ IsFree /\ reader[r].op = "latest" /\ reader'[r].op = "latest_done"
      /\ asking' = asking /\ pendingTx' = pendingTx
      /\ said' = [said EXCEPT ![r] = a]
  BY DEF AnswerCount, ReadHeightBlock, Said, TypeOK
<1>2. /\ IsBacked(said[r], blocks, txIndex, pendingTx) /\ asking[r] = None /\ said'[r] = a
      /\ n >= Reached(said[r])
  BY <1>1 DEF SaidInv, Fits
<1>3. PICK k \in 1 .. Len(blocks) : blocks[k].number = n
  BY <1>1 DEF MemInv, ReadersHold
<1>4. ByNumber(n) = blocks[k]
  BY <1>3 DEF ByNumber, MemInv, IndexesHold
<1>5. IsBacked(a, blocks, txIndex, pendingTx')
  BY <1>1, <1>4, BackedBlock
<1>6. KeepsChain(said[r], a)
  BY <1>2, <1>3, <1>4 DEF KeepsChain
<1> QED  BY <1>1, <1>2, <1>5, <1>6, FitsIdle DEF Goes

LEMMA HandlerGoes ==
  ASSUME TypeOK, MemInv, IndexInv, SaidInv, backend = "mem", NEW r \in Readers, Handler(r)
  PROVE  Goes(r)
<1>1. ASSUME NEW b \in Block, AskNumber(r, b.number) \/ AskHash(r, b.hash) PROVE Goes(r)
  <2>1. b.number \in Nat
    BY BlockAssumption DEF BlockType
  <2> QED  BY <1>1, <2>1, AskNumberGoes, AskHashGoes
<1>2. ASSUME NEW h \in TxHash, AskTx(r, h) \/ AskReceipt(r, h) PROVE Goes(r)
  BY <1>2, AskTxGoes, AskReceiptGoes
<1>3. ASSUME NEW h \in RawHash, SendRaw(r, h) PROVE Goes(r)
  BY <1>3, SendRawGoes
<1>4. ASSUME NEW addr \in Addr, AskBalance(r, addr) \/ AskNonce(r, addr) PROVE Goes(r)
  BY <1>4, AskAccountGoes
<1>5. CASE AskHead(r) \/ AskCount(r) \/ AnswerCount(r) \/ AnswerReceipt(r) \/ AskPending(r)
  BY <1>5, AskHeadGoes, AskCountGoes, AnswerCountGoes, AnswerReceiptGoes, AskPendingGoes
<1> QED  BY <1>1, <1>2, <1>3, <1>4, <1>5 DEF Handler

\* A handler changes neither the blocks nor the index, and nothing of other clients.
LEMMA HandlerFrame ==
  ASSUME NEW r \in Readers, Handler(r)
  PROVE  /\ UNCHANGED <<blocks, txIndex, backend>> /\ pendingTx \subseteq pendingTx'
         /\ DOMAIN said' = DOMAIN said /\ DOMAIN asking' = DOMAIN asking
         /\ \A q \in DOMAIN said \ {r} : said'[q] = said[q]
         /\ \A q \in DOMAIN asking \ {r} : asking'[q] = asking[q]
         /\ \A q \in DOMAIN reader \ {r} : reader'[q] = reader[q]
<1> DEFINE Frame == /\ UNCHANGED <<blocks, txIndex, backend>> /\ pendingTx \subseteq pendingTx'
                    /\ DOMAIN said' = DOMAIN said /\ DOMAIN asking' = DOMAIN asking
                    /\ \A q \in DOMAIN said \ {r} : said'[q] = said[q]
                    /\ \A q \in DOMAIN asking \ {r} : asking'[q] = asking[q]
                    /\ \A q \in DOMAIN reader \ {r} : reader'[q] = reader[q]
<1>1. ASSUME NEW b \in Block, AskNumber(r, b.number) \/ AskHash(r, b.hash) PROVE Frame
  BY <1>1 DEF AskNumber, AskHash, Said, vars, chainVars, diskVars
<1>2. ASSUME NEW h \in TxHash, AskTx(r, h) PROVE Frame
  BY <1>2 DEF AskTx, Said, vars, chainVars, diskVars
<1>3. ASSUME NEW h \in TxHash, AskReceipt(r, h) PROVE Frame
  BY <1>3 DEF AskReceipt, ReadTx, Said, vars, chainVars, diskVars
<1>4. ASSUME NEW h \in RawHash, SendRaw(r, h) PROVE Frame
  BY <1>4 DEF SendRaw, Said, vars, chainVars, diskVars
<1>5. ASSUME NEW addr \in Addr, AskBalance(r, addr) \/ AskNonce(r, addr) PROVE Frame
  BY <1>5 DEF AskBalance, AskNonce, Said, vars, chainVars, diskVars
<1>6. CASE AskHead(r) \/ AskPending(r)
  BY <1>6 DEF AskHead, AskPending, Said, vars, chainVars, diskVars
<1>7. CASE AskCount(r) \/ AnswerCount(r)
  BY <1>7 DEF AskCount, AnswerCount, ReadHeight, ReadHeightBlock, Said, chainVars, diskVars, rpcVars
<1>8. CASE AnswerReceipt(r)
  BY <1>8 DEF AnswerReceipt, ReadTxBlock, Said, chainVars, diskVars
<1> QED  BY <1>1, <1>2, <1>3, <1>4, <1>5, <1>6, <1>7, <1>8 DEF Handler

\* A client without any answer yet is owed nothing.
LEMMA FreshClients ==
  ASSUME NEW bs, Len(bs) \in Nat \ {0}, NEW index, NEW table, NEW read,
         read.op \notin {"receipt", "latest"}
  PROVE  IsBacked(NoAnswer, bs, index, table) /\ Fits(NoAnswer, None, read)
BY FitsIdle DEF IsBacked, NoAnswer, Reached, ShownTxs

LEMMA SaidInvInit == ServerInit => SaidInv
<1> SUFFICES ASSUME ServerInit PROVE SaidInv
  OBVIOUS
<1>1. Len(blocks) \in Nat \ {0} /\ \A r \in Readers : reader[r].op \notin {"receipt", "latest"}
  BY DEF ServerInit, Init, NoRead
<1> QED  BY <1>1, FreshClients DEF ServerInit, SaidInv

\* What is backed stays so while the chain grows and the table loses nothing.
LEMMA BackedGrows ==
  ASSUME TypeOK, MemInv, TypeOK', MemInv', backend = "mem", backend' = "mem", Grows,
         pendingTx \subseteq pendingTx', NEW a, IsBacked(a, blocks, txIndex, pendingTx)
  PROVE  IsBacked(a, blocks', txIndex', pendingTx')
<1>1. Len(blocks) \in Nat /\ Len(blocks') \in Nat
  BY DEF TypeOK
<1>2. \A h \in ShownTxs(a) : IsIndexed(txIndex', h, Reached(a))
  BY IndexedStays DEF IsBacked
<1>3. a.block # None => \E k \in 1 .. Len(blocks') : blocks'[k] = a.block
  BY <1>1 DEF IsBacked, Grows
<1>4. Reached(a) < Len(blocks')
  BY <1>1 DEF IsBacked, Grows
<1> QED  BY <1>2, <1>3, <1>4 DEF IsBacked

\* A step of the chain that is no restart leaves the clients and their handlers alone.
LEMMA ChainFrame ==
  ASSUME ChainStep, ~Restart
  PROVE  UNCHANGED rpcVars /\ reader' = reader
BY DEF ChainStep, CallStep, StartStep, InsertKnown, InsertRejected, InsertBegin, IndexTx,
       ApplyTx, InsertReturn, LoadNext, LoadBlock, SkipBlock, LoadFails, Serve

LEMMA SaidInvNext ==
  ASSUME TypeOK, MemInv, IndexInv, SaidInv, [ServerNext]_serverVars
  PROVE  SaidInv'
<1>1. [Next]_vars /\ backend' = backend /\ TypeOK' /\ MemInv'
  BY ServerStep, BackendStays, NextType, MemInvNext
<1>2. CASE UNCHANGED serverVars
  BY <1>2 DEF serverVars, rpcVars, vars, SaidInv
<1>3. CASE ChainStep /\ Restart
  <2>1. /\ said' = [r \in Readers |-> NoAnswer] /\ asking' = [r \in Readers |-> None]
        /\ reader' = [r \in Readers |-> NoRead] /\ Len(blocks') \in Nat \ {0}
    <3>1. restarts' # restarts /\ blocks' = <<Genesis>>
      BY <1>3, BoundsAssumption DEF Restart, TypeOK
    <3>2. reader' = [r \in Readers |-> NoRead]
      BY <1>3 DEF Restart
    <3>3. said' = [r \in Readers |-> NoAnswer] /\ asking' = [r \in Readers |-> None]
      BY <1>3, <3>1 DEF ChainStep, CallStep, StartStep, InsertKnown, InsertRejected, InsertBegin,
                        IndexTx, ApplyTx, InsertReturn, LoadNext, LoadBlock, SkipBlock, LoadFails, Serve
    <3> QED  BY <3>1, <3>2, <3>3
  <2>2. ASSUME NEW r \in Readers
        PROVE  /\ IsBacked(said'[r], blocks', txIndex', pendingTx')
               /\ Fits(said'[r], asking'[r], reader'[r])
    <3>1. said'[r] = NoAnswer /\ asking'[r] = None /\ reader'[r] = NoRead
      BY <2>1
    <3>2. NoRead.op \notin {"receipt", "latest"}
      BY DEF NoRead
    <3> QED  BY <2>1, <3>1, <3>2, FreshClients
  <2> QED  BY <2>1, <2>2 DEF SaidInv
<1>4. CASE ChainStep /\ ~Restart
  <2>1. UNCHANGED rpcVars /\ reader' = reader
    BY <1>4, ChainFrame
  <2>2. backend = "mem" => Grows
    BY <1>1, <1>4, GrowsNext
  <2> QED  BY <1>1, <2>1, <2>2, BackedGrows DEF SaidInv, rpcVars
<1>5. ASSUME NEW r \in Readers, Handler(r) PROVE SaidInv'
  <2>1. /\ UNCHANGED <<blocks, txIndex, backend>> /\ pendingTx \subseteq pendingTx'
        /\ DOMAIN said' = Readers /\ DOMAIN asking' = Readers
        /\ \A q \in Readers \ {r} : /\ said'[q] = said[q] /\ asking'[q] = asking[q]
                                    /\ reader'[q] = reader[q]
    <3>1. DOMAIN said = Readers /\ DOMAIN asking = Readers /\ DOMAIN reader = Readers
      BY DEF SaidInv, TypeOK
    <3> QED  BY <1>5, <3>1, HandlerFrame
  <2>2. backend = "mem" => Goes(r)
    BY <1>5, HandlerGoes
  <2>3. ASSUME backend = "mem", NEW q \in Readers \ {r}
        PROVE  /\ IsBacked(said'[q], blocks', txIndex', pendingTx')
               /\ Fits(said'[q], asking'[q], reader'[q])
    BY <2>1, <2>3 DEF SaidInv, IsBacked
  <2> QED  BY <2>1, <2>2, <2>3 DEF SaidInv, Goes
<1> QED  BY <1>2, <1>3, <1>4, <1>5 DEF ServerNext

LEMMA ServerSaidInv == ServerSpec => []SaidInv
BY ServerInvs, ServerIndexInv, SaidInvInit, SaidInvNext, PTL DEF ServerSpec

----------------------------------------------------------------------------
(***************************************************************************)
(* The accounts                                                            *)
(***************************************************************************)

\* done are the transactions of the chain that the ledger holds; the others are those
\* that the running call has still to apply.
IsDone(done) ==
  /\ done \in Seq(Tx)
  /\ TxsOfBlocks(blocks) = done \o call.todo
  /\ accounts = LedgerAfter(GenesisAccounts, done)

\* What is done when nothing is left to do.
LEMMA AllDone ==
  ASSUME TypeOK, call.todo = <<>>, NEW done, IsDone(done)
  PROVE  done = TxsOfBlocks(blocks)
<1>1. done \in Seq(Tx) /\ done \o <<>> = done
  BY DEF IsDone
<1> QED  BY <1>1 DEF IsDone

\* One transaction more.
LEMMA LedgerOfMore ==
  ASSUME NEW acc \in Accounts, NEW s \in Seq(Tx), NEW tx \in Tx
  PROVE  LedgerAfter(acc, Append(s, tx)) = Effect(LedgerAfter(acc, s), tx)
<1> DEFINE one == <<tx>>
<1>1. one \in Seq(Tx) /\ one # <<>> /\ Head(one) = tx /\ Tail(one) = <<>> /\ Append(s, tx) = s \o one
  OBVIOUS
<1> DEFINE before == LedgerAfter(acc, s)
<1>2. before \in Accounts
  BY LedgerTypes
<1> HIDE DEF one, before
<1>3. LedgerAfter(acc, s \o one) = LedgerAfter(before, one)
  BY <1>1, LedgerOfBoth DEF before
<1>4. LedgerAfter(before, one) = LedgerAfter(Effect(before, tx), <<>>)
  BY <1>1, <1>2, LedgerOfFirst
<1>5. LedgerAfter(Effect(before, tx), <<>>) = Effect(before, tx)
  BY <1>2, EffectType, LedgerOfNone
<1> QED  BY <1>1, <1>3, <1>4, <1>5 DEF before

\* The first transaction to do has been done.
LEMMA FirstDone ==
  ASSUME NEW done \in Seq(Tx), NEW todo \in Seq(Tx), todo # <<>>
  PROVE  /\ Head(todo) \in Tx /\ Append(done, Head(todo)) \in Seq(Tx)
         /\ done \o todo = Append(done, Head(todo)) \o Tail(todo)
         /\ Len(Append(done, Head(todo))) >= Len(done)
<1> DEFINE a == done \o todo
           more == Append(done, Head(todo))
           b == more \o Tail(todo)
           m == Len(done)
           n == Len(todo)
<1>1. Head(todo) \in Tx /\ Head(todo) = todo[1] /\ m \in Nat /\ n \in Nat /\ n >= 1
  OBVIOUS
<1>2. /\ Tail(todo) \in Seq(Tx) /\ Len(Tail(todo)) = n - 1
      /\ \A i \in 1 .. n - 1 : Tail(todo)[i] = todo[i + 1]
  OBVIOUS
<1>3. /\ more \in Seq(Tx) /\ Len(more) = m + 1 /\ more[m + 1] = todo[1]
      /\ \A i \in 1 .. m : more[i] = done[i]
  BY <1>1
<1>4. /\ a \in Seq(Tx) /\ Len(a) = m + n
      /\ \A i \in 1 .. m + n : a[i] = IF i <= m THEN done[i] ELSE todo[i - m]
  OBVIOUS
<1> DEFINE rest == Tail(todo)
<1> HIDE DEF more, rest
<1>5. /\ b \in Seq(Tx) /\ Len(b) = (m + 1) + (n - 1)
      /\ \A i \in 1 .. (m + 1) + (n - 1) : b[i] = IF i <= m + 1 THEN more[i] ELSE rest[i - (m + 1)]
  BY <1>2, <1>3 DEF rest
<1> HIDE DEF a, b, m, n
<1>6. Len(a) = Len(b) /\ Len(a) = m + n
  BY <1>1, <1>4, <1>5
<1>7. ASSUME NEW i \in 1 .. m + n PROVE a[i] = b[i]
  <2>1. i \in 1 .. (m + 1) + (n - 1)
    BY <1>1
  <2>2. CASE i <= m
    <3>1. b[i] = more[i] /\ more[i] = done[i] /\ a[i] = done[i]
      BY <1>1, <1>3, <1>4, <1>5, <2>1, <2>2
    <3> QED  BY <3>1
  <2>3. CASE i = m + 1
    <3>1. a[i] = todo[1] /\ b[i] = todo[1]
      BY <1>1, <1>3, <1>4, <1>5, <2>1, <2>3
    <3> QED  BY <3>1
  <2>4. CASE i > m + 1
    <3> DEFINE k == i - (m + 1)
    <3>1. k \in 1 .. n - 1 /\ k + 1 = i - m
      BY <1>1, <2>4
    <3>2. a[i] = todo[i - m]
      <4>1. ~(i <= m)
        BY <1>1, <2>4
      <4> QED  BY <1>4, <4>1
    <3>4. b[i] = rest[k]
      <4>1. ~(i <= m + 1)
        BY <1>1, <2>4
      <4> QED  BY <1>5, <2>1, <4>1
    <3>3. rest[k] = todo[k + 1]
      BY <1>2, <3>1 DEF rest
    <3> QED  BY <3>1, <3>2, <3>3, <3>4
  <2> QED  BY <1>1, <2>2, <2>3, <2>4
<1>8. a = b
  BY <1>4, <1>5, <1>6, <1>7
<1> QED  BY <1>1, <1>3, <1>8 DEF a, b, more, rest, m

\* What is done grows until the process stops.
LEMMA DoneGrows ==
  ASSUME TypeOK, LedgerInv, [Next]_vars, ~Restart, NEW done, IsDone(done)
  PROVE  \E more : IsDone(more)' /\ Len(more) >= Len(done)
<1>1. done \in Seq(Tx) /\ Len(done) >= Len(done)
  <2>1. done \in Seq(Tx)
    BY DEF IsDone
  <2>2. Len(done) \in Nat
    BY <2>1
  <2> QED  BY <2>1, <2>2
<1>2. ASSUME UNCHANGED <<blocks, accounts>>, call'.todo = call.todo
      PROVE  IsDone(done)'
  BY <1>2 DEF IsDone
<1>3. CASE Aside
  BY <1>1, <1>2, <1>3, AsideKeeps
<1>4. CASE InsertReturn \/ LoadNext \/ Serve
  <2>1. UNCHANGED <<blocks, accounts>> /\ call'.todo = call.todo
    BY <1>4 DEF InsertReturn, LoadNext, Serve, chainVars, diskVars, NoCall
  <2> QED  BY <1>1, <1>2, <2>1
<1>5. ASSUME IndexTx \/ ApplyTx, call'.todo = Tail(call.todo), UNCHANGED blocks,
             accounts' = Effect(accounts, Head(call.todo))
      PROVE  \E more : IsDone(more)' /\ Len(more) >= Len(done)
  <2> DEFINE todo == call.todo
  <2>1. todo \in Seq(Tx) /\ todo # <<>>
    BY <1>5, CallGoesOn
  <2> HIDE DEF todo
  <2>2. PICK more \in Seq(Tx) : more = Append(done, Head(todo))
    BY <1>1, <2>1, FirstDone
  <2>3. Head(todo) \in Tx /\ Len(more) >= Len(done) /\ done \o todo = more \o Tail(todo)
    BY <1>1, <2>1, <2>2, FirstDone
  <2>4. LedgerAfter(GenesisAccounts, more) = Effect(LedgerAfter(GenesisAccounts, done), Head(todo))
    BY <1>1, <2>2, <2>3, AccountsAssumption, LedgerOfMore
  <2>5. TxsOfBlocks(blocks') = more \o call'.todo
    BY <1>5, <2>3 DEF IsDone, todo
  <2>6. accounts' = LedgerAfter(GenesisAccounts, more)
    BY <1>5, <2>4 DEF IsDone, todo
  <2>7. IsDone(more)'
    BY <2>2, <2>5, <2>6 DEF IsDone
  <2> QED  BY <2>3, <2>7
<1>6. CASE IndexTx
  <2>1. call \in [block: Block, todo: Seq(Tx), stage: {"index", "account"}]
    BY <1>6, NoCallIsIdle DEF IndexTx
  <2>2. UNCHANGED <<blocks, accounts>>
    BY <1>6 DEF IndexTx, chainVars, diskVars
  <2>3. CASE Head(call.todo).value = 0
    <3>1. call'.todo = Tail(call.todo) /\ accounts' = Effect(accounts, Head(call.todo))
      BY <1>6, <2>1, <2>2, <2>3 DEF IndexTx, Effect
    <3> QED  BY <1>5, <1>6, <2>2, <3>1
  <2>4. CASE Head(call.todo).value # 0
    <3>1. call'.todo = call.todo
      BY <1>6, <2>1, <2>4 DEF IndexTx
    <3> QED  BY <1>1, <1>2, <2>2, <3>1
  <2> QED  BY <2>3, <2>4
<1>7. CASE ApplyTx
  <2>1. call \in [block: Block, todo: Seq(Tx), stage: {"index", "account"}]
    BY <1>7, NoCallIsIdle DEF ApplyTx
  <2>2. call'.todo = Tail(call.todo) /\ UNCHANGED blocks
    BY <1>7, <2>1 DEF ApplyTx, chainVars, diskVars
  <2>3. accounts' = Effect(accounts, Head(call.todo))
    BY <1>7 DEF ApplyTx, Effect, LedgerInv
  <2> QED  BY <1>5, <1>7, <2>2, <2>3
<1>8. ASSUME NEW b \in Block, IsFree, AddBlock(b), Begin(b), UNCHANGED accounts
      PROVE  IsDone(done)'
  <2>1. call.todo = <<>> /\ call'.todo = b.txs /\ blocks \in Seq(Block) /\ blocks' = Append(blocks, b)
    BY <1>8 DEF IsFree, NoCall, Begin, AddBlock, TypeOK
  <2>2. TxsOfBlocks(blocks') = TxsOfBlocks(blocks) \o b.txs
    BY <2>1, TxsOfMore
  <2>3. TxsOfBlocks(blocks) = done
    BY <2>1, AllDone
  <2> QED  BY <1>8, <2>1, <2>2, <2>3 DEF IsDone
<1>9. ASSUME NEW b \in Block, InsertBegin(b) \/ LoadBlock(b) PROVE IsDone(done)'
  <2>1. CASE InsertBegin(b)
    BY <1>8, <2>1 DEF InsertBegin
  <2>2. CASE LoadBlock(b) /\ IsKnown(b)
    BY <1>2, <2>2 DEF LoadBlock, chainVars, diskVars
  <2>3. CASE LoadBlock(b) /\ ~IsKnown(b)
    BY <1>8, <2>3 DEF LoadBlock
  <2> QED  BY <1>9, <2>1, <2>2, <2>3
<1>10. CASE PassOver
  BY <1>2, <1>10 DEF PassOver
<1> QED  BY <1>1, <1>3, <1>4, <1>6, <1>7, <1>9, <1>10, StepCases

\* The transactions of the first blocks are no more than those of all.
LEMMA FirstBlocks ==
  ASSUME NEW bs \in Seq(Block), NEW n \in 0 .. Len(bs)
  PROVE  Len(TxsOfBlocks(SubSeq(bs, 1, n))) <= Len(TxsOfBlocks(bs))
<1> DEFINE first(i) == SubSeq(bs, 1, i)
           count(i) == Len(TxsOfBlocks(first(i)))
           d == Len(bs) - n
           S == {i \in 0 .. d : count(n) <= count(n + i)}
<1>1. n \in Nat /\ Len(bs) \in Nat /\ d \in Nat
  OBVIOUS
<1>2. ASSUME NEW i \in 0 .. Len(bs) PROVE first(i) \in Seq(Block) /\ count(i) \in Nat
  <2>1. first(i) \in Seq(Block)
    OBVIOUS
  <2>2. TxsOfBlocks(first(i)) \in Seq(Tx)
    BY <2>1, TxsOfBlocksType
  <2> QED  BY <2>1, <2>2
<1>3. ASSUME NEW i \in 1 .. Len(bs) PROVE count(i - 1) <= count(i)
  <2>1. first(i - 1) \in Seq(Block) /\ bs[i] \in Block /\ bs[i].txs \in Seq(Tx)
    BY <1>1, <1>2, TxsType
  <2>2. first(i) = Append(first(i - 1), bs[i])
    BY <1>1
  <2> DEFINE before == first(i - 1)
  <2>3. TxsOfBlocks(Append(before, bs[i])) = TxsOfBlocks(before) \o bs[i].txs
    <3> HIDE DEF before
    <3> QED  BY <2>1, TxsOfMore DEF before
  <2>4. TxsOfBlocks(before) \in Seq(Tx)
    BY <2>1, TxsOfBlocksType
  <2> HIDE DEF before
  <2>5. Len(TxsOfBlocks(before) \o bs[i].txs) >= Len(TxsOfBlocks(before))
    BY <2>1, <2>4
  <2> QED  BY <2>2, <2>3, <2>5 DEF before
<1> HIDE DEF first, count, d
<1>4. 0 \in S
  BY <1>1, <1>2
<1>5. ASSUME NEW i \in 1 .. d, i - 1 \in S PROVE i \in S
  <2>1. /\ n + i \in 1 .. Len(bs) /\ (n + i) - 1 = n + (i - 1) /\ n + (i - 1) \in 0 .. Len(bs)
        /\ n + i \in 0 .. Len(bs) /\ i \in 0 .. d
    BY <1>1 DEF d
  <2>2. count(n) <= count(n + (i - 1)) /\ count(n + (i - 1)) <= count(n + i)
    BY <1>3, <1>5, <2>1
  <2>3. count(n) \in Nat /\ count(n + (i - 1)) \in Nat /\ count(n + i) \in Nat
    BY <1>2, <2>1
  <2>4. count(n) <= count(n + i)
    BY <2>2, <2>3
  <2> QED  BY <2>1, <2>4
<1>6. \A i \in 0 .. d : i \in S
  <2> HIDE DEF S
  <2> QED  BY <1>1, <1>4, <1>5, UpToInduction
<1>7. count(n) <= count(n + d) /\ n + d = Len(bs)
  BY <1>1, <1>6 DEF d
<1>8. first(Len(bs)) = bs
  BY DEF first
<1> QED  BY <1>7, <1>8 DEF count, first

SettledTxs(a) == Len(TxsOfBlocks(SubSeq(blocks, 1, Settled(a) + 1)))

\* What answer a shows as settled is done, and no account has a smaller nonce than it
\* shows.
IsHeld(a, done) ==
  /\ SettledTxs(a) <= Len(done)
  /\ a.op = "nonce" => a.key \in Addr /\ a.num <= accounts[a.key].nonce

AccountsInv ==
  \E done : /\ IsDone(done)
            /\ backend = "mem" => \A r \in Readers : IsHeld(said[r], done)

\* The block of an answer is one of the chain.
LEMMA SettledBelow ==
  ASSUME TypeOK, MemInv, backend = "mem", NEW a, NEW table, IsBacked(a, blocks, txIndex, table)
  PROVE  Settled(a) \in Nat /\ Settled(a) + 1 \in 1 .. Len(blocks)
<1>1. CASE a.block = None
  BY <1>1, BlockFacts DEF Settled
<1>2. CASE a.block # None
  <2>1. PICK k \in 1 .. Len(blocks) : blocks[k] = a.block
    BY <1>2 DEF IsBacked
  <2> QED  BY <1>2, <2>1, BlockFacts DEF Settled
<1> QED  BY <1>1, <1>2

\* A chain begins with the block of genesis, which has no transactions.
LEMMA FirstBlock ==
  ASSUME NEW bs \in Seq(Block), Len(bs) >= 1, bs[1] = Genesis
  PROVE  Len(TxsOfBlocks(SubSeq(bs, 1, 1))) = 0
<1> DEFINE one == SubSeq(bs, 1, 1)
<1>1. one \in Seq(Block) /\ Len(one) = 1 /\ one[1] = Genesis
  OBVIOUS
<1> HIDE DEF one
<1>2. one = <<Genesis>>
  BY <1>1
<1>3. Len(TxsOfBlocks(one)) = 0
  BY <1>2, TxsOfGenesis
<1> QED  BY <1>3 DEF one

\* A client with no answer yet.
Fresh == blocks = <<Genesis>> /\ accounts = GenesisAccounts /\ call = NoCall

LEMMA FreshHeld == Fresh => IsDone(<<>>) /\ IsHeld(NoAnswer, <<>>)
<1> SUFFICES ASSUME blocks = <<Genesis>>, accounts = GenesisAccounts, call = NoCall
             PROVE  IsDone(<<>>) /\ IsHeld(NoAnswer, <<>>)
  BY DEF Fresh
<1>1. <<>> \in Seq(Tx) /\ <<>> \o <<>> = <<>> /\ Len(<<>>) = 0
  OBVIOUS
<1>2. IsDone(<<>>)
  BY <1>1, TxsOfGenesis, LedgerOfNone, AccountsAssumption DEF IsDone, NoCall
<1>3. Settled(NoAnswer) = 0
  BY DEF Settled, NoAnswer
<1>4. blocks \in Seq(Block) /\ Len(blocks) >= 1 /\ blocks[1] = Genesis
  BY BlockAssumption
<1>5. SettledTxs(NoAnswer) = 0
  BY <1>3, <1>4, FirstBlock DEF SettledTxs
<1> QED  BY <1>1, <1>2, <1>5 DEF IsHeld, NoAnswer

LEMMA AccountsInvInit == ServerInit => AccountsInv
<1> SUFFICES ASSUME ServerInit PROVE AccountsInv
  OBVIOUS
<1>1. IsDone(<<>>) /\ IsHeld(NoAnswer, <<>>) /\ \A r \in Readers : said[r] = NoAnswer
  BY FreshHeld DEF ServerInit, Init, Fresh
<1> QED  BY <1>1 DEF AccountsInv

\* No transaction takes back a nonce.
LEMMA NoncesGrow ==
  ASSUME TypeOK, [Next]_vars, ~Restart, NEW a \in Addr
  PROVE  accounts'[a].nonce >= accounts[a].nonce
<1>1. accounts[a].nonce \in Nat /\ accounts \in Accounts
  BY DEF TypeOK, Accounts, Account
<1>2. CASE UNCHANGED accounts
  BY <1>1, <1>2
<1>3. CASE ApplyTx
  <2> DEFINE tx == Head(call.todo)
             debited == Debit(accounts, tx)
  <2>1. tx \in Tx /\ accounts' = Transfer(accounts, tx)
    BY <1>3, CallGoesOn DEF ApplyTx
  <2>2. CASE ~CanPay(accounts, tx)
    BY <1>1, <2>1, <2>2 DEF Transfer
  <2>3. CASE CanPay(accounts, tx)
    <3>1. debited[a].nonce \in {accounts[a].nonce, accounts[a].nonce + 1} /\ DOMAIN debited = Addr
      BY <1>1, <2>1 DEF Debit, Accounts
    <3>2. debited[a].nonce >= accounts[a].nonce
      BY <1>1, <3>1
    <3>3. \A c \in Addr : DOMAIN debited[c] = {"balance", "nonce"}
      BY <1>1, <2>1 DEF Debit, Accounts, Account
    <3> HIDE DEF debited, tx
    <3>4. Credit(debited, tx)[a].nonce = debited[a].nonce
      BY <3>1, <3>3 DEF Credit
    <3>5. accounts' = Credit(debited, tx)
      BY <2>1, <2>3 DEF Transfer, debited
    <3> QED  BY <3>2, <3>4, <3>5
  <2> QED  BY <2>2, <2>3
<1>4. CASE Aside
  BY <1>2, <1>4, AsideKeeps
<1>5. CASE IndexTx \/ InsertReturn \/ LoadNext \/ Serve
  BY <1>2, <1>5 DEF IndexTx, InsertReturn, LoadNext, Serve
<1>6. ASSUME NEW b \in Block, InsertBegin(b) \/ LoadBlock(b) PROVE accounts' = accounts
  BY <1>6 DEF InsertBegin, LoadBlock
<1>7. CASE PassOver
  BY <1>2, <1>7 DEF PassOver
<1> QED  BY <1>2, <1>3, <1>4, <1>5, <1>6, <1>7, StepCases

\* An answer that says what the accounts are, and names a block only if c.mu is free.
IsTrue(a) ==
  /\ a.block # None => IsFree
  /\ a.op \in {"balance", "nonce"} => a.key \in Addr
  /\ a.op = "balance" => a.num = accounts[a.key].balance
  /\ a.op = "nonce" => a.num = accounts[a.key].nonce

\* A handler changes neither the accounts nor the call, and answers what is true.
LEMMA HandlerIsTrue ==
  ASSUME DOMAIN said = Readers, NEW r \in Readers, Handler(r)
  PROVE  UNCHANGED <<accounts, call>> /\ (said'[r] = said[r] \/ IsTrue(said'[r]))
<1> DEFINE Done == UNCHANGED <<accounts, call>> /\ (said'[r] = said[r] \/ IsTrue(said'[r]))
<1> DEFINE plain(op, key, num, block) == [op |-> op, key |-> key, num |-> num, block |-> block]
<1>0. ASSUME NEW op, op \notin {"balance", "nonce"}, NEW key, NEW num, NEW block, block # None => IsFree,
             Said(r, op, key, num, block), UNCHANGED <<accounts, call>>
      PROVE  Done
  <2>1. said'[r] = plain(op, key, num, block)
    BY <1>0 DEF Said
  <2>2. IsTrue(plain(op, key, num, block))
    BY <1>0 DEF IsTrue
  <2> QED  BY <1>0, <2>1, <2>2
<1> HIDE DEF plain
<1>1. ASSUME NEW b \in Block, AskNumber(r, b.number) \/ AskHash(r, b.hash) PROVE Done
  <2>1. IsFree /\ UNCHANGED <<accounts, call>>
    BY <1>1 DEF AskNumber, AskHash, vars
  <2>2. CASE AskNumber(r, b.number)
    <3>1. \/ Said(r, "block", None, 0, ByNumber(b.number))
          \/ Said(r, "no number", None, b.number, None)
      BY <2>2 DEF AskNumber
    <3> QED  BY <1>0, <2>1, <3>1
  <2>3. CASE AskHash(r, b.hash)
    <3>1. \/ Said(r, "block", None, 0, byHash[b.hash])
          \/ Said(r, "no hash", b.hash, 0, None)
      BY <2>3 DEF AskHash
    <3> QED  BY <1>0, <2>1, <3>1
  <2> QED  BY <1>1, <2>2, <2>3
<1>2. ASSUME NEW h \in TxHash, AskTx(r, h) PROVE Done
  <2>1. UNCHANGED <<accounts, call>>
    BY <1>2 DEF AskTx, vars
  <2>2. said' = said \/ Said(r, "mined", h, txIndex[h].num, None)
    BY <1>2 DEF AskTx
  <2> QED  BY <1>0, <2>1, <2>2
<1>3. ASSUME NEW h \in TxHash, AskReceipt(r, h) PROVE Done
  <2>1. UNCHANGED <<accounts, call>>
    BY <1>3 DEF AskReceipt, ReadTx, vars
  <2>2. said' = said \/ Said(r, "no receipt", h, 0, None)
    BY <1>3 DEF AskReceipt
  <2> QED  BY <1>0, <2>1, <2>2
<1>4. ASSUME NEW h \in RawHash, SendRaw(r, h) PROVE Done
  BY <1>0, <1>4 DEF SendRaw, vars
<1>5. ASSUME NEW addr \in Addr, AskBalance(r, addr) PROVE Done
  BY <1>5 DEF AskBalance, Said, vars, IsTrue
<1>6. ASSUME NEW addr \in Addr, AskNonce(r, addr) PROVE Done
  BY <1>6 DEF AskNonce, Said, vars, IsTrue
<1>7. CASE AskHead(r)
  BY <1>0, <1>7 DEF AskHead, vars
<1>8. CASE AskPending(r)
  BY <1>0, <1>8 DEF AskPending, vars
<1>9. CASE AskCount(r)
  BY <1>9 DEF AskCount, ReadHeight, rpcVars
<1>10. CASE AnswerCount(r)
  BY <1>0, <1>10 DEF AnswerCount, ReadHeightBlock
<1>11. CASE AnswerReceipt(r)
  BY <1>0, <1>11 DEF AnswerReceipt, ReadTxBlock
<1> QED  BY <1>1, <1>2, <1>3, <1>4, <1>5, <1>6, <1>7, <1>8, <1>9, <1>10, <1>11 DEF Handler

\* What is done is counted: the first of the transactions of the chain.
LEMMA DoneIsFirst ==
  ASSUME TypeOK, NEW done, IsDone(done)
  PROVE  /\ Len(done) \in 0 .. Len(TxsOfBlocks(blocks))
         /\ SubSeq(TxsOfBlocks(blocks), 1, Len(done)) = done
<1> DEFINE todo == call.todo
           all == done \o todo
           first == SubSeq(all, 1, Len(done))
<1>1. done \in Seq(Tx) /\ todo \in Seq(Tx) /\ TxsOfBlocks(blocks) = all
  <2>1. call \in CallType
    BY DEF TypeOK
  <2>2. todo \in Seq(Tx)
    <3>1. CASE call = NoCall
      BY <3>1 DEF NoCall
    <3>2. CASE call # NoCall
      BY <2>1, <3>2 DEF CallType
    <3> QED  BY <3>1, <3>2
  <2> QED  BY <2>2 DEF IsDone
<1> HIDE DEF todo
<1>2. /\ Len(done) \in Nat /\ Len(todo) \in Nat /\ all \in Seq(Tx) /\ Len(all) = Len(done) + Len(todo)
      /\ \A i \in 1 .. Len(done) : all[i] = done[i]
  BY <1>1
<1> HIDE DEF all
<1>3. first \in Seq(Tx) /\ Len(first) = Len(done) /\ \A i \in 1 .. Len(done) : first[i] = all[i]
  BY <1>2
<1> HIDE DEF first
<1>4. first = done
  BY <1>1, <1>2, <1>3
<1> QED  BY <1>1, <1>2, <1>4 DEF first

\* A true answer is held, and its account is one that the client may be shown.
LEMMA TrueIsHeld ==
  ASSUME TypeOK, MemInv, backend = "mem", NEW done, IsDone(done),
         NEW a, NEW table, IsBacked(a, blocks, txIndex, table), IsTrue(a)
  PROVE  IsHeld(a, done)
<1>1. /\ Settled(a) + 1 \in 1 .. Len(blocks) /\ Len(blocks) \in Nat /\ blocks \in Seq(Block)
      /\ blocks[1] = Genesis /\ Len(done) \in Nat
  BY SettledBelow, DoneIsFirst DEF TypeOK, MemInv, IsChain
<1>2. CASE a.block = None
  <2>1. Settled(a) + 1 = 1
    BY <1>2 DEF Settled
  <2>2. SettledTxs(a) = 0
    BY <1>1, <2>1, FirstBlock DEF SettledTxs
  <2>3. SettledTxs(a) <= Len(done)
    BY <1>1, <2>2
  <2> QED  BY <2>3 DEF IsHeld, IsTrue, TypeOK, Accounts, Account
<1>3. CASE a.block # None
  <2>1. done = TxsOfBlocks(blocks)
    BY <1>3, AllDone DEF IsTrue, IsFree, NoCall
  <2> DEFINE n == Settled(a) + 1
  <2>2. n \in 0 .. Len(blocks)
    BY <1>1
  <2>3. Len(TxsOfBlocks(SubSeq(blocks, 1, n))) <= Len(TxsOfBlocks(blocks))
    <3> HIDE DEF n
    <3> QED  BY <1>1, <2>2, FirstBlocks
  <2>4. SettledTxs(a) <= Len(done)
    BY <2>1, <2>3 DEF SettledTxs
  <2> QED  BY <2>4 DEF IsHeld, IsTrue, TypeOK, Accounts, Account
<1> QED  BY <1>2, <1>3

\* The account of a true answer is one that the client may be shown after answer a.
LEMMA TrueKeepsAccounts ==
  ASSUME TypeOK, MemInv, backend = "mem", NEW done, IsDone(done),
         NEW a, NEW table, IsBacked(a, blocks, txIndex, table), IsHeld(a, done), NEW b, IsTrue(b)
  PROVE  KeepsAccounts(a, b)
<1> DEFINE all == Len(TxsOfBlocks(blocks))
           k == Len(done)
<1>1. k \in 0 .. all /\ SubSeq(TxsOfBlocks(blocks), 1, k) = done
  BY DoneIsFirst
<1>2. SettledTxs(a) \in Nat /\ all \in Nat
  <2> DEFINE shown == SubSeq(blocks, 1, Settled(a) + 1)
  <2>1. blocks \in Seq(Block) /\ Settled(a) + 1 \in 1 .. Len(blocks)
    BY SettledBelow DEF TypeOK
  <2>2. shown \in Seq(Block)
    BY <2>1
  <2>3. TxsOfBlocks(shown) \in Seq(Tx) /\ TxsOfBlocks(blocks) \in Seq(Tx)
    <3> HIDE DEF shown
    <3> QED  BY <2>1, <2>2, TxsOfBlocksType
  <2> QED  BY <2>3 DEF SettledTxs
<1>3. k \in SettledTxs(a) .. all
  <2>1. SettledTxs(a) <= k
    BY DEF IsHeld
  <2> HIDE DEF k, all
  <2> QED  BY <1>1, <1>2, <2>1
<1>4. ASSUME NEW addr \in Addr PROVE accounts[addr] \in AccountsSince(a, addr)
  <2>1. AccountAfter(k, addr) = accounts[addr]
    BY <1>1 DEF AccountAfter, IsDone
  <2> HIDE DEF k
  <2> QED  BY <1>3, <2>1 DEF AccountsSince, SettledTxs, all
<1>5. b.op = "nonce" /\ a.op = "nonce" /\ a.key = b.key => b.num >= a.num
  <2> SUFFICES ASSUME b.op = "nonce", a.op = "nonce", a.key = b.key PROVE b.num >= a.num
    OBVIOUS
  <2>1. a.num <= accounts[a.key].nonce /\ a.num \in Nat /\ a.key \in Addr
    BY DEF IsHeld, IsBacked
  <2>2. b.num = accounts[a.key].nonce /\ accounts[a.key].nonce \in Nat
    BY <2>1 DEF IsTrue, TypeOK, Accounts, Account
  <2> QED  BY <2>1, <2>2
<1>6. b.op \in {"balance", "nonce"} => accounts[b.key] \in AccountsSince(a, b.key)
  BY <1>4 DEF IsTrue
<1> QED  BY <1>5, <1>6 DEF KeepsAccounts, IsTrue

\* What is held stays so while the chain and the nonces grow.
LEMMA HeldGrows ==
  ASSUME TypeOK, TypeOK', MemInv, backend = "mem", Grows,
         \A addr \in Addr : accounts'[addr].nonce >= accounts[addr].nonce,
         NEW done, IsDone(done), NEW more, IsDone(more)', Len(more) >= Len(done),
         NEW a, NEW table, IsBacked(a, blocks, txIndex, table), IsHeld(a, done)
  PROVE  IsHeld(a, more)'
<1> DEFINE n == Settled(a) + 1
<1>1. n \in 1 .. Len(blocks) /\ blocks \in Seq(Block) /\ blocks' \in Seq(Block)
  BY SettledBelow DEF TypeOK
<1>2. SubSeq(blocks', 1, n) = SubSeq(blocks, 1, n)
  <2>1. n \in Nat /\ n <= Len(blocks) /\ n <= Len(blocks') /\ \A k \in 1 .. n : blocks'[k] = blocks[k]
    BY <1>1 DEF Grows
  <2> HIDE DEF n
  <2> DEFINE old == SubSeq(blocks, 1, n)
             new == SubSeq(blocks', 1, n)
  <2>2. old \in Seq(Block) /\ Len(old) = n /\ \A k \in 1 .. n : old[k] = blocks[k]
    BY <1>1, <2>1
  <2>3. new \in Seq(Block) /\ Len(new) = n /\ \A k \in 1 .. n : new[k] = blocks'[k]
    BY <1>1, <2>1
  <2> HIDE DEF old, new
  <2>4. old = new
    BY <2>1, <2>2, <2>3
  <2> QED  BY <2>4 DEF old, new
<1>3. SettledTxs(a)' = SettledTxs(a)
  BY <1>2 DEF SettledTxs, Settled
<1>4. SettledTxs(a) \in Nat /\ SettledTxs(a) <= Len(done)
  <2> DEFINE shown == SubSeq(blocks, 1, n)
  <2>1. shown \in Seq(Block)
    BY <1>1
  <2>2. TxsOfBlocks(shown) \in Seq(Tx)
    <3> HIDE DEF shown
    <3> QED  BY <2>1, TxsOfBlocksType
  <2> QED  BY <2>2 DEF SettledTxs, IsHeld
<1>5. done \in Seq(Tx) /\ more \in Seq(Tx)
  BY DEF IsDone
<1>6. SettledTxs(a)' <= Len(more)
  BY <1>3, <1>4, <1>5
<1>7. a.op = "nonce" => a.key \in Addr /\ a.num <= accounts'[a.key].nonce
  <2> SUFFICES ASSUME a.op = "nonce" PROVE a.key \in Addr /\ a.num <= accounts'[a.key].nonce
    OBVIOUS
  <2>1. a.key \in Addr /\ a.num \in Nat /\ a.num <= accounts[a.key].nonce
    BY DEF IsHeld, IsBacked
  <2>2. accounts[a.key].nonce \in Nat /\ accounts'[a.key].nonce \in Nat
    BY <2>1 DEF TypeOK, Accounts, Account
  <2> QED  BY <2>1, <2>2
<1> QED  BY <1>6, <1>7 DEF IsHeld

LEMMA AccountsInvNext ==
  ASSUME TypeOK, MemInv, IndexInv, SaidInv, LedgerInv, AccountsInv, [ServerNext]_serverVars
  PROVE  AccountsInv'
<1>1. [Next]_vars /\ backend' = backend /\ TypeOK'
  BY ServerStep, BackendStays, NextType
<1>2. PICK done : IsDone(done) /\ (backend = "mem" => \A r \in Readers : IsHeld(said[r], done))
  BY DEF AccountsInv
<1>3. CASE UNCHANGED serverVars
  BY <1>2, <1>3 DEF serverVars, rpcVars, vars, IsDone, IsHeld, SettledTxs, AccountsInv
<1>4. CASE ChainStep /\ Restart
  <2>1. /\ blocks' = <<Genesis>> /\ accounts' = GenesisAccounts /\ call' = NoCall
        /\ restarts' # restarts
    BY <1>4, BoundsAssumption DEF Restart, TypeOK
  <2>2. said' = [r \in Readers |-> NoAnswer]
    BY <1>4, <2>1 DEF ChainStep, CallStep, StartStep, InsertKnown, InsertRejected, InsertBegin,
                      IndexTx, ApplyTx, InsertReturn, LoadNext, LoadBlock, SkipBlock, LoadFails, Serve
  <2>3. Fresh'
    BY <2>1 DEF Fresh
  <2>4. (IsDone(<<>>) /\ IsHeld(NoAnswer, <<>>))'
    BY <2>3, FreshHeld, PTL
  <2>5. IsDone(<<>>)' /\ \A r \in Readers : IsHeld(said[r], <<>>)'
    BY <2>2, <2>4
  <2> QED  BY <2>5 DEF AccountsInv
<1>5. CASE ChainStep /\ ~Restart
  <2>1. said' = said
    BY <1>5, ChainFrame DEF rpcVars
  <2>2. PICK more : IsDone(more)' /\ Len(more) >= Len(done)
    BY <1>1, <1>2, <1>5, DoneGrows
  <2>3. \A addr \in Addr : accounts'[addr].nonce >= accounts[addr].nonce
    BY <1>1, <1>5, NoncesGrow
  <2>4. ASSUME backend = "mem", NEW r \in Readers PROVE IsHeld(said[r], more)'
    <3>1. Grows
      BY <1>1, <1>5, <2>4, GrowsNext
    <3>2. IsBacked(said[r], blocks, txIndex, pendingTx) /\ IsHeld(said[r], done)
      BY <1>2, <2>4 DEF SaidInv
    <3>3. PICK was : was = said[r]
      OBVIOUS
    <3>4. IsHeld(was, more)'
      BY <1>1, <1>2, <2>2, <2>3, <2>4, <3>1, <3>2, <3>3, HeldGrows
    <3>5. said'[r] = was
      BY <2>1, <3>3
    <3> QED  BY <3>4, <3>5
  <2> QED  BY <1>1, <2>2, <2>4 DEF AccountsInv
<1>6. ASSUME NEW r \in Readers, Handler(r) PROVE AccountsInv'
  <2>1. UNCHANGED <<accounts, call, blocks>> /\ (said'[r] = said[r] \/ IsTrue(said'[r]))
    BY <1>6, HandlerIsTrue, HandlerFrame DEF SaidInv
  <2>2. \A q \in Readers \ {r} : said'[q] = said[q]
    BY <1>6, HandlerFrame DEF SaidInv
  <2>3. ASSUME backend = "mem" PROVE IsHeld(said'[r], done)
    <3>1. IsBacked(said'[r], blocks, txIndex, pendingTx')
      BY <1>6, <2>3, HandlerGoes DEF Goes
    <3>2. CASE said'[r] = said[r]
      BY <1>2, <2>3, <3>2
    <3>3. CASE IsTrue(said'[r])
      BY <1>2, <2>3, <3>1, <3>3, TrueIsHeld
    <3> QED  BY <2>1, <3>2, <3>3
  <2>4. ASSUME backend = "mem", NEW q \in Readers PROVE IsHeld(said'[q], done)
    BY <1>2, <2>2, <2>3, <2>4
  <2>5. IsDone(done)'
    BY <1>2, <2>1 DEF IsDone
  <2>6. \A a : IsHeld(a, done) => IsHeld(a, done)'
    BY <2>1 DEF IsHeld, SettledTxs
  <2> QED  BY <1>1, <2>4, <2>5, <2>6 DEF AccountsInv
<1> QED  BY <1>3, <1>4, <1>5, <1>6 DEF ServerNext

LEMMA ServerAccountsInv == ServerSpec => [](LedgerInv /\ AccountsInv)
<1>1. ServerInit => LedgerInv /\ AccountsInv
  BY LedgerInvInit, AccountsInvInit DEF ServerInit
<1>2. TypeOK /\ MemInv /\ IndexInv /\ SaidInv /\ LedgerInv /\ AccountsInv /\ [ServerNext]_serverVars
        => LedgerInv' /\ AccountsInv'
  BY ServerStep, LedgerInvNext, AccountsInvNext
<1> QED  BY <1>1, <1>2, ServerInvs, ServerIndexInv, ServerSaidInv, PTL DEF ServerSpec

\* A client that asks one thing after the other never sees the server go back: neither
\* the chain nor, after a block or a receipt that it was shown, an account.
THEOREM SessionsCorrect == ServerSpec => SessionsGoForward
<1>1. ASSUME TypeOK, MemInv, IndexInv, SaidInv, AccountsInv, [ServerNext]_serverVars
      PROVE  [\A r \in Readers : IsAnswered(r) => /\ KeepsChain(said[r], said'[r])
                                                 /\ KeepsAccounts(said[r], said'[r])]_serverVars
  <2> SUFFICES ASSUME ServerNext, NEW r \in Readers, IsAnswered(r)
               PROVE  KeepsChain(said[r], said'[r]) /\ KeepsAccounts(said[r], said'[r])
    BY <1>1
  <2>1. backend = "mem" /\ said'[r] # said[r] /\ said'[r] # NoAnswer
    BY DEF IsAnswered
  <2>2. ~ChainStep
    BY <2>1, ChainFrame DEF ChainStep, rpcVars
  <2>3. PICK q \in Readers : Handler(q)
    BY <2>2 DEF ServerNext
  <2>4. r = q
    BY <1>1, <2>1, <2>3, HandlerFrame DEF SaidInv
  <2>5. KeepsChain(said[r], said'[r])
    BY <1>1, <2>1, <2>3, <2>4, HandlerGoes DEF Goes
  <2>6. PICK done : IsDone(done) /\ IsHeld(said[r], done)
    BY <1>1, <2>1 DEF AccountsInv
  <2>7. IsTrue(said'[r])
    BY <1>1, <2>1, <2>3, <2>4, HandlerIsTrue DEF SaidInv
  <2>8. IsBacked(said[r], blocks, txIndex, pendingTx)
    BY <1>1, <2>1 DEF SaidInv
  <2>9. KeepsAccounts(said[r], said'[r])
    BY <1>1, <2>1, <2>6, <2>7, <2>8, TrueKeepsAccounts
  <2> QED  BY <2>5, <2>9
<1> QED  BY <1>1, ServerInvs, ServerIndexInv, ServerSaidInv, ServerAccountsInv, PTL
         DEF ServerSpec, SessionsGoForward
=============================================================================

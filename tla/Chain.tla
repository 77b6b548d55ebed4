------------------------------- MODULE Chain --------------------------------
(***************************************************************************)
(* core.Chain (core/chain.go, core/db.go) at the grain of its locks.       *)
(*                                                                         *)
(* InsertBlock holds c.mu from its first check to its return; inside it,   *)
(* txMu and accountsMu are taken once per transaction, so a reader of the  *)
(* transaction index or of an account may run between any two of the       *)
(* steps below, while a reader of the blocks waits until c.mu is free.     *)
(* Any goroutine may call InsertBlock with any block: the callers are      *)
(* those of InsertBegin, InsertKnown and InsertRejected, and the one that  *)
(* got past the checks is the call.  Readers are RPC handlers that read    *)
(* the chain twice.                                                        *)
(*                                                                         *)
(* The process may stop between any two steps and start again: NewChain    *)
(* starts from genesis and loadFromDB replays what the storage kept.  The  *)
(* code's openDB opens a fresh MemStorage ("mem"), which never fails;      *)
(* "disk" is the backend that its comment says can be swapped in without   *)
(* touching Chain.  Its Put may fail, a block of it may not unmarshal and  *)
(* its iterator may end with an error: Chain tells nobody of the first     *)
(* two, and lets go of the storage at the third.                           *)
(***************************************************************************)
EXTENDS Ledger, FiniteSets

CONSTANTS Hash,             \* block hashes
          Block,            \* the blocks anyone may insert
          Genesis,          \* the block of GenesisBlock
          GenesisAccounts,  \* the accounts of the genesis allocation
          Readers,          \* the concurrent readers
          Backends,         \* the storage backends to consider
          None,             \* no block, no transaction, no answer
          MaxRestarts,      \* bound on the number of restarts
          MaxFaults         \* bound on the number of failures of the storage

BlockType == [hash: Hash, parent: Hash, number: Nat, txs: Seq(Tx)]

ASSUME BlockAssumption ==
  /\ Block \subseteq BlockType
  /\ Genesis \in Block /\ Genesis.number = 0 /\ Genesis.txs = <<>>
  /\ \A b, c \in Block : b.hash = c.hash => b = c
  /\ None \notin Block /\ None \notin Tx /\ None \notin {"ok", "ErrParentNotFound", "ErrInvalidBlock"}

\* The producer writes the number of the block into its transactions.
ASSUME ProducerAssumption ==
  \A b \in Block : \A i \in DOMAIN b.txs : b.txs[i].num = b.number

\* Any number of accounts, but a sum of balances needs that number to be finite.
\* The allocation of genesis gives nobody a negative balance.
ASSUME AccountsAssumption ==
  /\ IsFiniteSet(Addr)
  /\ GenesisAccounts \in Accounts
  /\ \A a \in Addr : GenesisAccounts[a].balance >= 0

ASSUME BoundsAssumption ==
  MaxRestarts \in Nat /\ MaxFaults \in Nat /\ Backends \subseteq {"mem", "disk"}

VARIABLES
  blocks,    \* c.blocks
  byHash,    \* c.byHash, a map
  byNumber,  \* c.byNumber, a map
  accounts,  \* c.accounts
  txIndex,   \* c.txIndex, a map
  db,        \* the blocks in the storage, under their hash
  backend,   \* which storage openDB opens
  opened,    \* c.db is not nil
  faults,    \* how often the storage has failed
  unsaved,   \* (history) the inserted blocks that are not stored because a Put failed
             \* or there was no storage any more
  unread,    \* (history) the stored blocks that this process's loadFromDB passed over
  call,      \* what holds c.mu: an InsertBlock, a block of loadFromDB, or nothing
  toLoad,    \* the blocks that loadFromDB's iterator still has to yield
  serving,   \* NewChain has returned
  answer,    \* what InsertBlock last returned for the block of this hash
  reader,    \* the state of every reader
  restarts

vars == <<blocks, byHash, byNumber, accounts, txIndex, db, backend, opened, faults,
          unsaved, unread, call, toLoad, serving, answer, reader, restarts>>

chainVars == <<blocks, byHash, byNumber>>
diskVars == <<db, backend, opened, faults, unsaved, unread>>

NoCall == [block |-> None, todo |-> <<>>, stage |-> "idle"]
NoRead == [op |-> "idle", tx |-> None, num |-> 0, block |-> None]

CallType ==
  {NoCall} \cup [block: Block, todo: Seq(Tx), stage: {"index", "account"}]

ReaderType ==
  [op: {"idle", "receipt", "receipt_done", "latest", "latest_done"},
   tx: Tx \cup {None}, num: Nat, block: Block \cup {None}]

----------------------------------------------------------------------------

Tip == blocks[Len(blocks)]

\* The map f after f[k] = v.
Put(f, k, v) == [x \in DOMAIN f \cup {k} |-> IF x = k THEN v ELSE f[x]]

Singleton(k, v) == [x \in {k} |-> v]

IsFree == call = NoCall

\* Mutant of AddBlock: the index by number is forgotten.
AddBlockUnnumbered(b) ==
  /\ blocks' = Append(blocks, b)
  /\ byHash' = Put(byHash, b.hash, b)
  /\ UNCHANGED byNumber

AddBlock(b) ==
  /\ blocks' = Append(blocks, b)
  /\ byHash' = Put(byHash, b.hash, b)
  /\ byNumber' = Put(byNumber, b.number, b)

Begin(b) == call' = [block |-> b, todo |-> b.txs, stage |-> "index"]

\* NewChain up to the opening of the storage.
Init ==
  /\ blocks = <<Genesis>>
  /\ byHash = Singleton(Genesis.hash, Genesis)
  /\ byNumber = Singleton(Genesis.number, Genesis)
  /\ accounts = GenesisAccounts
  /\ txIndex = <<>>
  /\ db = {}
  /\ backend \in Backends
  /\ opened = TRUE
  /\ faults = 0
  /\ unsaved = {}
  /\ unread = {}
  /\ call = NoCall
  /\ toLoad = {}
  /\ serving = TRUE
  /\ answer = [h \in Hash |-> None]
  /\ reader = [r \in Readers |-> NoRead]
  /\ restarts = 0

----------------------------------------------------------------------------
(***************************************************************************)
(* InsertBlock                                                             *)
(***************************************************************************)

\* Mutant of Refusal: the parent is not compared with the head.
RefusalByNumber(b) ==
  IF b.number # Tip.number + 1 THEN "ErrInvalidBlock" ELSE None

\* Why InsertBlock refuses a block it does not know yet; None if it does not.
Refusal(b) ==
  IF b.parent # Tip.hash THEN "ErrParentNotFound"
  ELSE IF b.number # Tip.number + 1 THEN "ErrInvalidBlock" ELSE None

IsKnown(b) == b.hash \in DOMAIN byHash

InsertKnown(b) ==
  /\ serving /\ IsFree
  /\ IsKnown(b)
  /\ answer' = [answer EXCEPT ![b.hash] = "ok"]
  /\ UNCHANGED <<chainVars, accounts, txIndex, diskVars, call, toLoad, serving,
                 reader, restarts>>

InsertRejected(b) ==
  /\ serving /\ IsFree
  /\ ~IsKnown(b)
  /\ Refusal(b) # None
  /\ answer' = [answer EXCEPT ![b.hash] = Refusal(b)]
  /\ UNCHANGED <<chainVars, accounts, txIndex, diskVars, call, toLoad, serving,
                 reader, restarts>>

InsertBegin(b) ==
  /\ serving /\ IsFree
  /\ ~IsKnown(b)
  /\ Refusal(b) = None
  /\ AddBlock(b)
  /\ Begin(b)
  /\ UNCHANGED <<accounts, txIndex, diskVars, toLoad, serving, answer, reader,
                 restarts>>

\* applyTx, first half: the transaction enters the index under txMu.  A
\* transaction of value zero ends here.
IndexTx ==
  /\ call.stage = "index" /\ call.todo # <<>>
  /\ LET tx == Head(call.todo) IN
       /\ txIndex' = Put(txIndex, tx.hash, tx)
       /\ call' = IF tx.value = 0 THEN [call EXCEPT !.todo = Tail(@)]
                                  ELSE [call EXCEPT !.stage = "account"]
  /\ UNCHANGED <<chainVars, accounts, diskVars, toLoad, serving, answer, reader,
                 restarts>>

\* Mutant of ApplyTx: a sender without funds leaves the transaction where it is.
ApplyTxIfPaid ==
  /\ call.stage = "account"
  /\ CanPay(accounts, Head(call.todo))
  /\ accounts' = Transfer(accounts, Head(call.todo))
  /\ call' = [call EXCEPT !.todo = Tail(@), !.stage = "index"]
  /\ UNCHANGED <<chainVars, txIndex, diskVars, toLoad, serving, answer, reader,
                 restarts>>

\* applyTx, second half: the ledger changes under accountsMu.
ApplyTx ==
  /\ call.stage = "account"
  /\ accounts' = Transfer(accounts, Head(call.todo))
  /\ call' = [call EXCEPT !.todo = Tail(@), !.stage = "index"]
  /\ UNCHANGED <<chainVars, txIndex, diskVars, toLoad, serving, answer, reader,
                 restarts>>

\* The storage fails once more.
Fault == backend = "disk" /\ faults < MaxFaults /\ faults' = faults + 1

\* Mutant of Persist: the block is not written.
PersistNothing == UNCHANGED <<db, faults, unsaved>>

\* persistBlock: the block goes into the storage under its hash, unless Marshal or Put
\* fails or there is no storage.  The caller is told the same.
Persist ==
  \/ /\ opened
     /\ db' = db \cup {call.block}
     /\ unsaved' = unsaved \ {call.block}
     /\ UNCHANGED faults
  \/ /\ IF opened THEN Fault ELSE UNCHANGED faults
     /\ unsaved' = unsaved \cup ({call.block} \ db)
     /\ UNCHANGED db

\* Mutant of InsertReturn: the lock goes while transactions are left to apply.
InsertReturnEarly ==
  /\ serving
  /\ call.stage = "index"
  /\ Persist
  /\ answer' = [answer EXCEPT ![call.block.hash] = "ok"]
  /\ call' = NoCall
  /\ UNCHANGED <<chainVars, accounts, txIndex, backend, opened, unread, toLoad,
                 serving, reader, restarts>>

\* All transactions are applied: the block is persisted and c.mu released.
InsertReturn ==
  /\ serving
  /\ call.stage = "index" /\ call.todo = <<>>
  /\ Persist
  /\ answer' = [answer EXCEPT ![call.block.hash] = "ok"]
  /\ call' = NoCall
  /\ UNCHANGED <<chainVars, accounts, txIndex, backend, opened, unread, toLoad,
                 serving, reader, restarts>>

----------------------------------------------------------------------------
(***************************************************************************)
(* Stop and restart: NewChain, openDB, loadFromDB                          *)
(***************************************************************************)

\* The process stops between any two steps, and a new one runs NewChain up to
\* the loop of loadFromDB.  Only a disk backend keeps its blocks, and what a
\* client was told survives with them.
Restart ==
  /\ restarts < MaxRestarts
  /\ restarts' = restarts + 1
  /\ blocks' = <<Genesis>>
  /\ byHash' = Singleton(Genesis.hash, Genesis)
  /\ byNumber' = Singleton(Genesis.number, Genesis)
  /\ accounts' = GenesisAccounts
  /\ txIndex' = <<>>
  /\ db' = IF backend = "disk" THEN db ELSE {}
  /\ toLoad' = db'
  /\ opened' = TRUE
  /\ unread' = {}
  /\ call' = NoCall
  /\ serving' = FALSE
  /\ answer' = IF backend = "disk" THEN answer ELSE [h \in Hash |-> None]
  /\ reader' = [r \in Readers |-> NoRead]
  /\ UNCHANGED <<backend, faults, unsaved>>

\* loadFromDB: the iterator yields the stored blocks in any order.  A block
\* with a known hash is passed over, nothing else is checked.
LoadBlock(b) ==
  /\ ~serving /\ IsFree
  /\ b \in toLoad
  /\ toLoad' = toLoad \ {b}
  /\ IF IsKnown(b) THEN UNCHANGED <<chainVars, call>> ELSE AddBlock(b) /\ Begin(b)
  /\ UNCHANGED <<accounts, txIndex, diskVars, serving, answer, reader, restarts>>

\* A stored block that does not unmarshal is passed over.
SkipBlock(b) ==
  /\ ~serving /\ IsFree
  /\ b \in toLoad
  /\ Fault
  /\ toLoad' = toLoad \ {b}
  /\ unread' = unread \cup {b}
  /\ UNCHANGED <<chainVars, accounts, txIndex, db, backend, opened, unsaved, call,
                 serving, answer, reader, restarts>>

\* The iterator ends with an error: NewChain closes the storage, keeps the blocks it
\* has, and serves without one.
LoadFails ==
  /\ ~serving /\ IsFree /\ opened
  /\ Fault
  /\ opened' = FALSE
  /\ toLoad' = {}
  /\ unread' = unread \cup toLoad
  /\ UNCHANGED <<chainVars, accounts, txIndex, db, backend, unsaved, call, serving,
                 answer, reader, restarts>>

\* The transactions of a block of the iterator are applied.
LoadNext ==
  /\ ~serving
  /\ call.stage = "index" /\ call.todo = <<>>
  /\ call' = NoCall
  /\ UNCHANGED <<chainVars, accounts, txIndex, diskVars, toLoad, serving, answer,
                 reader, restarts>>

\* Mutant of Serve: NewChain does not wait for the end of the iterator.
ServeEarly ==
  /\ ~serving /\ IsFree
  /\ serving' = TRUE
  /\ UNCHANGED <<chainVars, accounts, txIndex, diskVars, call, toLoad, answer,
                 reader, restarts>>

\* NewChain returns.
Serve ==
  /\ ~serving /\ IsFree /\ toLoad = {}
  /\ serving' = TRUE
  /\ UNCHANGED <<chainVars, accounts, txIndex, diskVars, call, toLoad, answer,
                 reader, restarts>>

----------------------------------------------------------------------------
(***************************************************************************)
(* Readers                                                                 *)
(***************************************************************************)

IsReading(r) == reader[r].op \in {"receipt", "latest"}

\* GetByNumber, under c.mu.
ByNumber(n) == IF n \in DOMAIN byNumber THEN byNumber[n] ELSE None

\* eth_getTransactionReceipt finds the transaction, under txMu alone.
ReadTx(r, h) ==
  /\ serving /\ ~IsReading(r)
  /\ h \in DOMAIN txIndex
  /\ reader' = [reader EXCEPT ![r] = [NoRead EXCEPT !.op = "receipt", !.tx = txIndex[h]]]
  /\ UNCHANGED <<chainVars, accounts, txIndex, diskVars, call, toLoad, serving,
                 answer, restarts>>

\* Then txReceiptRPC looks up the block that the transaction names.
ReadTxBlock(r) ==
  /\ IsFree
  /\ reader[r].op = "receipt"
  /\ reader' = [reader EXCEPT ![r].op = "receipt_done",
                              ![r].block = ByNumber(reader[r].tx.num)]
  /\ UNCHANGED <<chainVars, accounts, txIndex, diskVars, call, toLoad, serving,
                 answer, restarts>>

\* eth_getBlockTransactionCountByNumber("latest") reads the height, under c.mu.
ReadHeight(r) ==
  /\ serving /\ IsFree /\ ~IsReading(r)
  /\ reader' = [reader EXCEPT ![r] = [NoRead EXCEPT !.op = "latest", !.num = Tip.number]]
  /\ UNCHANGED <<chainVars, accounts, txIndex, diskVars, call, toLoad, serving,
                 answer, restarts>>

\* Then it looks up the block of that height, under c.mu again.
ReadHeightBlock(r) ==
  /\ IsFree
  /\ reader[r].op = "latest"
  /\ reader' = [reader EXCEPT ![r].op = "latest_done", ![r].block = ByNumber(reader[r].num)]
  /\ UNCHANGED <<chainVars, accounts, txIndex, diskVars, call, toLoad, serving,
                 answer, restarts>>

----------------------------------------------------------------------------

\* One step of whatever holds c.mu.
CallStep == IndexTx \/ ApplyTx \/ InsertReturn \/ LoadNext

StartStep == (\E b \in Block : LoadBlock(b) \/ SkipBlock(b)) \/ LoadFails \/ Serve

ReadStep(r) == ReadTxBlock(r) \/ ReadHeightBlock(r)

Next ==
  \/ \E b \in Block : InsertKnown(b) \/ InsertRejected(b) \/ InsertBegin(b)
  \/ CallStep
  \/ Restart
  \/ StartStep
  \/ \E r \in Readers : \/ \E h \in TxHash : ReadTx(r, h)
                        \/ ReadHeight(r)
                        \/ ReadStep(r)

\* A goroutine inside InsertBlock, NewChain or a handler runs on: the scheduler
\* passes over none that can take a step.  Nobody has to call or to crash.
Fairness ==
  /\ WF_vars(CallStep)
  /\ WF_vars(StartStep)
  /\ \A r \in Readers : WF_vars(ReadStep(r))

Spec == Init /\ [][Next]_vars /\ Fairness

----------------------------------------------------------------------------
(***************************************************************************)
(* Properties                                                              *)
(***************************************************************************)

MapType(f, K, V) == DOMAIN f \subseteq K /\ \A k \in DOMAIN f : f[k] \in V

\* Every variable holds what the Go types of Chain allow, and loading and serving
\* exclude each other.
TypeOK ==
  /\ blocks \in Seq(Block) /\ Len(blocks) >= 1
  /\ MapType(byHash, Hash, Block)
  /\ MapType(byNumber, Nat, Block)
  /\ accounts \in Accounts
  /\ MapType(txIndex, TxHash, Tx)
  /\ db \subseteq Block
  /\ backend \in Backends
  /\ opened \in BOOLEAN
  /\ faults \in 0 .. MaxFaults
  /\ unsaved \subseteq Block
  /\ unread \subseteq db
  /\ call \in CallType
  /\ toLoad \subseteq db
  /\ serving \in BOOLEAN
  /\ answer \in [Hash -> {None, "ok", "ErrParentNotFound", "ErrInvalidBlock"}]
  /\ reader \in [Readers -> ReaderType]
  /\ restarts \in 0 .. MaxRestarts
  /\ call.stage = "account" => call.todo # <<>>
  /\ serving => toLoad = {}
  /\ \A r \in Readers : reader[r].op = "receipt" => reader[r].tx # None

\* bs is one chain from genesis: consecutive numbers, each block the child of
\* the one before.
IsChain(bs) ==
  /\ bs[1] = Genesis
  /\ \A i \in 1 .. Len(bs) : bs[i].number = i - 1
  /\ \A i \in 1 .. Len(bs) - 1 : bs[i + 1].parent = bs[i].hash

\* byHash and byNumber hold the blocks of bs, each under its own hash and
\* number, and nothing else.
IndexesHold(bs) ==
  /\ \A i \in 1 .. Len(bs) :
       /\ bs[i].hash \in DOMAIN byHash /\ byHash[bs[i].hash] = bs[i]
       /\ bs[i].number \in DOMAIN byNumber /\ byNumber[bs[i].number] = bs[i]
  /\ \A h \in DOMAIN byHash : \E i \in 1 .. Len(bs) : bs[i].hash = h
  /\ \A n \in DOMAIN byNumber : \E i \in 1 .. Len(bs) : bs[i].number = n

\* With the backend the code opens, what GetByHash, GetByNumber, Head and
\* LatestBlocks answer from is one linked chain and two exact indexes of it,
\* in every state, the inside of an InsertBlock included.
OneChain == backend = "mem" => IsChain(blocks) /\ IndexesHold(blocks)

\* A block that carries the transaction under the transaction's own number.
Carries(b, tx) == b # None /\ b.number = tx.num /\ \E i \in DOMAIN b.txs : b.txs[i] = tx

\* A receipt read in two steps, with blocks inserted in between, names a block
\* that carries the transaction, and the block of a height read before is found:
\* the handlers' fallbacks (a zero block hash, a count of "0x0") are never taken.
ReadersFindBlocks ==
  backend = "mem" =>
    \A r \in Readers :
      /\ reader[r].op = "receipt_done" => Carries(reader[r].block, reader[r].tx)
      /\ reader[r].op = "latest_done" =>
           reader[r].block # None /\ reader[r].block.number = reader[r].num

\* Some block of the chain pays a a negative amount.
IsPaidNegative(a) ==
  \E i \in DOMAIN blocks : \E j \in DOMAIN blocks[i].txs :
    blocks[i].txs[j].to = a /\ blocks[i].txs[j].value < 0

\* Nobody spends what he does not have: a balance is below zero only where a block
\* pays that account a negative amount, which applyTx, testing for zero alone, allows.
NobodyOverspends == \A a \in Addr : accounts[a].balance < 0 => IsPaidNegative(a)

\* tx credits more than it debits: its fee is negative (a negative gas price, or a
\* gasUsed in the upper half of the words), or it takes a negative amount to nobody.
Mints(tx) == Fee(tx) < 0 \/ (tx.to = NoAddr /\ tx.value < 0)

\* Otherwise value only ever leaves the ledger, as fees and through the empty
\* recipient: the sum of the balances grows only when such a transaction is applied,
\* or a restart begins anew.
OnlyMintsGrowSupply ==
  [][restarts' = restarts /\ Supply(accounts') > Supply(accounts)
       => call.stage = "account" /\ Mints(Head(call.todo))]_vars

\* A block whose insertion was answered with nil is served by every process after
\* that, unless the storage died with the process that answered, a Put failed on the
\* block, or this process's loadFromDB could not read it.
AckedBlockIsServed ==
  serving => \A h \in Hash : answer[h] = "ok" =>
               h \in DOMAIN byHash \/ \E b \in unsaved \cup unread : b.hash = h

\* Whoever holds c.mu lets go of it, and a reader that waits for it gets its turn.
CallsReturn ==
  /\ ~IsFree ~> IsFree
  /\ \A r \in Readers : IsReading(r) ~> ~IsReading(r)

----------------------------------------------------------------------------
(***************************************************************************)
(* The refinement of ChainSpec                                             *)
(***************************************************************************)

\* The blocks that a reader of the blocks can see: during an InsertBlock, all
\* but the last.
Committed ==
  IF ~serving THEN <<>>
  ELSE IF IsFree THEN blocks ELSE SubSeq(blocks, 1, Len(blocks) - 1)

TxsOfBlocks(bs) ==
  LET upTo[i \in 0 .. Len(bs)] == IF i = 0 THEN <<>> ELSE upTo[i - 1] \o bs[i].txs
  IN  upTo[Len(bs)]

\* The accounts when no block is being applied, and otherwise those of the
\* committed blocks.
CommittedLedger ==
  IF serving /\ IsFree THEN accounts
  ELSE LedgerAfter(GenesisAccounts, TxsOfBlocks(Committed))

Abstract == INSTANCE ChainSpec WITH
              chain <- Committed, ledger <- CommittedLedger, stored <- db,
              faulty <- faults > 0

\* The lock-by-lock insertion has the effect of one atomic step per block.
Implements == Abstract!Spec
=============================================================================

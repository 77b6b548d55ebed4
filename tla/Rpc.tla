--------------------------------- MODULE Rpc ----------------------------------
(***************************************************************************)
(* The JSON-RPC and REST handlers of rpc.Server over core.Chain, seen by   *)
(* clients that ask one thing after the other: the calls of a batch, which *)
(* handleJSONRPC dispatches in turn, or a client that waits for each       *)
(* answer.                                                                 *)
(*                                                                         *)
(* A handler takes the locks it needs one at a time and holds none of them *)
(* between two, so blocks may be inserted between its reads.  Lookups of   *)
(* blocks wait for c.mu; those of transactions and accounts do not, and    *)
(* see an InsertBlock half done.  Chain's readers are the two handlers     *)
(* that read the chain twice; here their answers reach the client.         *)
(***************************************************************************)
EXTENDS Chain

CONSTANT RawHash   \* what hashRawTx returns for the transactions that are sent

ASSUME RawHashAssumption == RawHash \subseteq TxHash

VARIABLES
  pendingTx,  \* Server.pendingTx: the hashes of what eth_sendRawTransaction took
  asking,     \* the hash that eth_getTransactionByHash did not find in the chain
  said        \* the last answer each client got from this process

rpcVars == <<pendingTx, asking, said>>

serverVars == <<vars, rpcVars>>

\* An answer: what it is about (key, num) and the block it was made from.
NoAnswer == [op |-> "none", key |-> None, num |-> 0, block |-> None]

Said(r, op, key, num, block) ==
  said' = [said EXCEPT ![r] = [op |-> op, key |-> key, num |-> num, block |-> block]]

ServerInit ==
  /\ Init
  /\ pendingTx = {}
  /\ asking = [r \in Readers |-> None]
  /\ said = [r \in Readers |-> NoAnswer]

\* The client has its last answer and asks again.
CanAsk(r) == serving /\ ~IsReading(r) /\ asking[r] = None

----------------------------------------------------------------------------
(***************************************************************************)
(* Handlers that take c.mu once                                            *)
(***************************************************************************)

\* The head, alone or in front of the list of the latest blocks: /health, /api/status
\* and /api/blocks; eth_blockNumber, eth_getBlockByNumber("latest") and /metrics too.
AskHead(r) ==
  /\ CanAsk(r) /\ IsFree
  /\ Said(r, "head", None, 0, Tip)
  /\ UNCHANGED <<vars, pendingTx, asking>>

\* Mutant of AskNumber: the map is read without c.mu.
AskNumberUnlocked(r, n) ==
  /\ CanAsk(r)
  /\ IF ByNumber(n) # None THEN Said(r, "block", None, 0, ByNumber(n))
                           ELSE Said(r, "no number", None, n, None)
  /\ UNCHANGED <<vars, pendingTx, asking>>

\* A block by its number, which may not be there.
AskNumber(r, n) ==
  /\ CanAsk(r) /\ IsFree
  /\ IF ByNumber(n) # None THEN Said(r, "block", None, 0, ByNumber(n))
                           ELSE Said(r, "no number", None, n, None)
  /\ UNCHANGED <<vars, pendingTx, asking>>

\* A block by its hash.
AskHash(r, h) ==
  /\ CanAsk(r) /\ IsFree
  /\ IF h \in DOMAIN byHash THEN Said(r, "block", None, 0, byHash[h])
                            ELSE Said(r, "no hash", h, 0, None)
  /\ UNCHANGED <<vars, pendingTx, asking>>

----------------------------------------------------------------------------
(***************************************************************************)
(* Transactions: txMu, and then pendingTxMu or c.mu                        *)
(***************************************************************************)

\* eth_sendRawTransaction: the table takes the hash, and nothing ever leaves it.
SendRaw(r, h) ==
  /\ CanAsk(r)
  /\ pendingTx' = pendingTx \cup {h}
  /\ Said(r, "sent", h, 0, None)
  /\ UNCHANGED <<vars, asking>>

\* eth_getTransactionByHash: the chain's index first, even in the middle of an
\* insertion.  (num is the record's block number, which the answer does not show.)
AskTx(r, h) ==
  /\ CanAsk(r)
  /\ IF h \in DOMAIN txIndex
     THEN Said(r, "mined", h, txIndex[h].num, None) /\ UNCHANGED asking
     ELSE asking' = [asking EXCEPT ![r] = h] /\ UNCHANGED said
  /\ UNCHANGED <<vars, pendingTx>>

\* Then the table.
AskPending(r) ==
  /\ asking[r] # None
  /\ Said(r, IF asking[r] \in pendingTx THEN "pending" ELSE "no tx", asking[r], 0, None)
  /\ asking' = [asking EXCEPT ![r] = None]
  /\ UNCHANGED <<vars, pendingTx>>

\* eth_getTransactionReceipt: a transaction the index does not hold has no receipt;
\* the answer then has no result at all.
AskReceipt(r, h) ==
  /\ CanAsk(r)
  /\ IF h \in DOMAIN txIndex
     THEN ReadTx(r, h) /\ UNCHANGED said
     ELSE Said(r, "no receipt", h, 0, None) /\ UNCHANGED vars
  /\ UNCHANGED <<pendingTx, asking>>

AnswerReceipt(r) ==
  /\ ReadTxBlock(r)
  /\ Said(r, "receipt", reader[r].tx.hash, 0, ByNumber(reader[r].tx.num))
  /\ UNCHANGED <<pendingTx, asking>>

\* eth_getBlockTransactionCountByNumber("latest"): the height, and then its block.
AskCount(r) ==
  /\ CanAsk(r)
  /\ ReadHeight(r)
  /\ UNCHANGED rpcVars

AnswerCount(r) ==
  /\ ReadHeightBlock(r)
  /\ Said(r, "head", None, 0, ByNumber(reader[r].num))
  /\ UNCHANGED <<pendingTx, asking>>

----------------------------------------------------------------------------
(***************************************************************************)
(* Accounts: accountsMu, and not c.mu                                      *)
(***************************************************************************)

\* eth_getBalance; /api/accounts reads the nonce next, as a question of its own.
AskBalance(r, a) ==
  /\ CanAsk(r)
  /\ Said(r, "balance", a, accounts[a].balance, None)
  /\ UNCHANGED <<vars, pendingTx, asking>>

\* eth_getTransactionCount.
AskNonce(r, a) ==
  /\ CanAsk(r)
  /\ Said(r, "nonce", a, accounts[a].nonce, None)
  /\ UNCHANGED <<vars, pendingTx, asking>>

----------------------------------------------------------------------------

Handler(r) ==
  \/ AskHead(r) \/ AskCount(r) \/ AnswerCount(r) \/ AnswerReceipt(r) \/ AskPending(r)
  \/ \E b \in Block : AskNumber(r, b.number) \/ AskHash(r, b.hash)
  \/ \E h \in TxHash : AskTx(r, h) \/ AskReceipt(r, h)
  \/ \E h \in RawHash : SendRaw(r, h)
  \/ \E a \in Addr : AskBalance(r, a) \/ AskNonce(r, a)

\* The chain's own steps.  A restart ends every connection and empties the table.
ChainStep ==
  \/ /\ \/ \E b \in Block : InsertKnown(b) \/ InsertRejected(b) \/ InsertBegin(b)
        \/ CallStep
        \/ StartStep
     /\ UNCHANGED rpcVars
  \/ /\ Restart
     /\ pendingTx' = {}
     /\ asking' = [r \in Readers |-> None]
     /\ said' = [r \in Readers |-> NoAnswer]

ServerNext == ChainStep \/ \E r \in Readers : Handler(r)

ServerSpec == ServerInit /\ [][ServerNext]_serverVars /\ Fairness

----------------------------------------------------------------------------
(***************************************************************************)
(* Properties                                                              *)
(***************************************************************************)

\* The height that the chain had reached when answer a was made.
Reached(a) == IF a.op = "mined" THEN a.num ELSE IF a.block # None THEN a.block.number ELSE 0

\* The height whose transactions have all been applied by then: a transaction is in
\* the index before it is, but a block can be read only after that.
Settled(a) == IF a.block # None THEN a.block.number ELSE 0

TxsOf(b) == {b.txs[i].hash : i \in DOMAIN b.txs}

\* The transactions that answer a shows to be in the chain.
ShownTxs(a) ==
  (IF a.op \in {"mined", "receipt"} THEN {a.key} ELSE {})
    \cup (IF a.block # None THEN TxsOf(a.block) ELSE {})

\* Answer b, given now, does not take back what answer a showed of the chain.
KeepsChain(a, b) ==
  /\ b.op = "head" => b.block.number >= Reached(a)
  /\ b.op = "no number" => b.num > Reached(a)
  /\ b.op = "no hash" => a.block = None \/ a.block.hash # b.key
  /\ b.op = "block" /\ a.block # None /\ a.block.number = b.block.number => a.block = b.block
  /\ b.op \in {"no tx", "pending", "no receipt"} => b.key \notin ShownTxs(a)
  /\ b.op = "no tx" => a.op \notin {"sent", "pending"} \/ a.key # b.key
  /\ b.op = "receipt" => b.key \in TxsOf(b.block)
  /\ b.op \in {"mined", "receipt"} /\ b.key \in ShownTxs(a) => Reached(b) >= Reached(a)

\* The account of addr after the first k transactions of the chain.
AccountAfter(k, addr) == LedgerAfter(GenesisAccounts, SubSeq(TxsOfBlocks(blocks), 1, k))[addr]

\* The accounts of addr that a client may still be shown after answer a: those with
\* every transaction applied that a has shown as settled.
AccountsSince(a, addr) ==
  LET settled == Len(TxsOfBlocks(SubSeq(blocks, 1, Settled(a) + 1)))
  IN  {AccountAfter(k, addr) : k \in settled .. Len(TxsOfBlocks(blocks))}

\* Answer b shows an account no older than what answer a showed.
KeepsAccounts(a, b) ==
  /\ b.op = "nonce" /\ a.op = "nonce" /\ a.key = b.key => b.num >= a.num
  /\ b.op = "balance" => \E acc \in AccountsSince(a, b.key) : acc.balance = b.num
  /\ b.op = "nonce" => \E acc \in AccountsSince(a, b.key) : acc.nonce = b.num

\* Client r has been given another answer, by a server over the backend the code opens.
IsAnswered(r) == backend = "mem" /\ said'[r] # said[r] /\ said'[r] # NoAnswer

\* A client that asks one thing after the other never sees the chain go back, though
\* no handler holds a lock across two of its reads and some see an InsertBlock half
\* done: heights do not fall, a block or a transaction once shown is found again, a
\* receipt of a replayed transaction only moves to a later block, what was sent is
\* pending or mined, and an account asked for after a block or a receipt has all the
\* payments of that block.
SessionsGoForward ==
  [][\A r \in Readers : IsAnswered(r) => /\ KeepsChain(said[r], said'[r])
                                        /\ KeepsAccounts(said[r], said'[r])]_serverVars
=============================================================================

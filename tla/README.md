# A TLA+ model of the GYDS RPC node

The repository is a Go node for a small proof-of-stake chain: one process that
produces blocks on a timer, keeps them in memory behind a storage interface,
serves Ethereum-style JSON-RPC and a WebSocket stream, and talks to peers over
TCP.  Beside it stand packages that the process does not call yet (a
transaction pool, a token program, a staking program, a contract virtual
machine) and two Solidity contracts.  This directory models the parts with
state that is hard to get right, checks them with TLC on small instances, and
proves with TLAPS, for every instance, every safety property that the passing runs check:
of the chain with its refinement, its RPC handlers, the transaction pool, the WebSocket
hub, a connection between peers, the token and staking programs, the contract machine
and the staking contract.

Paths below are relative to the repository (`src/` in `PROJECT.json`).

## 1. Inventory

| part | code | state | operations | hard about it |
|---|---|---|---|---|
| chain | `core/chain.go`, `core/db.go` | blocks, two block indexes, accounts, transaction index, stored blocks | `InsertBlock` (checks, `addBlock`, `applyTx` per transaction, `persistBlock`), `NewChain`/`loadFromDB`, lookups | three locks, two of them taken and let go once per transaction while the first is held; readers that read twice; a stop between any two steps; errors of the storage that are dropped; amounts of either sign |
| data of the chain | `core/block.go`, `core/transaction.go`, `core/genesis.go` | none | hashing, signing, encoding, genesis | none once hashes are names |
| engine | `consensus/pos.go` | three validators of genesis, `quit`, ticker | `loop`, `produceBlock`, `OnNewBlock`, `Stop` | its call of `BroadcastWS` runs inside the producer |
| process | `main.go` | two goroutines and a `select` | start, signal, error, shutdown order | a signal races the start of the server |
| WebSocket hub | `rpc/server.go` | `subs`, `wsActive`, a channel per client | `handleWS`, `BroadcastWS`, `Shutdown` | clients that come, stall and go in the middle of a broadcast |
| RPC handlers | `rpc/server.go` | `pendingTx` | some forty methods, most of them one read | reads under three locks that no handler holds together; a client that compares one answer with the next |
| peers | `p2p/peer.go` | peer table; per peer a connection, `sendCh`, `quit` | `readLoop`, `writeLoop`, `pingLoop`, `Send`, `Close`, `handleMessage`, `Broadcast` | three goroutines per peer and two nodes that may wait for each other; a cut at any moment; two closers of one channel |
| storage | `storage/storage.go` | a map | `Get`, `Put`, `Has`, iterator | errors in the middle of a call that writes twice, and of reads that the caller takes for "not there" |
| pool | `mempool/mempool.go` | a heap of entries that know their position, two maps | `Add`, `Remove`, `Pending`, `evict`, `expireLoop` | a copied heap of shared pointers; nonces read one by one while the chain moves on |
| tokens | `gpl/token/token.go` | token and account records, event channel | eight calls that write | two Puts per call, one record read twice, events dropped when full |
| staking | `gpl/staking/staking.go` | validators, delegations, slash records | eight calls that write | totals kept apart from what they total; jail; a claim made again |
| contract VM | `gpl/vm/vm.go` | machine of a call; code and storage of a contract | `Execute` and forty instructions | unbounded integers meeting fixed words; jumps; gas as the only limit; failures that undo nothing |
| staking contract | `developer-tools/hardhat/contracts/GYDSStaking.sol` | validators, their list, totals, the balance | register, unstake, reward, claim, slash | validators that leave, are slashed out and return; what reverts |
| the rest | SDK, faucet, configuration, metrics, pages, scripts | - | - | not modelled (section 8) |

How they interact: the engine reads the head, calls `InsertBlock`, and then its
`OnNewBlock` function, which is `BroadcastWS`; RPC handlers read the chain from
goroutines of their own; `main` stops the engine and then the server.  `main` also
starts a `p2p.Server` and connects it to its bootstrap peers, with `Chain.Height` for the
greeting, but hands it no blocks: `Broadcast` and `OnMessage` are called by nobody in this
commit, and neither are the pool and the three `gpl` packages.  These are modelled on
their own, against any caller.

What makes each of them correct, in words:

* chain: the blocks are one chain from genesis, the indexes agree with it, a
  block answered with nil is not forgotten unless the storage failed, nobody spends what
  he does not have and nothing is minted but by the negative values and fees that the
  code accepts, and a block takes effect as if at once;
* RPC handlers: a client that asks one thing after the other never sees the chain
  go back: heights, blocks, transactions, receipts and accounts;
* process: a client's stream has every block in order but for those that did not
  fit, and clients cannot hold up the producer;
* peers: what arrives is what was broadcast, in order and once; the two ends do
  not wait for each other; when the connection is down the loops end;
* pool: bounds, agreement of heap and maps, and `Pending` returns the best;
* tokens and staking: totals account for what they total, rewards are paid
  once, a jailed validator is credited none, and slash records are kept;
* staking contract: totals and balance agree, and nobody's stake or reward pays for
  another;
* VM: gas bounds what a call takes and how long it runs, data never runs as code,
  storage gives back what was put in.

## 2. Modules

| module | models | state in the model and in the code |
|---|---|---|
| `Ledger` | `applyTx`'s effect on accounts | a function from addresses to `[balance, nonce]` |
| `ChainSpec` | abstract: what `core.Chain` promises | committed blocks, ledger, stored blocks |
| `Chain` | `core.Chain`, lock by lock, with crashes | `blocks`, `byHash`, `byNumber`, `accounts`, `txIndex` as named in the code; `call` is the holder of `c.mu`, `reader` a handler between two reads, `toLoad` the iterator of `loadFromDB`, `opened` says that `c.db` is not nil, `faults` counts failures of the storage |
| `ChainProofs` | theorems about `Chain` and `Rpc` | |
| `Rpc` | the JSON-RPC and REST handlers over `Chain`, and their clients | extends `Chain`; `pendingTx` as in the code; `asking` is `eth_getTransactionByHash` between the index and the table; `said` is the last answer a client got |
| `Node` | `runNode`, the engine, the WebSocket hub | `main`, `engine`, `handler` are places in the code; `height` stands for the chain; `subs`, `wsActive`, `ch`, `quit`, `http` as in the code |
| `NodeProofs` | theorems about `Node` | |
| `Lemmas` | induction, recursive functions, recursion along a measure, finite sums, increasing sequences | |
| `P2P` | both ends of one connection | `sendCh`, `quit`, the places of `readLoop` and `writeLoop`; `wire` is the kernel's buffers |
| `P2PProofs` | theorems about `P2P` | |
| `TxHeap` | `txHeap` and `container/heap`'s sifts | the array and every entry's `heapIndex` |
| `Mempool` | the pool | `heap` (`pending`), `index`, `bySender`; `call` is what each goroutine inside `Pending` has: its copy of the heap and its result so far |
| `MempoolProofs` | theorems about `Mempool` and the sifts of `TxHeap` | |
| `Store` | the storage as `gpl` uses it | a partial map; `PutBoth` is two Puts that succeed |
| `TokenProgram` | `gpl/token` | `store`, `eventCh`; `faults` counts the calls that met a failure |
| `TokenProofs` | theorems about `TokenProgram` | |
| `Staking` | `gpl/staking` | `store`; `faults` likewise |
| `StakingProofs` | theorems about `Staking` | |
| `VM` | `gpl/vm` | the fields of `machine` and of `ContractAccount` |
| `StakingContract` | `GYDSStaking.sol` | `validators`, `validatorList`, `totalStaked`, `rewardPool` as in the code; `balance` is the contract's own (its specification is `ContractSpec`, so that one module can extend it and `VM`) |
| `ContractProofs` | theorems about `StakingContract` and about `VM` | |
| `MC*` | small instances for TLC | |

Every action is a whole handler, or a whole stretch between two points where
another goroutine can get in: the taking of a lock, a channel operation, a read
of the network.  `Chain.InsertBegin` to `InsertReturn` is one `InsertBlock` with
every lock hand-over visible.  `Add`, `Remove` and a round of `expireLoop` hold the pool's
mutex and are one step each, as is a call of a `gpl` program; `Pending` holds the pool's
lock for reading only and asks the chain for a nonce at every pop, so it is a step for each
pop, between which other calls of `Pending` run and the chain moves on.  A call of the
contract is one step, because a transaction is executed whole or reverted whole.  `Rpc`'s handlers are `Chain`'s
two readers and the rest of the methods that read the chain, each split where it
lets go of one lock and takes the next.  `PROJECT.json` maps each definition to its lines.

History variables are marked as such and never read by a guard: `off` in
`TokenProgram` and `Staking` (the amounts by which calls that met a failure, transfers to
oneself and slashes beyond the own stake put totals off), `earned`, `paid` and `lost` in
`Staking` (commissions credited, claimed, and written over by a second registration),
`unsaved` and `unread` in `Chain` (blocks that a failure kept out of the storage or out of
this process), `since` in a call of `Mempool` (the nonces when it got the lock), `dropped` and `got` in `P2P`, `got`, `since` and `missed` in `Node`,
`exact` and `tame` in `VM`, `answer` in `Chain`, `said` in `Rpc`, `ownerless`, `unpaid`
and `fund` in `StakingContract` (stakes and rewards that a return wrote over or a
division left, and what was slashed or given).

Mutants stand next to the definition they change and are used by nothing: each
is the definition with a plausible mistake that some property must notice.

Abstractions that matter:

* hashes, addresses, keys and payloads are names; equal block hashes mean equal
  blocks (an assumption of `Chain`, collision freedom);
* a transaction carries its value, gas price and gas: the first two are integers of either
  sign, as nothing in `chain.go:148-172` refuses a negative one, and the third is a word of
  `Word` values that `Signed` turns into an `int64`, whose upper half is negative;
* `Chain` takes any block from any caller, although in this commit only the engine
  inserts; the transactions of a block carry its number, as `produceBlock` would
  set it (`ProducerAssumption`);
* failures of the storage (`MaxFaults` of them) are in `Chain`, `TokenProgram` and `Staking`:
  the interface returns errors, although `MemStorage` itself never fails.  `Chain`, behind a
  backend on disk, drops them: a block that is not marshalled or put is answered with nil, one
  that does not unmarshal is passed over, and after an error of the iterator the chain serves
  without a storage.  In the programs a failing second `Put` leaves a call half saved, and the
  reads whose errors are dropped count as "not there": `Has` of `CreateToken` and
  `RegisterValidator`, the delegation in `Delegate`, the validator in `saveSlash`.  One call
  meets one failure at most; a call that a failure ends before its first `Put` changes
  nothing and is no step;
* amounts that callers name are integers of either sign, so that what a check refuses is
  refused by that check (`nil`, which `Slash` turns into a panic, is left out);
* `Node` merges a writer's taking of a message with its sending it: a stalled
  writer holds back its channel from one place earlier than in the code, where
  one more message sits in the writer's hand; the promise is the same;
* `VM` keeps the numbers of opcodes and gas of the code and shrinks the machine
  (two-byte words, five bytes of memory); a Go slice may run past `MaxMemory` up
  to the capacity `append` chose, hence `MemCap`.  SHA3 may push any of `Digest`: which bytes
  hash to which word is of no account.

## 3. Runs

| run | question | bounds | result |
|---|---|---|---|
| `chain` | are indexes, readers, answers and funds right under interleaving, crashes and failures of the storage, and does `Chain` implement `ChainSpec`? | four blocks beside genesis (two in a row, a rival, a misnumbered one), six transactions (one replayed, one to oneself, one to nobody, two of negative value, one with a negative gas price and one whose gas turns negative), words of 4 values, one two-step reader, two restarts, one failure, both backends | holds, with the exceptions its properties name |
| `rpc` | does a client that asks one thing after the other ever see the chain go back? | the blocks of `chain`, one client, one transaction sent raw, one restart, the backend the code opens | holds |
| `mempool` | bounds, queues, heap against maps, and `Pending` against its definition | six transactions of three senders, pool of four, queues of two, five additions, one goroutine in `Pending`, one block, between any two pops | holds |
| `mempool_remove` | does `Remove` remove? | the same, with two goroutines in `Pending` | violated: `Pending` writes positions of shared entries |
| `token` | do balances, supply and events agree, and does a freeze hold? | one token, two owners, one of them the delegate that is approved (by himself too), amounts from -1 to 1, one event place, one call that meets a failure, balances up to 2 | holds, with the exceptions its properties name |
| `token_self` | does a transfer move tokens? | the same | violated: a transfer to oneself mints |
| `staking` | do totals, rewards, jail and slash history hold? | one validator, two delegators (symmetric), amounts from -1 to 2, stake up to 3, two slashes, two rewards, one call that meets a failure | holds, with the exceptions its properties name |
| `staking_slash` | does a slash lower stake? | amounts 1 to 3, no failure, stake up to 4 | violated: a negative total turns the cap round |
| `p2p` | order, losses, mutual waiting, winding down | channels and wires of one place, one ping each way, two blocks and one | holds |
| `node` | stream, gauge, producer, with a signal at any moment | two clients, channels of one place, three blocks | holds |
| `contract` | do totals, balance and what each validator is owed agree? | two accounts (symmetric) in a list of four places, minimum 2, stakes 1 to 3, payments 0, 1 and 3, slashes 0 to 2, balance up to 13 | holds |
| `vm` | gas, width, alignment, storage, termination | 3600 codes: every pair of instructions on an empty stack, every instruction on two small words and four followers, stores and loads inside and outside the word range, memory at its limits, loops; little gas and enough for two stores; two calls | holds |

Why the bounds are enough: each is the least at which the case in question happens and
one more. A channel of one place is full after one message, which is all that a full
channel of 64 or 256 does; three blocks give a client one to be told of, one to wait and
one to lose. Two blocks in a row and a rival make every refusal of `InsertBlock` happen;
two restarts let a chain that was misloaded be loaded again. A pool of four with queues
of two reaches the limit of either first. Two slashes with a withdrawal between them
reach the negative total; one failure per run leaves every half-saved state there is,
and every state in which one read was taken for "not there". An amount of -1 passes or
fails every test of a sign that a larger one does. A list of four places lets both
validators leave and come back; payments of 1 and 3 leave remainders with two, three and
four shares. In `vm` a loop runs for hundreds of rounds until its gas is gone. With one
goroutine in `Pending`, `mempool` has every interleaving of its pops with the chain;
that two such calls serve each other no worse is the theorem's, for any number of them.
The bounds are constants named `Max...` and appear in guards only.

`CHECK_DEADLOCK FALSE` is used in `mempool`, `p2p`, `node`, `contract` and `vm`, where the
bounded inputs run out or the process ends; the other systems never stop.

What the violated runs say is in `PROJECT.json` under `findings`, each with the
sentence of the repository that it contradicts.

## 4. Fairness

* `Chain`: weak fairness of the holder of `c.mu` (it runs on, for Go's mutexes
  are granted and goroutines scheduled) and of each waiting reader.  Nobody has to
  insert, to read, or to crash.
* `P2P`: weak fairness of `writeLoop` and `readLoop` of both nodes.  None for
  pings, broadcasts, the write deadline, or the cut.  `WireDrains` therefore
  holds without the help of a time-out.
* `Node`: weak fairness of the ticker, the engine, the handlers and the start of the
  server.  None for a client's writer: it sets no write deadline,
  so a client may hold it up for ever, and the promises must hold all the same.
  Nobody has to send a signal, and nothing is promised of what follows one.
* `VM`: weak fairness of the interpreter: `Execute` is a function call.
* `Rpc`: `Chain`'s; its property is about safety and needs none.
* `Mempool`, `TokenProgram`, `Staking`, `StakingContract`: none, they promise no progress.

## 5. Proofs

Every theorem is about the specification that TLC checks, under the assumptions that
its module names and TLC evaluates on the instance: hashes name blocks, the producer
numbers its transactions, genesis has number 0 and no transactions (`Chain`); a
transaction is known by its hash (`Mempool`); a channel has at least one place (`Node`);
a code is a sequence of bytes, and the host answers an integer for what ORIGIN, BALANCE
and their like ask (`VM`); genesis gives nobody a negative balance (`Chain`); bounds are
natural numbers, and what callers name is an integer of either sign; and where balances,
stakes, nonces or clients are added up or counted, the set of those that have them is
finite (`Addr`, `Owner`, `Delegator`, `Sender`, `Client`), for a sum means nothing
otherwise.

| module | theorem | what it says |
|---|---|---|
| `ChainProofs` | `TypeCorrect` | types, with balances of either sign; loading and serving exclude each other |
| | `OverspendCorrect` | a balance is below zero only where some block pays that account a negative amount |
| | `OneChainCorrect` | with the in-memory backend the blocks are one chain from genesis and both indexes are exact |
| | `ReadersCorrect` | a handler that reads twice finds the block its first read promised |
| | `AckedCorrect` | what was answered with nil is served by every later process while the storage lives, unless an error that `persistBlock` or `loadFromDB` drops kept it out |
| | `SupplyCorrect` | the sum of the balances grows only by a transaction with a negative fee or of a negative value to nobody, and by a restart |
| | `ImplementsCorrect` | `Chain` implements `ChainSpec`, with either backend |
| | `ServerOneChain`, `ServerReaders` | of `Rpc`: what holds of `Chain` holds under every handler |
| | `SessionsCorrect` | of `Rpc`: a client that asks one thing after the other never sees the server go back |
| `MempoolProofs` | `TypesHold` | heap and queues are never above their limits, and types |
| | `QueuesAreKept` | what the index knows stands in its sender's queue, and queues are in the order of nonces |
| | `HeapIsTracked` | until `Pending` pops an entry, `heapIndex` is right, heap and index agree and nothing panics |
| | `PendingReturnsBest` | whatever the chain does between its pops and however many calls run at once, `Pending` returns the best of what was ready throughout, one for each sender, and nothing that was ready at no moment of the call |
| | `InvariantHolds` | the invariant they follow from |
| `NodeProofs` | `ToldCorrect`, `TypeCorrect`, `StreamCorrect`, `GaugeCorrect` | the hub: what is told can be served, the stream is in order and complete but for the full channel, the gauge does not drift |
| `P2PProofs` | `TypeCorrect`, `InOrderOnceCorrect`, `NothingElseLostCorrect` | capacities; blocks arrive in order and once, and only a full channel or a cut loses one |
| `TokenProofs` | `TypeCorrect`, `SupplyAccountedCorrect`, `EventsTellBalancesCorrect`, `FrozenKeepsCorrect` | no balance gets below zero, whatever sign amounts have; balances add up to the supply but for what the exceptions put off; events tell balances; a freeze holds |
| `StakingProofs` | `TypeCorrect`, `StakeAccountedCorrect`, `RewardsPaidOnceCorrect`, `JailedEarnsNothingCorrect`, `SlashHistoryCorrect` | totals are what they total, rewards are claimed once, a jailed validator earns nothing and gains stake by a recorded slash only, slash records are missing at most once per failure and only the first can be written over |
| `ContractProofs` | `TypeCorrect`, `AccountedCorrect`, `NobodyElsePaysCorrect` | of `StakingContract`: totals and balance agree; nobody's stake or reward pays for another |
| | `TypesKept` | of `VM`: gas is never overdrawn, storage holds words whatever the integers are |
| | `GasPays`, `GoingOnCosts` | of `VM`: gas pays for the stack and the logs, and every step with which a call goes on takes some |
| | `StaysAligned` | of `VM`: in a code without a JUMPDEST in its immediates, data never runs |
| | `ReadsWhatItStored` | of `VM`: a contract reads what it stored last, through failures and panics |
| `Lemmas` | - | what the others share |

The exceptions that the properties name (transfers to oneself, calls that met a failure,
slashes beyond the own stake, transactions that mint, blocks a failure lost) are part of the theorems as they are of the runs.

### Arguments

Each invariant is proved by `Init => Inv` and `Inv /\ [Next]_vars => Inv'`, one step
or one lemma per action; an action property follows from the invariant and one step.

`ChainProofs`.  `TypeOK` is inductive by itself; its only work is `Transfer`
(`TransferType`).  `NobodyOverspends` goes by `TransferOverspends`: `CanPay` keeps the sender's
debit from going below zero, even when the cost is negative, so what does is a credit of
a negative value; and the transactions that a call still has to do are its block's
(`CallOfTip`), which is in the chain.  `OneChain` is not inductive: a step
of `applyTx` changes the transaction index while the block is at the tip and not
yet answered, so `MemInv` adds that the block of the call is the tip
(`CallOfTip`), that every indexed transaction is carried by a block under its
number (`IndexHeld`), and that what a reader holds is in the chain
(`ReadersHold`).  With it, appending a child of the tip keeps links and indexes
(`AddBlockExtends`), and everything else leaves the blocks alone.
`AckedBlockIsServed` needs to know where an answered block is: `StoreInv` says it
is the genesis block, in the storage, or among the blocks that a failure kept out of it
(`Kept`, `Lost`), and that what is kept is indexed, still to be loaded, or was passed over.

The refinement.  The abstract state is what the blocks that are done add up to, so
almost every step of `Chain` is a stutter, and only `InsertReturn`, `Serve` after a
restart, and `Restart` itself show.  `LedgerInv` is the invariant of a ledger half
applied: the transactions left to do, applied to the accounts as they are, lead to the
ledger of all blocks.  Each step of `applyTx` moves one transaction from the left of
that equation to the right, by two facts about the fold of the ledger: it goes through
a concatenation (`LedgerOfBoth`) and takes the first transaction first
(`LedgerOfFirst`).  `BlocksInv` says which blocks there are: each once, and while they
are loaded those that the iterator has yielded; from this, a finished replay shows what
was stored, in whatever order it came (`LoadedIsStored`, `ServeRecovers`).

`OnlyMintsGrowSupply` is a statement about two sums: `Transfer` changes two summands, or
one when the recipient is nobody or the sender, and `SumChange` says what a sum does
when one summand changes; what is left is the cost less the value, which is the fee, or the
whole cost when nobody is paid (`TransferNeverAdds`).

`Rpc`, in `ChainProofs`.  A handler's step is a step of one of `Chain`'s readers or leaves
`Chain` alone (`ServerStep`).  The invariant of `SessionsCorrect` has four parts.
`IndexInv`: every transaction of every block is in the index under that block's number
or a later one, but for those of the head that the running call has still to come to.
`IsBacked`: what the last answer showed is still in the chain, in the index and in the
table; it stays so because all three only grow (`GrowsNext`).  `Fits`: what a handler
holds between two reads is no older than that answer.  `AccountsInv`: the accounts are
the ledger of a prefix `done` of the chain's transactions, the rest of which the call
still holds; whatever an answer showed as settled is in that prefix, and no nonce is
below one that was shown.  A handler that shows a block runs while `c.mu` is free, when
`done` is everything; one that shows an account does not wait for `c.mu`, and `done` is
the prefix that the account belongs to (`TrueKeepsAccounts`).  Steps of the chain only
lengthen `done` (`DoneGrows`) and raise nonces (`NoncesGrow`).  There is one lemma per
handler, and a restart ends every session.

`MempoolProofs`.  First the heap.  A sift is a loop, written in `TxHeap` as a recursive
function; one turn of it exchanges two entries (`SwapFacts`), and what a turn does to
the order is a fact about the prices alone: if only the place at hand is out of order
with its children (its parent), then after the exchange only the next place is
(`SinkOrder`, `RiseOrder`).  So `Push`, `Pop` and `HeapRemove` keep the order and the
entries, and `heapIndex` where it was right.  The order is what `PendingIsBest` needs,
of every heap that can arise, those that `Pending` left with wrong positions included:
the sifts go by places in the array, and only `evict` goes by `heapIndex`, which names a
place of the array, the wrong one perhaps, or panics.  Then the pool.  `Good` is the
invariant of a pool (heap in order, index by hash, queues sorted and within their
limits, no entry younger than the last one added, and heap and index in step until the
first pop); an eviction keeps it, and so does a round of `expireLoop`, eviction by
eviction.  `QueuesHold` is delicate in `Add`, which writes back the queue that it read
before the eviction.  `PendingIsBest` follows from what every
call of `Pending` keeps at every moment, its turns and everybody else's steps alike
(`Serves`): its copy is a heap in order and holds entries of the pool only, for nobody
adds or removes while the lock is held; what was chosen was ready when it was popped, best
first and one of each sender, and no entry left in the copy is better paid; and whatever
was popped and passed over has its sender served, or was not ready at that moment and so
not ready throughout (`Covered`), which nonces that only grow keep true.  One lemma is about
a turn of the loop (`TurnServes`), one about its end (`DoneIsBest`).

`VM`, in `ContractProofs`.  The invariant has three parts.  `MachineOK` is about the
machine: `GasMeters` is inductive since no instruction leaves more words beyond those
it took than its price (`Costs`), and `Aligned` since the places where instructions
start are the least set with 0 that is closed under going from one to the next
(`BoundaryFacts`) and a jump goes to a JUMPDEST only.  `MemoryOK`: memory is bytes, what
is stored being a remainder.  `StorageOK`: storage holds words, and as long as all keys
and values were words it is what was stored, for `padTo32` changes no word and makes one
of every integer (`padTo32Facts`).  That what is on the stack are integers is the longest
part: a shift, a number spelt by bytes and the bitwise operators are recursions, the last
of them over pairs of integers that move towards their signs (`ExtentHalves`).  There is
one lemma for each kind of instruction, by what it takes from the stack and leaves there.
`GoingOnCosts` is the half of `Halts` that is not about fairness: gas falls with every
step that does not end the call, and is never below zero.

`NodeProofs`.  `ToldInv` adds where the engine's block stands at each of its steps
(`EngineInv`: one above the head until it is inserted, the head until it is announced)
and that what waits in a channel is served too, for that is where the told blocks come
from.  `StreamComplete` speaks of what was told followed by what waits; `StreamInv`
speaks of the two apart, each increasing and the one before the other, bounded by the
last announced block, and both empty before the client subscribes.  A writer's step
then moves the head of one sequence to the end of the other (`HeadMoves`) or, on a
broken connection, drops it.  `GaugeExact` is about moments when no handler is between
two steps, which no step preserves; `GaugeInv` says what `subs` and `wsActive` are at
every moment.

`P2PProofs`.  The two theorems about what arrives come from `OrderInv`.  For each
direction it takes what was handed over, the wire, the message in the encoder and the
channel apart (`InOrder`): each is increasing, each before the next, and none goes
above the last number broadcast.  One lemma says what each kind of step does to them: a
head moves to the next place (`InOrderTake`, `InOrderWrite`, `InOrderHandle`), a
message is appended (`InOrderSend`), a place is lost (`InOrderLess`).  `Standing` adds
that no quit is closed before the connection is down, for a `writeLoop` that returned
would throw its channel away.

`TokenProofs` and `StakingProofs` go by Puts, as the programs do.  The first part of
each says of any store what one Put of one kind of record does to every record, total
and sum (`PutAccount`, `PutToken`; `PutValidator`, `PutDelegation`, `PutSlash`); a call
is one or two of these, the second of which may fail (`FaultStep`, `HalfStep`, `BothStep`),
or a second creation, registration or delegation over what was there (`CreateAgainStep`,
`RegisterStep`, `BondAnewStep`).  The invariants add what makes
the totals inductive: an account has its token and a delegation its validator, so that
a new token and a new validator start from a sum of zero; and that no more slash
records are missing than calls have met a failure.

`ContractProofs`.  `NobodyElsePays` needs `TypeOK` and nothing more: the guards do the
rest.  `Accounted` is inductive with it: a registration, a leave and a slash change one
record (`SumsMove`), and a distribution changes all at once, in proportion to the
places each holds in the list (`SharesAddUp`, from `SumCounts`: the places of a list are
as many as those of each of its members together).

`Lemmas`.  The library's induction theorems take an operator, so induction is stated
about sets: a set of numbers with 0 and all successors is `Nat` (`NatSetInduction`, by
the least number outside it; `UpToInduction` up to a bound), a set of subsets of a
finite set that holds what all its smaller ones do is all of them
(`SubsetInduction`).  `RecursionHolds` says that a recursive function of the shape that
the folds of `Ledger` and `Chain` have satisfies its equation; `SumEquation` says the
same of the community modules' sum over a set, and the other lemmas about sums follow
from it.  `DescentHolds` is the same for a recursion that goes down along a measure, as
`padTo32`, the bitwise operators and the places of a code do: the function exists because
below every measure there is exactly one (`DescentBelow`, `DescentAgrees`).

### Only model-checked

Liveness: `CallsReturn` of `chain`, `WireDrains` and `LoopsReturn` of `p2p`,
`EngineGoesOn` of `node`, and `Halts` of `vm`.  ENABLED and
fairness are out of the prover's reach; of `Halts`, the measure is proved.  Everything
else that a passing run checks is a theorem.

## 6. Plan

Done, in the order of importance: `Ledger`, `ChainSpec`, `Chain`, `ChainProofs`;
`TxHeap`, `Mempool`, `MempoolProofs`; `Store`, `TokenProgram`, `Staking`; `P2P`,
`P2PProofs`; `Node`, `NodeProofs`; `VM`; `Rpc`; `StakingContract`, `ContractProofs`;
`TokenProofs`, `StakingProofs`.

Dropped, because the code turned out to have no behaviour there that a model would
tell apart (section 8 says more): the faucet, the table of peers, the set of
validators, the SDK's wait for a receipt, and a promise about what follows a signal.

Next, the model: `Node` over `Chain` in place of `height`, so that `ToldIsServed` is
about blocks.  When `main` starts to use the pool: `Mempool` over `Chain` in place of
`chainNonce`.

## 7. Hazards

`PROJECT.json` lists what is hard to test in this code, each at its line, with the
properties that watch it.  Where nothing watches it, the note says why: mostly
because the hazard is real in the code (a second `Close` of a peer's `quit`, a
writer goroutine per client that never ends, a signal before the server is
started, a panic of the interpreter, delegators whose rewards are never credited)
and no sentence of the repository says otherwise, so that there is no promise to
check.  In the models these outcomes are actions, and the other properties hold
around them.

## 8. Not modelled

Cryptography, hashing and encodings (names stand for their results); JSON-RPC
methods that answer a constant, and the stubs for filters and subscriptions (the
map of filters is declared and never used); decoding of parameters; metrics, which
render counters one by one; configuration and flags; the web pages; images,
firewall, VPN and monitoring scripts.  Of the packages that are modelled, queries
and serialisation are left out.  Data races on plain fields are modelled where an
outcome can differ (`httpServer` read before it is set); the history of gas price
and peer counts (always zero) have no state.

* The set of validators (`consensus/pos.go`): it holds the three of genesis (`main.go:94`),
  nobody in this commit changes it, and `SelectProposer` takes them in turn by the number of
  the block (lines 28-36).  The name is written into the block's header and decides nothing.
* The table of peers (`p2p/peer.go`): `main` starts a `p2p.Server` (`main.go:112-121`), and
  from then on the table only grows; `P2P` has what a stale entry does to `Broadcast`.
* The faucet (`GYDSFaucet.sol`): a call compares one timestamp, and calls are executed
  one at a time.
* The SDK: one request per method.

Some things in the code need no model to see and contradict a sentence of the
repository; they have no run:

* a full pool makes room by dropping the first entry of its max-heap, the best paid
  one (`mempool/mempool.go:90`), where the package comment (lines 3-4) promises the
  lowest;
* behind a backend that keeps blocks, `loadFromDB` (`core/db.go:28`) appends them in the
  order of the iterator, which knows hashes only; the comment (lines 9-10) says that a
  backend can be swapped in without touching `Chain`.  `Chain`'s properties name the
  backend for this reason, and `AckedBlockIsServed` holds behind both;
* a receipt's status is always `0x1`, also for a transaction that its sender could not
  pay and that had no effect (`rpc/server.go`, `txReceiptRPC`);
* `eth_getBlockByNumber` of a number that cannot be parsed answers with genesis;
* in `GYDSStaking.sol` a validator slashed below the minimum can neither leave nor claim,
  and its return writes over what it had left: `ownerless` and `unpaid` count it;
* the SDK's `waitForTransaction` throws at its first poll when the receipt is not there
  yet, because the server leaves an empty `result` out of its answer;
* `persistBlock` drops the error of `Put` (`core/db.go:58`): `AckedBlockIsServed` names the
  blocks that are answered with nil and not kept; with `MemStorage`, which never fails, there
  are none;
* a negative value or gas price, a gas in the upper half of its words (`core/chain.go:163-172`)
  and a negative slash (`gpl/staking/staking.go:270`) are taken: they mint, overdraw the
  recipient and add stake.  `OnlyMintsGrowSupply`, `NobodyOverspends` and
  `JailedEarnsNothing` say that nothing else does;
* `CreateToken`, `RegisterValidator`, `Delegate` and `saveSlash` drop the error of a read and
  write over what they could not see;
* an empty mint authority freezes a mint (`gpl/token/token.go:46`) but for a caller that
  names the empty string.

------------------------------- MODULE Ledger -------------------------------
(***************************************************************************)
(* The account ledger of package core: the effect of one transaction       *)
(* (Chain.applyTx, from the accountsMu lock on) and of a sequence of them. *)
(*                                                                         *)
(* Addresses are those of strings.ToLower; NoAddr is the empty recipient   *)
(* of a contract creation.  An account the map does not hold reads as      *)
(* balance 0 and nonce 0, so the ledger is a total function.  A            *)
(* transaction keeps its hash, from, to, value and gasPrice (0 stands for  *)
(* nil too; both are big integers of either sign, for nothing tests them), *)
(* gasUsed, a machine word, and num, the BlockNum its producer wrote.      *)
(***************************************************************************)
EXTENDS Integers, Sequences, Functions

CONSTANTS Addr,     \* account addresses, in lower case
          NoAddr,   \* the empty "to" address
          TxHash,   \* transaction hashes
          Word      \* how many values a uint64 has: 2^64

ASSUME NoAddrAssumption == NoAddr \notin Addr

ASSUME WordAssumption == Word \in Nat \ {0}

Account == [balance: Int, nonce: Nat]
Accounts == [Addr -> Account]
Tx == [hash: TxHash, from: Addr, to: Addr \cup {NoAddr}, value: Int,
       gasPrice: Int, gasUsed: 0 .. Word - 1, num: Nat]

\* The conversion int64(n) of a uint64: its upper half is negative.
Signed(n) == IF 2 * n < Word THEN n ELSE n - Word

Fee(tx) == tx.gasPrice * Signed(tx.gasUsed)

Cost(tx) == tx.value + Fee(tx)

\* Mutant of CanPay: the fee is left out of the check.
CanPayValue(acc, tx) == acc[tx.from].balance >= tx.value

\* The sender can pay: only then does the transaction have any effect.
CanPay(acc, tx) == acc[tx.from].balance >= Cost(tx)

Debit(acc, tx) ==
  [acc EXCEPT ![tx.from] = [balance |-> @.balance - Cost(tx), nonce |-> @.nonce + 1]]

Credit(acc, tx) ==
  IF tx.to = NoAddr THEN acc ELSE [acc EXCEPT ![tx.to].balance = @ + tx.value]

\* Mutant of Transfer: the recipient is read before the sender is debited.
TransferFromCopies(acc, tx) ==
  IF CanPay(acc, tx) /\ tx.to # NoAddr
  THEN [Debit(acc, tx) EXCEPT ![tx.to].balance = acc[tx.to].balance + tx.value]
  ELSE acc

\* One transaction of non-zero value, under accountsMu.
Transfer(acc, tx) == IF CanPay(acc, tx) THEN Credit(Debit(acc, tx), tx) ELSE acc

\* A transaction of value zero returns before the ledger is locked.
Effect(acc, tx) == IF tx.value = 0 THEN acc ELSE Transfer(acc, tx)

\* The ledger after a sequence of transactions, from left to right.
LedgerAfter(acc, txs) ==
  LET after[i \in 0 .. Len(txs)] ==
        IF i = 0 THEN acc ELSE Effect(after[i - 1], txs[i])
  IN  after[Len(txs)]

Supply(acc) == SumFunction([a \in Addr |-> acc[a].balance])
=============================================================================

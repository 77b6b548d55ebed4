----------------------------- MODULE ChainSpec ------------------------------
(***************************************************************************)
(* What core.Chain promises its callers: a chain of blocks that grows by   *)
(* one child of its head at a time, and a ledger that every block changes  *)
(* at once, as if its transactions ran in order with nobody watching.  A   *)
(* process that stops serves nothing; the next one serves the genesis      *)
(* block and every block its storage kept, in the order the storage's      *)
(* iterator yields them.  A storage that has failed once may keep less     *)
(* than it was given, and give back less than it kept.                     *)
(***************************************************************************)
EXTENDS Ledger, FiniteSets

CONSTANTS Block,     \* the blocks anyone may insert: [hash, parent, number, txs]
          Genesis,   \* the block NewChain starts from
          GenesisAccounts

VARIABLES chain,     \* the committed blocks, <<>> while no process serves them
          ledger,    \* the accounts after the committed blocks
          stored,    \* the blocks the storage holds
          faulty     \* the storage has failed

vars == <<chain, ledger, stored, faulty>>

Tip(bs) == bs[Len(bs)]

IsChild(b, parent) == b.parent = parent.hash /\ b.number = parent.number + 1

\* All transactions of a sequence of blocks, in order.
TxsOf(bs) ==
  LET upTo[i \in 0 .. Len(bs)] == IF i = 0 THEN <<>> ELSE upTo[i - 1] \o bs[i].txs
  IN  upTo[Len(bs)]

\* The sequences that list every member of S once.
Orderings(S) ==
  {s \in [1 .. Cardinality(S) -> S] : \A i, j \in DOMAIN s : s[i] = s[j] => i = j}

Serve(bs) ==
  /\ chain' = bs
  /\ ledger' = LedgerAfter(GenesisAccounts, TxsOf(bs))

Init ==
  /\ chain = <<Genesis>>
  /\ ledger = GenesisAccounts
  /\ stored = {}
  /\ faulty = FALSE

Extend(b) ==
  /\ chain # <<>>
  /\ b \notin Range(chain)
  /\ IsChild(b, Tip(chain))
  /\ chain' = Append(chain, b)
  /\ ledger' = LedgerAfter(ledger, b.txs)
  /\ \/ stored' = stored \cup {b} /\ UNCHANGED faulty
     \/ UNCHANGED stored /\ faulty' = TRUE

\* The storage fails where no caller sees it.
Fail == faulty' = TRUE /\ UNCHANGED <<chain, ledger, stored>>

\* The process dies.  A volatile storage dies with it.
Stop ==
  /\ chain' = <<>>
  /\ ledger' = GenesisAccounts
  /\ stored' \in {stored, {}}
  /\ UNCHANGED faulty

Recover ==
  /\ chain = <<>>
  /\ \E S \in SUBSET stored :
       /\ faulty \/ S = stored
       /\ \E order \in Orderings(S) : Serve(<<Genesis>> \o order)
  /\ UNCHANGED <<stored, faulty>>

Next == (\E b \in Block : Extend(b)) \/ Fail \/ Stop \/ Recover

Spec == Init /\ [][Next]_vars
=============================================================================

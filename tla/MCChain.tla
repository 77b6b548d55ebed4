------------------------------ MODULE MCChain -------------------------------
(***************************************************************************)
(* Chain on a genesis block and four others: two that extend it in turn, a *)
(* rival of the first, and one with a number out of line.  The last        *)
(* transaction of a2 is one of a1 again, which the code applies again.     *)
(* The rival carries a payment to oneself and the transactions that        *)
(* nothing in the code refuses: a negative value with a gasUsed that turns *)
(* negative, and a negative value to nobody at a negative gas price.       *)
(***************************************************************************)
EXTENDS Chain

CONSTANTS alice, bob, t1, t2, t3, t4, t5, t6, hg, ha1, ha2, hb1, hw, root

MCAddr == {alice, bob}
MCTxHash == {t1, t2, t3, t4, t5, t6}
MCHash == {hg, ha1, ha2, hb1, hw, root}

\* With Word = 4, a gasUsed of 3 counts as -1.
Pay(h, from, to, value, price, used, num) ==
  [hash |-> h, from |-> from, to |-> to, value |-> value,
   gasPrice |-> price, gasUsed |-> used, num |-> num]

MCGenesis == [hash |-> hg, parent |-> root, number |-> 0, txs |-> <<>>]

a1 == [hash |-> ha1, parent |-> hg, number |-> 1,
       txs |-> <<Pay(t1, alice, bob, 2, 1, 1, 1), Pay(t2, bob, alice, 0, 1, 1, 1)>>]
a2 == [hash |-> ha2, parent |-> ha1, number |-> 2,
       txs |-> <<Pay(t3, bob, NoAddr, 1, 0, 0, 2), Pay(t1, alice, bob, 2, 1, 1, 2)>>]
b1 == [hash |-> hb1, parent |-> hg, number |-> 1,
       txs |-> <<Pay(t4, bob, bob, 1, 0, 0, 1), Pay(t5, alice, bob, -2, 1, 3, 1),
                 Pay(t6, alice, NoAddr, -1, -1, 1, 1)>>]
skew == [hash |-> hw, parent |-> ha1, number |-> 3, txs |-> <<>>]

MCBlock == {MCGenesis, a1, a2, b1, skew}

MCGenesisAccounts ==
  [a \in MCAddr |-> [balance |-> IF a = alice THEN 5 ELSE 1, nonce |-> 0]]
=============================================================================

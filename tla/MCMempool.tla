----------------------------- MODULE MCMempool ------------------------------
(***************************************************************************)
(* Mempool with three senders.  Alice has more transactions than her queue *)
(* takes, two of them with one nonce; a newcomer to a full pool finds its  *)
(* own sender's transaction first in the heap in some orders and another's *)
(* in others.                                                              *)
(***************************************************************************)
EXTENDS Mempool

CONSTANTS p1, p2, alice, bob, carol, h1, h2, h3, h4, h5, h6

MCSender == {alice, bob, carol}
MCHash == {h1, h2, h3, h4, h5, h6}

Signed(h, from, nonce, price) ==
  [hash |-> h, from |-> from, nonce |-> nonce, price |-> price]

MCTx == {Signed(h1, alice, 0, 1), Signed(h2, alice, 1, 3), Signed(h3, alice, 1, 5),
         Signed(h4, bob, 0, 2), Signed(h5, bob, 1, 6), Signed(h6, carol, 0, 4)}
=============================================================================

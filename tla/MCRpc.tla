-------------------------------- MODULE MCRpc ---------------------------------
(***************************************************************************)
(* The server over the chain of MCChain, with one client.                  *)
(***************************************************************************)
EXTENDS MCChain, Rpc

CONSTANT t7

MCRawHash == {t7}
MCServerTxHash == MCTxHash \cup MCRawHash
=============================================================================

------------------------------- MODULE MCP2P --------------------------------
(***************************************************************************)
(* P2P with a dialer that broadcasts two blocks and an acceptor that       *)
(* broadcasts one; both ends ping.                                         *)
(***************************************************************************)
EXTENDS P2P

MCMaxPings == [n \in Node |-> 1]
MCMaxBlocks == [n \in Node |-> IF n = Dialer THEN 2 ELSE 1]
=============================================================================

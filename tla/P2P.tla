-------------------------------- MODULE P2P ---------------------------------
(***************************************************************************)
(* p2p.Peer and p2p.Server (p2p/peer.go): the two ends of one connection.  *)
(*                                                                         *)
(* Each end runs readLoop, writeLoop and pingLoop, and anyone may call     *)
(* Broadcast.  The acceptor also sends the handshake, when its loops have  *)
(* started.  The connection is TCP, modelled from how Peer uses it: a wire *)
(* of bounded room in each direction that keeps order and may go down at   *)
(* any moment.  Close closes the quit channel; to close it a second time   *)
(* is a panic, which ends the process and with it the node.                *)
(***************************************************************************)
EXTENDS Naturals, Sequences, SequencesExt

CONSTANTS Acceptor, Dialer,  \* the two nodes
          SendCap,           \* capacity of sendCh
          WireCap,           \* messages that fit into one direction of the connection
          MaxPings,          \* bound on the pings of each node
          MaxBlocks          \* bound on the blocks each node broadcasts

Node == {Acceptor, Dialer}

Other(n) == IF n = Acceptor THEN Dialer ELSE Acceptor

ASSUME P2PAssumption ==
  /\ Acceptor # Dialer
  /\ {SendCap, WireCap} \subseteq Nat \ {0}
  /\ MaxPings \in [Node -> Nat] /\ MaxBlocks \in [Node -> Nat]

VARIABLES
  sendCh,   \* Peer.sendCh of each node
  writer,   \* writeLoop: in its select, encoding a message, or returned
  reader,   \* readLoop: decoding, past its look at quit, or returned
  quit,     \* Peer.quit is closed
  wire,     \* what each node wrote and the other has not read
  down,     \* the connection is cut or closed, at one end at least
  alive,    \* the node's process has not panicked
  greeted,  \* acceptLoop has sent its handshake
  pings,    \* pings sent by each node
  blocks,   \* blocks broadcast by each node; the number of the last one
  dropped,  \* history: the blocks that Send dropped while the connection stood
  got       \* history: the blocks each node was handed

vars == <<sendCh, writer, reader, quit, wire, down, alive, greeted, pings,
          blocks, dropped, got>>

loops == <<writer, reader>>

Signal == {[type |-> "handshake", num |-> 0], [type |-> "ping", num |-> 0],
           [type |-> "pong", num |-> 0]}

Message == Signal \cup [type: {"newBlock"}, num: Nat]

Msg(type) == [type |-> type, num |-> 0]

Idle == Msg("none")

Init ==
  /\ sendCh = [n \in Node |-> <<>>]
  /\ writer = [n \in Node |-> [at |-> "select", msg |-> Idle]]
  /\ reader = [n \in Node |-> "decode"]
  /\ quit = [n \in Node |-> FALSE]
  /\ wire = [n \in Node |-> <<>>]
  /\ down = FALSE
  /\ alive = [n \in Node |-> TRUE]
  /\ greeted = FALSE
  /\ pings = [n \in Node |-> 0]
  /\ blocks = [n \in Node |-> 0]
  /\ dropped = [n \in Node |-> {}]
  /\ got = [n \in Node |-> <<>>]

----------------------------------------------------------------------------

\* A block that is dropped while the connection stands is remembered.
Drop(n, m) ==
  dropped' = IF m.type = "newBlock" /\ ~down THEN [dropped EXCEPT ![n] = @ \cup {m.num}]
                                             ELSE dropped

\* Mutants of Send: it knows no capacity; it waits for room; it makes room by
\* dropping the oldest message.
SendUnbounded(n, m) == sendCh' = [sendCh EXCEPT ![n] = Append(@, m)] /\ UNCHANGED dropped

SendWaiting(n, m) ==
  /\ Len(sendCh[n]) < SendCap
  /\ sendCh' = [sendCh EXCEPT ![n] = Append(@, m)]
  /\ UNCHANGED dropped

SendDroppingOldest(n, m) ==
  IF Len(sendCh[n]) < SendCap
  THEN sendCh' = [sendCh EXCEPT ![n] = Append(@, m)] /\ UNCHANGED dropped
  ELSE sendCh' = [sendCh EXCEPT ![n] = Append(Tail(@), m)] /\ Drop(n, m)

\* Send never waits: a full channel drops the message.  A message for a channel
\* that no writeLoop reads any more makes no difference and is no step.
Send(n, m) ==
  /\ writer[n].at # "returned"
  /\ IF Len(sendCh[n]) < SendCap
     THEN sendCh' = [sendCh EXCEPT ![n] = Append(@, m)] /\ UNCHANGED dropped
     ELSE UNCHANGED sendCh /\ Drop(n, m)

\* Nobody reads any more what the other node wrote.
Discard(n) == wire' = [wire EXCEPT ![Other(n)] = <<>>]

\* Close: close(quit), which panics when it is closed already, and conn.Close().
\* What has not been read is gone.
Close(n) ==
  /\ IF quit[n] THEN alive' = [alive EXCEPT ![n] = FALSE] /\ UNCHANGED quit
                ELSE quit' = [quit EXCEPT ![n] = TRUE] /\ UNCHANGED alive
  /\ down' = TRUE
  /\ Discard(n)

\* The node's own end of the connection is closed.
IsClosed(n) == quit[n] \/ ~alive[n]

----------------------------------------------------------------------------
(***************************************************************************)
(* writeLoop                                                               *)
(***************************************************************************)

\* The select takes a message when there is one, even if quit is closed too.
WriterTake(n) ==
  /\ alive[n]
  /\ writer[n].at = "select" /\ sendCh[n] # <<>>
  /\ writer' = [writer EXCEPT ![n] = [at |-> "encode", msg |-> Head(sendCh[n])]]
  /\ sendCh' = [sendCh EXCEPT ![n] = Tail(@)]
  /\ UNCHANGED <<reader, quit, wire, down, alive, greeted, pings, blocks,
                 dropped, got>>

WriterQuit(n) ==
  /\ alive[n]
  /\ writer[n].at = "select" /\ quit[n]
  /\ writer' = [writer EXCEPT ![n].at = "returned"]
  /\ sendCh' = [sendCh EXCEPT ![n] = <<>>]
  /\ UNCHANGED <<reader, quit, wire, down, alive, greeted, pings,
                 blocks, dropped, got>>

\* Mutant of WriterWrite: a message that went out is encoded again.
WriterWriteAgain(n) ==
  /\ alive[n]
  /\ writer[n].at = "encode" /\ ~IsClosed(n)
  /\ Len(wire[n]) < WireCap
  /\ wire' = IF down THEN wire ELSE [wire EXCEPT ![n] = Append(@, writer[n].msg)]
  /\ UNCHANGED <<sendCh, loops, quit, down, alive, greeted, pings, blocks, dropped, got>>

\* Encode succeeds while the connection takes more; one that is down loses it.
WriterWrite(n) ==
  /\ alive[n]
  /\ writer[n].at = "encode" /\ ~IsClosed(n)
  /\ Len(wire[n]) < WireCap
  /\ wire' = IF down THEN wire ELSE [wire EXCEPT ![n] = Append(@, writer[n].msg)]
  /\ writer' = [writer EXCEPT ![n] = [at |-> "select", msg |-> Idle]]
  /\ UNCHANGED <<sendCh, reader, quit, down, alive, greeted, pings, blocks,
                 dropped, got>>

\* The end of a failed Encode: Close, without a look at quit.
WriterClose(n) ==
  /\ alive[n]
  /\ writer[n].at = "encode"
  /\ Close(n)
  /\ writer' = [writer EXCEPT ![n] = [at |-> "returned", msg |-> Idle]]
  /\ sendCh' = [sendCh EXCEPT ![n] = <<>>]
  /\ UNCHANGED <<reader, greeted, pings, blocks, dropped, got>>

\* Encode fails on a connection that is down.
WriterFail(n) == down /\ WriterClose(n)

\* Or it had no room until the write deadline.
WriterTimeout(n) == ~down /\ Len(wire[n]) = WireCap /\ WriterClose(n)

----------------------------------------------------------------------------
(***************************************************************************)
(* readLoop and handleMessage                                              *)
(***************************************************************************)

\* A message comes in: a ping is answered, a block handed on, the rest changes
\* nothing that matters here.
ReaderHandle(n) ==
  /\ alive[n]
  /\ reader[n] = "decode" /\ ~IsClosed(n)
  /\ wire[Other(n)] # <<>>
  /\ LET m == Head(wire[Other(n)]) IN
       /\ IF m.type = "ping" THEN Send(n, Msg("pong")) ELSE UNCHANGED <<sendCh, dropped>>
       /\ got' = IF m.type = "newBlock" THEN [got EXCEPT ![n] = Append(@, m.num)] ELSE got
  /\ wire' = [wire EXCEPT ![Other(n)] = Tail(@)]
  /\ UNCHANGED <<loops, quit, down, alive, greeted, pings, blocks>>

\* Mutant of ReaderFail: readLoop returns without a Close.
ReaderFailQuietly(n) ==
  /\ alive[n]
  /\ reader[n] = "decode" /\ down
  /\ reader' = [reader EXCEPT ![n] = "returned"]
  /\ UNCHANGED <<sendCh, writer, quit, wire, down, alive, greeted, pings,
                 blocks, dropped, got>>

\* Decode fails on a connection that is down, whatever was still on it.  The loop
\* looks at quit and returns if it is closed.
ReaderFail(n) ==
  /\ alive[n]
  /\ reader[n] = "decode" /\ down
  /\ reader' = [reader EXCEPT ![n] = IF quit[n] THEN "returned" ELSE "close"]
  /\ Discard(n)
  /\ UNCHANGED <<sendCh, writer, quit, down, alive, greeted, pings,
                 blocks, dropped, got>>

\* Otherwise it calls Close, and writeLoop may have done so in between.
ReaderClose(n) ==
  /\ alive[n]
  /\ reader[n] = "close"
  /\ Close(n)
  /\ reader' = [reader EXCEPT ![n] = "returned"]
  /\ UNCHANGED <<sendCh, writer, greeted, pings, blocks, dropped, got>>

----------------------------------------------------------------------------
(***************************************************************************)
(* pingLoop, acceptLoop, Broadcast, and the network                        *)
(***************************************************************************)

\* pingLoop: its select may take a tick even if quit is closed too, and returns
\* some time after that.
Ping(n) ==
  /\ alive[n]
  /\ pings[n] < MaxPings[n]
  /\ pings' = [pings EXCEPT ![n] = @ + 1]
  /\ Send(n, Msg("ping"))
  /\ UNCHANGED <<loops, quit, wire, down, alive, greeted, blocks, got>>

\* acceptLoop greets after peer.Start.
Greet ==
  /\ alive[Acceptor] /\ ~greeted
  /\ greeted' = TRUE
  /\ Send(Acceptor, Msg("handshake"))
  /\ UNCHANGED <<loops, quit, wire, down, alive, pings, blocks, got>>

\* Broadcast reaches every peer ever connected: nobody takes a closed peer from
\* the map.
Broadcast(n) ==
  /\ alive[n]
  /\ blocks[n] < MaxBlocks[n]
  /\ blocks' = [blocks EXCEPT ![n] = @ + 1]
  /\ Send(n, [type |-> "newBlock", num |-> blocks[n] + 1])
  /\ UNCHANGED <<loops, quit, wire, down, alive, greeted, pings, got>>

\* The network cuts the connection.
Cut ==
  /\ ~down
  /\ down' = TRUE
  /\ UNCHANGED <<sendCh, loops, quit, wire, alive, greeted, pings, blocks, dropped, got>>

----------------------------------------------------------------------------

WriterStep(n) == WriterTake(n) \/ WriterQuit(n) \/ WriterWrite(n) \/ WriterFail(n)

ReaderStep(n) == ReaderHandle(n) \/ ReaderFail(n) \/ ReaderClose(n)

Next ==
  \/ \E n \in Node : \/ WriterStep(n) \/ WriterTimeout(n) \/ ReaderStep(n)
                   \/ Ping(n) \/ Broadcast(n)
  \/ Greet
  \/ Cut

\* A goroutine that can run does: each loop goes on while it has something to do.
\* No ping, no broadcast and no failure has to come, and no deadline is needed.
Fairness ==
  \A n \in Node : WF_vars(WriterStep(n)) /\ WF_vars(ReaderStep(n))

Spec == Init /\ [][Next]_vars /\ Fairness

----------------------------------------------------------------------------
(***************************************************************************)
(* Properties                                                              *)
(***************************************************************************)

\* Channels and wires within their capacities, loops in places they have.
TypeOK ==
  /\ {sendCh, wire} \subseteq [Node -> Seq(Message)]
  /\ writer \in [Node -> [at: {"select", "encode", "returned"}, msg: Message \cup {Idle}]]
  /\ reader \in [Node -> {"decode", "close", "returned"}]
  /\ {quit, alive} \subseteq [Node -> BOOLEAN] /\ {down, greeted} \subseteq BOOLEAN
  /\ {pings, blocks} \subseteq [Node -> Nat]
  /\ dropped \in [Node -> SUBSET Nat] /\ got \in [Node -> Seq(Nat)]
  /\ \A n \in Node :
       /\ Len(sendCh[n]) <= SendCap /\ Len(wire[n]) <= WireCap
       /\ writer[n].at = "encode" => writer[n].msg \in Message
       /\ pings[n] <= MaxPings[n] /\ blocks[n] <= MaxBlocks[n]
       /\ dropped[n] \subseteq 1 .. blocks[n]

IsBlock(m) == m.type = "newBlock"

Encoding(n) == IF writer[n].at = "encode" THEN <<writer[n].msg>> ELSE <<>>

\* What n sends is on its way in this order: the wire, the writer, the channel.
Way(n) == wire[n] \o Encoding(n) \o sendCh[n]

\* The blocks of n on their way.
OnTheWay(n) == {m.num : m \in {k \in ToSet(Way(n)) : IsBlock(k)}}

\* A node is handed the blocks of the other in the order of their broadcast and
\* none twice, whatever was dropped and wherever the connection broke; and those on
\* the way will not break the order.
InOrderOnce ==
  \A n \in Node :
    LET g == got[Other(n)]
        way == Way(n)
    IN  /\ \A i, j \in DOMAIN g : i < j => g[i] < g[j]
        /\ \A i, j \in DOMAIN way :
             i < j /\ IsBlock(way[i]) /\ IsBlock(way[j]) => way[i].num < way[j].num
        /\ \A i \in DOMAIN g, j \in DOMAIN way : IsBlock(way[j]) => g[i] < way[j].num

\* While the connection stands, every block broadcast is handed over, on its way,
\* or was dropped by a full send channel: no other loss.
NothingElseLost ==
  ~down =>
    \A n \in Node : 1 .. blocks[n] \subseteq ToSet(got[Other(n)]) \cup OnTheWay(n) \cup dropped[n]

\* The two ends never wait for each other: what is on the way arrives, though both
\* wires and both channels may be full at once, unless the connection goes down.  No
\* deadline has to break a tie.
WireDrains ==
  \A n \in Node : Way(n) # <<>> ~> down \/ Way(n) = <<>>

\* When the connection is down, readLoop and writeLoop of a node return and quit is
\* closed, which pingLoop waits for, unless a second Close has ended the process.
LoopsReturn ==
  down ~> \A n \in Node :
            ~alive[n] \/ (writer[n].at = "returned" /\ reader[n] = "returned" /\ quit[n])
=============================================================================

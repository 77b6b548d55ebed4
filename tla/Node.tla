-------------------------------- MODULE Node --------------------------------
(***************************************************************************)
(* The process of main.go: runNode, the loop of consensus.PoSEngine, and   *)
(* the WebSocket side of rpc.Server.                                       *)
(*                                                                         *)
(* The engine makes a block per tick, inserts it into the chain and calls  *)
(* the function of OnNewBlock, which is BroadcastWS.  Every client of      *)
(* /api/ws has a handler, which reads until its connection breaks, and a   *)
(* writer that sends what BroadcastWS put into the client's channel.  A    *)
(* signal stops the engine and the RPC server, and runNode returns.        *)
(*                                                                         *)
(* The chain is its height: the engine is the only caller of InsertBlock   *)
(* in the process.  Module Chain is about the insertion itself.            *)
(***************************************************************************)
EXTENDS Naturals, Sequences, FiniteSets, SequencesExt

CONSTANTS Client,     \* connections to /api/ws
          ChanCap,    \* capacity of a subscriber's channel
          MaxHeight   \* bound on the blocks produced

ASSUME NodeAssumption == ChanCap \in Nat \ {0} /\ MaxHeight \in Nat /\ IsFiniteSet(Client)

VARIABLES
  main,      \* runNode: its select, between Stop and Shutdown, or how it ended
  http,      \* Server.httpServer: nil, set, listening, or shut down
  quit,      \* PoSEngine.quit is closed
  engine,    \* PoSEngine.loop: its select, in produceBlock, or returned
  next,      \* the block produceBlock works on
  tick,      \* a tick waits in the ticker's channel
  height,    \* Chain.Height
  handler,   \* handleWS of each client
  conn,      \* the client's connection
  subs,      \* Server.subs
  wsActive,  \* Server.wsActive
  ch,        \* subscriber.ch of each client
  got,       \* history: the blocks each client was told of
  since,     \* history: the height that was announced when the client subscribed
  missed     \* history: the blocks that did not fit into the client's channel

vars == <<main, http, quit, engine, next, tick, height, handler, conn, subs, wsActive, ch,
          got, since, missed>>

engineVars == <<engine, next, tick, height>>
wsVars == <<handler, conn, subs, wsActive, ch, got, since, missed>>

Init ==
  /\ main = "select"
  /\ http = "nil"
  /\ quit = FALSE
  /\ engine = "select"
  /\ next = 0
  /\ tick = FALSE
  /\ height = 0
  /\ handler = [c \in Client |-> "none"]
  /\ conn = [c \in Client |-> "none"]
  /\ subs = {}
  /\ wsActive = 0
  /\ ch = [c \in Client |-> <<>>]
  /\ got = [c \in Client |-> <<>>]
  /\ since = [c \in Client |-> 0]
  /\ missed = [c \in Client |-> {}]

\* runNode has not returned and nothing has panicked.
Runs == main \in {"select", "stopped"}

----------------------------------------------------------------------------
(***************************************************************************)
(* PoSEngine                                                               *)
(***************************************************************************)

\* The ticker drops a tick that finds one waiting.
Tick ==
  /\ Runs /\ engine # "returned"
  /\ tick' = TRUE
  /\ UNCHANGED <<main, http, quit, engine, next, height, wsVars>>

\* The select takes the tick, even if quit is closed too; produceBlock reads the
\* head.
StartBlock ==
  /\ Runs /\ engine = "select" /\ tick
  /\ height < MaxHeight
  /\ tick' = FALSE
  /\ next' = height + 1
  /\ engine' = "produce"
  /\ UNCHANGED <<main, http, quit, height, wsVars>>

\* Mutant of InsertBlock: a block that is refused is announced all the same.
InsertBlockRefused ==
  /\ Runs /\ engine = "produce"
  /\ engine' = "announce"
  /\ UNCHANGED <<main, http, quit, next, tick, height, wsVars>>

\* InsertBlock: the parent is the head, for nobody else inserts.
InsertBlock ==
  /\ Runs /\ engine = "produce"
  /\ height' = next
  /\ engine' = "announce"
  /\ UNCHANGED <<main, http, quit, next, tick, wsVars>>

\* The last block that the engine has announced.
Announced == IF engine = "announce" THEN height - 1 ELSE height

\* Mutants of Tell: it knows no capacity; it waits for room in every channel; it
\* makes room by dropping the oldest block.
TellUnbounded ==
  /\ ch' = [c \in Client |-> IF c \in subs THEN Append(ch[c], next) ELSE ch[c]]
  /\ UNCHANGED missed

TellWaiting ==
  /\ \A c \in subs : Len(ch[c]) < ChanCap
  /\ ch' = [c \in Client |-> IF c \in subs THEN Append(ch[c], next) ELSE ch[c]]
  /\ UNCHANGED missed

TellLatest ==
  /\ ch' = [c \in Client |-> IF c \notin subs THEN ch[c]
                             ELSE IF Len(ch[c]) < ChanCap THEN Append(ch[c], next)
                             ELSE Append(Tail(ch[c]), next)]
  /\ UNCHANGED missed

\* BroadcastWS, under subsMu: a full channel does without the block.
Tell ==
  /\ ch' = [c \in Client |-> IF c \in subs /\ Len(ch[c]) < ChanCap
                             THEN Append(ch[c], next) ELSE ch[c]]
  /\ missed' = [c \in Client |-> IF c \in subs /\ Len(ch[c]) = ChanCap
                                 THEN missed[c] \cup {next} ELSE missed[c]]

Announce ==
  /\ Runs /\ engine = "announce"
  /\ Tell
  /\ engine' = "select"
  /\ UNCHANGED <<main, http, quit, next, tick, height, handler, conn, subs, wsActive, got, since>>

EngineQuit ==
  /\ Runs /\ engine = "select" /\ quit
  /\ engine' = "returned"
  /\ UNCHANGED <<main, http, quit, next, tick, height, wsVars>>

----------------------------------------------------------------------------
(***************************************************************************)
(* Server.handleWS                                                         *)
(***************************************************************************)

\* A client connects and is counted.
Upgrade(c) ==
  /\ Runs /\ http = "listening"
  /\ handler[c] = "none"
  /\ handler' = [handler EXCEPT ![c] = "counted"]
  /\ conn' = [conn EXCEPT ![c] = "open"]
  /\ wsActive' = wsActive + 1
  /\ UNCHANGED <<main, http, quit, engineVars, subs, ch, got, since, missed>>

\* Its channel goes into subs, under subsMu, and its writer starts.
Subscribe(c) ==
  /\ Runs /\ handler[c] = "counted"
  /\ handler' = [handler EXCEPT ![c] = "reading"]
  /\ subs' = subs \cup {c}
  /\ since' = [since EXCEPT ![c] = Announced]
  /\ UNCHANGED <<main, http, quit, engineVars, conn, wsActive, ch, got, missed>>

\* The client goes away, or the network does.
Break(c) ==
  /\ Runs /\ conn[c] = "open"
  /\ conn' = [conn EXCEPT ![c] = "broken"]
  /\ UNCHANGED <<main, http, quit, engineVars, handler, subs, wsActive, ch, got, since, missed>>

\* ReadMessage fails: first the counter goes down.
Uncount(c) ==
  /\ Runs /\ handler[c] = "reading" /\ conn[c] = "broken"
  /\ handler' = [handler EXCEPT ![c] = "uncounted"]
  /\ wsActive' = wsActive - 1
  /\ UNCHANGED <<main, http, quit, engineVars, conn, subs, ch, got, since, missed>>

\* Mutant of Unsubscribe: the channel stays in subs.
UnsubscribeNothing(c) ==
  /\ Runs /\ handler[c] = "uncounted"
  /\ handler' = [handler EXCEPT ![c] = "returned"]
  /\ UNCHANGED <<main, http, quit, engineVars, conn, subs, wsActive, ch, got, since, missed>>

\* Then the channel leaves subs.  Nobody closes it, so the writer waits on.
Unsubscribe(c) ==
  /\ Runs /\ handler[c] = "uncounted"
  /\ handler' = [handler EXCEPT ![c] = "returned"]
  /\ subs' = subs \ {c}
  /\ UNCHANGED <<main, http, quit, engineVars, conn, wsActive, ch, got, since, missed>>

\* The writer takes the next block and sends it; the error of a broken connection
\* is dropped with the block.
Write(c) ==
  /\ Runs /\ ch[c] # <<>>
  /\ ch' = [ch EXCEPT ![c] = Tail(@)]
  /\ got' = IF conn[c] = "open" THEN [got EXCEPT ![c] = Append(@, Head(ch[c]))] ELSE got
  /\ UNCHANGED <<main, http, quit, engineVars, handler, conn, subs, wsActive, since, missed>>

----------------------------------------------------------------------------
(***************************************************************************)
(* runNode and Server.Start                                                *)
(***************************************************************************)

\* The goroutine of rpcSrv.Start sets httpServer, and then it listens.
SetServer ==
  /\ Runs /\ http = "nil"
  /\ http' = "set"
  /\ UNCHANGED <<main, quit, engineVars, wsVars>>

Listen ==
  /\ Runs /\ http = "set"
  /\ http' = "listening"
  /\ UNCHANGED <<main, quit, engineVars, wsVars>>

\* ListenAndServe fails, at once or later: its error arrives on errCh.
ListenFails ==
  /\ main = "select" /\ http \in {"set", "listening"}
  /\ main' = "failed"
  /\ UNCHANGED <<http, quit, engineVars, wsVars>>

\* A signal: engine.Stop().
SignalStop ==
  /\ main = "select"
  /\ main' = "stopped"
  /\ quit' = TRUE
  /\ UNCHANGED <<http, engineVars, wsVars>>

\* rpcSrv.Shutdown: it waits for requests at most five seconds, and not for
\* WebSockets; runNode returns and the process is gone.
Shutdown ==
  /\ main = "stopped" /\ http # "nil"
  /\ http' = "shut"
  /\ main' = "returned"
  /\ UNCHANGED <<quit, engineVars, wsVars>>

\* Shutdown when Start has not set httpServer yet: a nil pointer.
ShutdownPanics ==
  /\ main = "stopped" /\ http = "nil"
  /\ main' = "panicked"
  /\ UNCHANGED <<http, quit, engineVars, wsVars>>

----------------------------------------------------------------------------

EngineStep == StartBlock \/ InsertBlock \/ Announce \/ EngineQuit

HandlerStep(c) == Subscribe(c) \/ Uncount(c) \/ Unsubscribe(c)

Next ==
  \/ Tick \/ EngineStep
  \/ \E c \in Client : Upgrade(c) \/ HandlerStep(c) \/ Break(c) \/ Write(c)
  \/ SetServer \/ Listen \/ ListenFails
  \/ SignalStop \/ Shutdown \/ ShutdownPanics

\* Goroutines that can run do, and time passes.  A writer may be held up by its
\* client for ever (it sets no deadline), and no client, signal or failure has to come.
Fairness ==
  /\ WF_vars(Tick)
  /\ WF_vars(EngineStep)
  /\ \A c \in Client : WF_vars(HandlerStep(c))
  /\ WF_vars(SetServer \/ Listen)

Spec == Init /\ [][Next]_vars /\ Fairness

----------------------------------------------------------------------------
(***************************************************************************)
(* Properties                                                              *)
(***************************************************************************)

\* Types, and the capacity of the channels.
TypeOK ==
  /\ main \in {"select", "stopped", "returned", "failed", "panicked"}
  /\ http \in {"nil", "set", "listening", "shut"}
  /\ engine \in {"select", "produce", "announce", "returned"}
  /\ {quit, tick} \subseteq BOOLEAN
  /\ {next, height} \subseteq 0 .. MaxHeight
  /\ handler \in [Client -> {"none", "counted", "reading", "uncounted", "returned"}]
  /\ conn \in [Client -> {"none", "open", "broken"}]
  /\ subs \subseteq Client /\ wsActive \in 0 .. Cardinality(Client)
  /\ \A c \in Client :
       /\ ch[c] \in Seq(1 .. MaxHeight) /\ Len(ch[c]) <= ChanCap
       /\ got[c] \in Seq(1 .. MaxHeight)
       /\ since[c] \in 0 .. MaxHeight /\ missed[c] \subseteq 1 .. MaxHeight

\* A subscriber learns of every block from its subscription on, in order and once,
\* but for blocks that found its channel full: the blocks it was told of, followed
\* by those in its channel, are an increasing sequence that together with the
\* missed ones leaves no gap.
StreamComplete ==
  \A c \in Client :
    LET s == got[c] \o ch[c] IN
      /\ \A i \in 1 .. Len(s) - 1 : s[i] < s[i + 1]
      /\ handler[c] = "reading" /\ conn[c] = "open" =>
           ToSet(s) \cup missed[c] = since[c] + 1 .. Announced

\* A block that a client was told of is in the chain: whoever asks for it right
\* away finds it.
ToldIsServed == \A c \in Client : \A i \in DOMAIN got[c] : got[c][i] <= height

\* "Current active WebSocket subscriptions": but for handlers between their two
\* steps, the gauge is the number of channels that BroadcastWS fills, and each of
\* them has a handler that reads.
GaugeExact ==
  (\A c \in Client : handler[c] \in {"none", "reading", "returned"}) =>
    /\ wsActive = Cardinality(subs)
    /\ subs = {c \in Client : handler[c] = "reading"}

\* The engine never waits for a client: whatever the writers do, a block that is
\* started is announced, unless the process ends.
EngineGoesOn == engine \in {"produce", "announce"} ~> engine \in {"select", "returned"} \/ ~Runs
=============================================================================

----------------------------- MODULE NodeProofs -----------------------------
(***************************************************************************)
(* Proofs about Node, for any clients, channels and number of blocks.      *)
(***************************************************************************)
EXTENDS Node, Lemmas, FiniteSetTheorems, TLAPS

\* The numbers of the blocks that were told or wait in a channel are heights that
\* the chain has.
Served(s) == s \in Seq(Nat) /\ \A i \in DOMAIN s : s[i] <= height

\* The block of the engine: the one after the head until it is inserted, and the
\* head until it is announced.
EngineInv ==
  /\ height \in Nat /\ next \in Nat
  /\ engine \in {"select", "produce", "announce", "returned"}
  /\ engine = "produce" => next = height + 1
  /\ engine = "announce" => next = height

ToldInv ==
  /\ EngineInv
  /\ DOMAIN ch = Client /\ DOMAIN got = Client
  /\ \A c \in Client : Served(ch[c]) /\ Served(got[c])

LEMMA ToldInvInit == Init => ToldInv
BY DEF Init, ToldInv, EngineInv, Served

\* What was served is served at any greater height.
LEMMA ServedGrows ==
  ASSUME NEW s, Served(s), height \in Nat, height' \in Nat, height <= height'
  PROVE  s \in Seq(Nat) /\ \A i \in DOMAIN s : s[i] <= height'
<1>1. \A i \in DOMAIN s : s[i] \in Nat
  BY DEF Served
<1> QED  BY <1>1 DEF Served

LEMMA AppendServed ==
  ASSUME NEW s, Served(s), NEW n \in Nat, n <= height
  PROVE  Served(Append(s, n))
BY DEF Served

LEMMA TailServed ==
  ASSUME NEW s, Served(s), s # <<>>, height \in Nat
  PROVE  Served(Tail(s)) /\ Head(s) \in Nat /\ Head(s) <= height
<1>1. s \in Seq(Nat) /\ Len(s) >= 1
  BY DEF Served
<1>2. Head(s) = s[1] /\ 1 \in DOMAIN s
  BY <1>1
<1>3. \A i \in DOMAIN Tail(s) : Tail(s)[i] = s[i + 1] /\ i + 1 \in DOMAIN s
  BY <1>1
<1>4. Tail(s) \in Seq(Nat)
  BY <1>1
<1> QED  BY <1>1, <1>2, <1>3, <1>4 DEF Served

LEMMA ToldInvNext == ToldInv /\ [Next]_vars => ToldInv'
<1> SUFFICES ASSUME ToldInv, [Next]_vars PROVE ToldInv'
  OBVIOUS
\* A step that leaves the height and the channels alone keeps what is in them.
<1> DEFINE Quiet == UNCHANGED <<height, ch, got>>
<1>0. ASSUME Quiet, EngineInv' PROVE ToldInv'
  BY <1>0 DEF ToldInv, Served
<1>1. CASE StartBlock
  BY <1>1, <1>0 DEF StartBlock, wsVars, ToldInv, EngineInv
<1>2. CASE InsertBlock
  <2>1. EngineInv' /\ height \in Nat /\ height' \in Nat /\ height <= height'
    BY <1>2 DEF InsertBlock, ToldInv, EngineInv
  <2>2. ch' = ch /\ got' = got
    BY <1>2 DEF InsertBlock, wsVars
  <2>3. \A c \in Client : Served(ch[c])' /\ Served(got[c])'
    BY <2>1, <2>2, ServedGrows DEF ToldInv, Served
  <2> QED  BY <2>1, <2>2, <2>3 DEF ToldInv
<1>3. CASE Announce
  <2>1. EngineInv' /\ height' = height /\ got' = got /\ next \in Nat /\ next <= height
    BY <1>3 DEF Announce, ToldInv, EngineInv
  <2>2. DOMAIN ch' = Client /\ \A c \in Client : ch'[c] \in {ch[c], Append(ch[c], next)}
    BY <1>3 DEF Announce, Tell
  <2>3. \A c \in Client : Served(ch'[c]) /\ Served(got[c])
    BY <2>1, <2>2, AppendServed DEF ToldInv
  <2> QED  BY <2>1, <2>2, <2>3 DEF ToldInv, Served
<1>4. CASE EngineQuit
  BY <1>4, <1>0 DEF EngineQuit, wsVars, ToldInv, EngineInv
<1>5. ASSUME NEW c \in Client, Write(c) PROVE ToldInv'
  <2>1. EngineInv' /\ height' = height /\ height \in Nat
    BY <1>5 DEF Write, engineVars, ToldInv, EngineInv
  <2>2. Served(Tail(ch[c])) /\ Head(ch[c]) \in Nat /\ Head(ch[c]) <= height
    BY <1>5, <2>1, TailServed DEF Write, ToldInv
  <2>3. Served(Append(got[c], Head(ch[c])))
    BY <2>2, AppendServed DEF ToldInv
  <2>4. /\ DOMAIN ch' = Client /\ DOMAIN got' = Client
        /\ \A d \in Client : /\ ch'[d] = IF d = c THEN Tail(ch[c]) ELSE ch[d]
                             /\ got'[d] \in {got[d], IF d = c THEN Append(got[c], Head(ch[c])) ELSE got[d]}
    BY <1>5 DEF Write, ToldInv
  <2>5. \A d \in Client : Served(ch'[d]) /\ Served(got'[d])
    BY <2>2, <2>3, <2>4 DEF ToldInv
  <2> QED  BY <2>1, <2>4, <2>5 DEF ToldInv, Served
<1>6. ASSUME NEW c \in Client, Upgrade(c) \/ HandlerStep(c) \/ Break(c) PROVE ToldInv'
  BY <1>6, <1>0 DEF Upgrade, HandlerStep, Subscribe, Uncount, Unsubscribe, Break, engineVars, ToldInv, EngineInv
<1>7. CASE Tick \/ SetServer \/ Listen \/ ListenFails \/ SignalStop \/ Shutdown \/ ShutdownPanics
  BY <1>7, <1>0 DEF Tick, SetServer, Listen, ListenFails, SignalStop, Shutdown, ShutdownPanics,
                    engineVars, wsVars, ToldInv, EngineInv
<1>8. CASE UNCHANGED vars
  BY <1>8, <1>0 DEF vars, ToldInv, EngineInv
<1> QED  BY <1>1, <1>2, <1>3, <1>4, <1>5, <1>6, <1>7, <1>8 DEF Next, EngineStep

\* A client that was told of a block finds it in the chain at once: however many
\* clients there are, however slow, and wherever the process stands.
THEOREM ToldCorrect == Spec => []ToldIsServed
<1>1. ToldInv => ToldIsServed
  BY DEF ToldInv, ToldIsServed, Served
<1> QED  BY <1>1, ToldInvInit, ToldInvNext, PTL DEF Spec

----------------------------------------------------------------------------
(***************************************************************************)
(* The gauge                                                               *)
(***************************************************************************)

\* The clients that the counter counts: from Upgrade to Uncount.
Counted == {c \in Client : handler[c] \in {"counted", "reading"}}

\* GaugeExact says nothing of a handler between two of its steps; this does.
GaugeInv ==
  /\ handler \in [Client -> {"none", "counted", "reading", "uncounted", "returned"}]
  /\ subs = {c \in Client : handler[c] \in {"reading", "uncounted"}}
  /\ wsActive = Cardinality(Counted)

LEMMA GaugeInvInit == Init => GaugeInv
<1> SUFFICES ASSUME Init PROVE GaugeInv
  OBVIOUS
<1>1. Counted = {}
  BY DEF Init, Counted
<1> QED  BY <1>1, FS_EmptySet DEF Init, GaugeInv

LEMMA GaugeInvNext == GaugeInv /\ [Next]_vars => GaugeInv'
<1> SUFFICES ASSUME GaugeInv, [Next]_vars PROVE GaugeInv'
  OBVIOUS
<1>0. IsFiniteSet(Counted)
  BY NodeAssumption, FS_Subset DEF Counted
<1>1. ASSUME UNCHANGED <<handler, subs, wsActive>> PROVE GaugeInv'
  BY <1>1 DEF GaugeInv, Counted
<1>2. ASSUME NEW c \in Client, Upgrade(c) PROVE GaugeInv'
  <2>1. Counted' = Counted \cup {c} /\ c \notin Counted
    BY <1>2 DEF Upgrade, Counted, GaugeInv
  <2>2. wsActive' = Cardinality(Counted')
    BY <1>0, <1>2, <2>1, FS_AddElement DEF Upgrade, GaugeInv
  <2> QED  BY <1>2, <2>2 DEF Upgrade, GaugeInv
<1>3. ASSUME NEW c \in Client, Subscribe(c) PROVE GaugeInv'
  <2>1. Counted' = Counted
    BY <1>3 DEF Subscribe, Counted, GaugeInv
  <2> QED  BY <1>3, <2>1 DEF Subscribe, GaugeInv
<1>4. ASSUME NEW c \in Client, Uncount(c) PROVE GaugeInv'
  <2>1. Counted' = Counted \ {c} /\ c \in Counted
    BY <1>4 DEF Uncount, Counted, GaugeInv
  <2>2. wsActive' = Cardinality(Counted')
    BY <1>0, <1>4, <2>1, FS_RemoveElement DEF Uncount, GaugeInv
  <2> QED  BY <1>4, <2>2 DEF Uncount, GaugeInv
<1>5. ASSUME NEW c \in Client, Unsubscribe(c) PROVE GaugeInv'
  <2>1. Counted' = Counted
    BY <1>5 DEF Unsubscribe, Counted, GaugeInv
  <2> QED  BY <1>5, <2>1 DEF Unsubscribe, GaugeInv
<1>6. ASSUME NEW c \in Client, Break(c) \/ Write(c) PROVE GaugeInv'
  BY <1>6, <1>1 DEF Break, Write
<1>7. CASE Tick \/ EngineStep
  BY <1>7, <1>1 DEF Tick, EngineStep, StartBlock, InsertBlock, Announce, EngineQuit, wsVars
<1>8. CASE SetServer \/ Listen \/ ListenFails \/ SignalStop \/ Shutdown \/ ShutdownPanics
  BY <1>8, <1>1 DEF SetServer, Listen, ListenFails, SignalStop, Shutdown, ShutdownPanics, wsVars
<1>9. CASE UNCHANGED vars
  BY <1>9, <1>1 DEF vars
<1> QED  BY <1>2, <1>3, <1>4, <1>5, <1>6, <1>7, <1>8, <1>9 DEF Next, HandlerStep

\* The gauge of active subscriptions never drifts: whenever no handler is between
\* two of its steps, it is the number of channels that BroadcastWS fills.
THEOREM GaugeCorrect == Spec => []GaugeExact
<1>1. GaugeInv => GaugeExact
  <2> SUFFICES ASSUME GaugeInv, \A c \in Client : handler[c] \in {"none", "reading", "returned"}
               PROVE  /\ wsActive = Cardinality(subs)
                      /\ subs = {c \in Client : handler[c] = "reading"}
    BY DEF GaugeExact
  <2>1. subs = Counted /\ subs = {c \in Client : handler[c] = "reading"}
    BY DEF GaugeInv, Counted
  <2> QED  BY <2>1 DEF GaugeInv
<1> QED  BY <1>1, GaugeInvInit, GaugeInvNext, PTL DEF Spec

----------------------------------------------------------------------------
(***************************************************************************)
(* Types and the stream of a client                                        *)
(***************************************************************************)

\* The places of the goroutines and the state of the connections.
PlacesOK ==
  /\ main \in {"select", "stopped", "returned", "failed", "panicked"}
  /\ http \in {"nil", "set", "listening", "shut"}
  /\ quit \in BOOLEAN /\ tick \in BOOLEAN
  /\ conn \in [Client -> {"none", "open", "broken"}]

LEMMA PlacesInit == Init => PlacesOK
BY DEF Init, PlacesOK

LEMMA PlacesNext == PlacesOK /\ [Next]_vars => PlacesOK'
<1> SUFFICES ASSUME PlacesOK, [Next]_vars PROVE PlacesOK'
  OBVIOUS
<1>1. CASE Tick \/ EngineStep
  BY <1>1 DEF PlacesOK, Tick, EngineStep, StartBlock, InsertBlock, Announce, EngineQuit, wsVars
<1>2. ASSUME NEW c \in Client, Upgrade(c) \/ HandlerStep(c) \/ Break(c) \/ Write(c) PROVE PlacesOK'
  BY <1>2 DEF PlacesOK, Upgrade, HandlerStep, Subscribe, Uncount, Unsubscribe, Break, Write, engineVars
<1>3. CASE SetServer \/ Listen \/ ListenFails \/ SignalStop \/ Shutdown \/ ShutdownPanics
  BY <1>3 DEF PlacesOK, SetServer, Listen, ListenFails, SignalStop, Shutdown, ShutdownPanics,
              engineVars, wsVars
<1>4. CASE UNCHANGED vars
  BY <1>4 DEF PlacesOK, vars
<1> QED  BY <1>1, <1>2, <1>3, <1>4 DEF Next

\* The engine's numbers: a block is announced only after it was made, and none is made
\* beyond the bound.
HeightInv ==
  /\ EngineInv
  /\ height <= MaxHeight /\ next <= MaxHeight
  /\ engine = "announce" => height >= 1

LEMMA HeightInvInit == Init => HeightInv
BY NodeAssumption DEF Init, HeightInv, EngineInv

LEMMA HeightInvNext == HeightInv /\ [Next]_vars => HeightInv'
<1> SUFFICES ASSUME HeightInv, [Next]_vars PROVE HeightInv'
  OBVIOUS
<1>1. CASE Tick \/ EngineStep
  BY <1>1, NodeAssumption DEF HeightInv, EngineInv, Tick, EngineStep, StartBlock, InsertBlock, Announce, EngineQuit
<1>2. ASSUME NEW c \in Client, Upgrade(c) \/ HandlerStep(c) \/ Break(c) \/ Write(c) PROVE HeightInv'
  BY <1>2 DEF HeightInv, EngineInv, Upgrade, HandlerStep, Subscribe, Uncount, Unsubscribe, Break, Write, engineVars
<1>3. CASE SetServer \/ Listen \/ ListenFails \/ SignalStop \/ Shutdown \/ ShutdownPanics
  BY <1>3 DEF HeightInv, EngineInv, SetServer, Listen, ListenFails, SignalStop, Shutdown,
              ShutdownPanics, engineVars
<1>4. CASE UNCHANGED vars
  BY <1>4 DEF HeightInv, EngineInv, vars
<1> QED  BY <1>1, <1>2, <1>3, <1>4 DEF Next

\* What a client was told of (told) comes before what waits for it (waits); neither
\* goes beyond the block top, nor does what it missed (lost) or its start (from).
Ordered(told, waits, from, lost, top) ==
  /\ Rising(told, top) /\ Rising(waits, top) /\ Before(told, waits)
  /\ Len(waits) <= ChanCap
  /\ from \in 0 .. top /\ lost \subseteq 1 .. top

\* StreamComplete, with what holds before a client subscribes and after it went.
StreamInv ==
  /\ /\ DOMAIN ch = Client /\ DOMAIN got = Client
     /\ DOMAIN since = Client /\ DOMAIN missed = Client
  /\ \A c \in Client :
       /\ Ordered(got[c], ch[c], since[c], missed[c], Announced)
       /\ handler[c] \in {"none", "counted"} => got[c] = <<>> /\ ch[c] = <<>> /\ missed[c] = {}
       /\ handler[c] = "reading" /\ conn[c] = "open" =>
            ToSet(got[c]) \cup ToSet(ch[c]) \cup missed[c] = since[c] + 1 .. Announced

LEMMA StreamInvInit == Init => StreamInv
<1> SUFFICES ASSUME Init PROVE StreamInv
  OBVIOUS
<1>1. Announced = 0
  BY DEF Init, Announced
<1>2. Ordered(<<>>, <<>>, 0, {}, 0)
  BY RisingEmpty, NodeAssumption DEF Ordered
<1> QED  BY <1>1, <1>2 DEF Init, StreamInv

\* The last announced block, and how a step changes it.
LEMMA AnnouncedFacts ==
  ASSUME HeightInv, [Next]_vars
  PROVE  /\ Announced \in Nat /\ Announced <= MaxHeight
         /\ ~Announce => Announced' = Announced
         /\ Announce => next = Announced + 1 /\ Announced' = Announced + 1
<1>1. Announced \in Nat /\ Announced <= MaxHeight
  BY NodeAssumption DEF HeightInv, EngineInv, Announced
<1>2. ASSUME UNCHANGED <<engine, height>> PROVE Announced' = Announced
  BY <1>2 DEF Announced
<1>4. ASSUME StartBlock \/ InsertBlock \/ EngineQuit
      PROVE  Announced' = Announced
  BY <1>4 DEF StartBlock, InsertBlock, EngineQuit, Announced, HeightInv, EngineInv
<1>5. ASSUME Tick \/ UNCHANGED vars
      PROVE  Announced' = Announced
  BY <1>2, <1>5 DEF Tick, vars
<1>6. ASSUME NEW c \in Client, Upgrade(c) \/ HandlerStep(c) \/ Break(c) \/ Write(c) PROVE Announced' = Announced
  BY <1>2, <1>6 DEF Upgrade, HandlerStep, Subscribe, Uncount, Unsubscribe, Break, Write, engineVars
<1>7. ASSUME SetServer \/ Listen \/ ListenFails \/ SignalStop \/ Shutdown \/ ShutdownPanics
      PROVE  Announced' = Announced
  BY <1>2, <1>7 DEF SetServer, Listen, ListenFails, SignalStop, Shutdown, ShutdownPanics, engineVars
<1>8. ASSUME ~Announce PROVE Announced' = Announced
  BY <1>4, <1>5, <1>6, <1>7, <1>8 DEF Next, EngineStep
<1>9. Announce => next = Announced + 1 /\ Announced' = Announced + 1
  BY DEF Announce, Announced, HeightInv, EngineInv
<1> QED  BY <1>1, <1>8, <1>9

LEMMA StreamInvNext ==
  ASSUME PlacesOK, HeightInv, GaugeInv, StreamInv, [Next]_vars
  PROVE  StreamInv'
<1> DEFINE top == Announced
<1>0. top \in Nat /\ (~Announce => Announced' = top)
  BY AnnouncedFacts
\* The client c keeps its place in the stream.
<1> DEFINE Keeps(c) ==
      /\ Ordered(got'[c], ch'[c], since'[c], missed'[c], Announced')
      /\ handler'[c] \in {"none", "counted"} => got'[c] = <<>> /\ ch'[c] = <<>> /\ missed'[c] = {}
      /\ handler'[c] = "reading" /\ conn'[c] = "open" =>
           ToSet(got'[c]) \cup ToSet(ch'[c]) \cup missed'[c] = since'[c] + 1 .. Announced'
<1>1. ASSUME ~Announce, UNCHANGED <<ch, got, since, missed, handler, conn>> PROVE StreamInv'
  BY <1>0, <1>1 DEF StreamInv
<1>2. CASE Announce
  <2> DEFINE Full(c) == Len(ch[c]) = ChanCap
  <2>1. /\ next = top + 1 /\ Announced' = top + 1
        /\ UNCHANGED <<got, since, handler, conn>>
    BY <1>2, AnnouncedFacts DEF Announce
  <2>2. /\ ch' = [c \in Client |-> IF c \in subs /\ Len(ch[c]) < ChanCap
                                   THEN Append(ch[c], next) ELSE ch[c]]
        /\ missed' = [c \in Client |-> IF c \in subs /\ Len(ch[c]) = ChanCap
                                       THEN missed[c] \cup {next} ELSE missed[c]]
    BY <1>2 DEF Announce, Tell
  <2>3. ASSUME NEW c \in Client PROVE Keeps(c)
    <3>1. /\ Rising(got[c], top) /\ Rising(ch[c], top) /\ Before(got[c], ch[c])
          /\ Len(ch[c]) <= ChanCap /\ Len(ch[c]) \in Nat /\ ch[c] \in Seq(1 .. top)
          /\ since[c] \in 0 .. top /\ missed[c] \subseteq 1 .. top
      BY DEF StreamInv, Ordered, Rising
    <3>2. Rising(got[c], top + 1) /\ Rising(ch[c], top + 1)
      BY <1>0, <3>1, RisingBound
    <3>3. CASE c \in subs /\ Len(ch[c]) < ChanCap
      <4>1. ch'[c] = Append(ch[c], top + 1) /\ missed'[c] = missed[c]
        BY <2>1, <2>2, <3>3, NodeAssumption
      <4>2. Rising(ch'[c], top + 1) /\ ToSet(ch'[c]) = ToSet(ch[c]) \cup {top + 1}
        <5>1. top + 1 \in 1 .. top + 1 /\ top <= top + 1 /\ top + 1 \in Nat
          BY <1>0
        <5>2. \A i \in DOMAIN ch[c] : ch[c][i] < top + 1
          BY <1>0, <3>1
        <5> QED  BY <1>0, <3>1, <4>1, <5>1, <5>2, RisingAppend
      <4>3. Before(got[c], ch'[c])
        <5>1. \A j \in DOMAIN ch'[c] : ch'[c][j] = top + 1 \/ (j \in DOMAIN ch[c] /\ ch'[c][j] = ch[c][j])
          BY <3>1, <4>1
        <5>2. \A i \in DOMAIN got[c] : got[c][i] < top + 1
          BY <1>0, <3>1 DEF Rising
        <5> QED  BY <3>1, <5>1, <5>2 DEF Before
      <4>4. Len(ch'[c]) <= ChanCap
        BY <3>1, <3>3, <4>1, NodeAssumption
      <4>5. Ordered(got'[c], ch'[c], since'[c], missed'[c], Announced')
        BY <1>0, <2>1, <3>1, <3>2, <4>1, <4>2, <4>3, <4>4 DEF Ordered
      <4>6. handler'[c] \notin {"none", "counted"}
        BY <2>1, <3>3 DEF GaugeInv
      <4>7. ASSUME handler'[c] = "reading", conn'[c] = "open"
            PROVE  ToSet(got'[c]) \cup ToSet(ch'[c]) \cup missed'[c] = since'[c] + 1 .. Announced'
        <5>1. ToSet(got[c]) \cup ToSet(ch[c]) \cup missed[c] = since[c] + 1 .. top
          BY <2>1, <4>7 DEF StreamInv
        <5>2. since[c] + 1 .. top + 1 = (since[c] + 1 .. top) \cup {top + 1}
          BY <1>0, <3>1
        <5> QED  BY <2>1, <4>1, <4>2, <5>1, <5>2
      <4> QED  BY <4>5, <4>6, <4>7
    <3>4. CASE c \in subs /\ Len(ch[c]) = ChanCap
      <4>1. ch'[c] = ch[c] /\ missed'[c] = missed[c] \cup {top + 1}
        BY <2>1, <2>2, <3>4, NodeAssumption
      <4>2. Ordered(got'[c], ch'[c], since'[c], missed'[c], Announced')
        BY <1>0, <2>1, <3>1, <3>2, <4>1 DEF Ordered
      <4>3. handler'[c] \notin {"none", "counted"}
        BY <2>1, <3>4 DEF GaugeInv
      <4>4. ASSUME handler'[c] = "reading", conn'[c] = "open"
            PROVE  ToSet(got'[c]) \cup ToSet(ch'[c]) \cup missed'[c] = since'[c] + 1 .. Announced'
        <5>1. ToSet(got[c]) \cup ToSet(ch[c]) \cup missed[c] = since[c] + 1 .. top
          BY <2>1, <4>4 DEF StreamInv
        <5>2. since[c] + 1 .. top + 1 = (since[c] + 1 .. top) \cup {top + 1}
          BY <1>0, <3>1
        <5> QED  BY <2>1, <4>1, <5>1, <5>2
      <4> QED  BY <4>2, <4>3, <4>4
    <3>5. CASE c \notin subs
      <4>1. ch'[c] = ch[c] /\ missed'[c] = missed[c] /\ handler'[c] # "reading"
        BY <2>1, <2>2, <3>5 DEF GaugeInv
      <4>2. Ordered(got'[c], ch'[c], since'[c], missed'[c], Announced')
        BY <1>0, <2>1, <3>1, <3>2, <4>1 DEF Ordered
      <4> QED  BY <2>1, <4>1, <4>2 DEF StreamInv
    <3> QED  BY <3>1, <3>3, <3>4, <3>5, NodeAssumption
  <2> QED  BY <2>1, <2>2, <2>3 DEF StreamInv
<1>3. ASSUME NEW c \in Client, Upgrade(c) PROVE StreamInv'
  <2>1. /\ ~Announce /\ UNCHANGED <<ch, got, since, missed>>
        /\ handler[c] = "none" /\ handler' = [handler EXCEPT ![c] = "counted"]
        /\ conn' = [conn EXCEPT ![c] = "open"]
    BY <1>3 DEF Upgrade, Announce, engineVars, HeightInv, EngineInv
  <2>2. \A d \in Client \ {c} : handler'[d] = handler[d] /\ conn'[d] = conn[d]
    BY <2>1 DEF GaugeInv
  <2>3. handler'[c] = "counted"
    BY <2>1 DEF GaugeInv
  <2> QED  BY <1>0, <2>1, <2>2, <2>3 DEF StreamInv
<1>4. ASSUME NEW c \in Client, Subscribe(c) PROVE StreamInv'
  <2>1. /\ ~Announce /\ UNCHANGED <<ch, got, missed, conn>>
        /\ handler[c] = "counted" /\ handler' = [handler EXCEPT ![c] = "reading"]
        /\ since' = [since EXCEPT ![c] = top]
    BY <1>4 DEF Subscribe, Announce, engineVars, HeightInv, EngineInv
  <2>2. \A d \in Client \ {c} : handler'[d] = handler[d] /\ since'[d] = since[d]
    BY <2>1 DEF GaugeInv, StreamInv
  <2>3. /\ got'[c] = <<>> /\ ch'[c] = <<>> /\ missed'[c] = {}
        /\ since'[c] = top /\ handler'[c] = "reading"
    BY <2>1 DEF StreamInv, GaugeInv
  <2>4. Ordered(<<>>, <<>>, top, {}, top)
    BY <1>0, RisingEmpty, NodeAssumption DEF Ordered
  <2>5. ToSet(<<>>) \cup ToSet(<<>>) \cup {} = top + 1 .. top
    BY <1>0, RisingEmpty
  <2>6. Keeps(c)
    BY <1>0, <2>1, <2>3, <2>4, <2>5
  <2>7. \A d \in Client \ {c} : Keeps(d)
    BY <1>0, <2>1, <2>2 DEF StreamInv
  <2>8. DOMAIN ch' = Client /\ DOMAIN got' = Client /\ DOMAIN since' = Client /\ DOMAIN missed' = Client
    BY <2>1 DEF StreamInv
  <2> QED  BY <2>6, <2>7, <2>8 DEF StreamInv
<1>5. ASSUME NEW c \in Client, Write(c) PROVE StreamInv'
  <2>1. /\ ~Announce /\ UNCHANGED <<handler, conn, since, missed>> /\ ch[c] # <<>>
        /\ ch' = [ch EXCEPT ![c] = Tail(ch[c])]
        /\ got' = IF conn[c] = "open" THEN [got EXCEPT ![c] = Append(got[c], Head(ch[c]))] ELSE got
    BY <1>5 DEF Write, Announce, engineVars, HeightInv, EngineInv
  <2>2. /\ \A d \in Client \ {c} : ch'[d] = ch[d] /\ got'[d] = got[d]
        /\ ch'[c] = Tail(ch[c])
        /\ got'[c] = IF conn[c] = "open" THEN Append(got[c], Head(ch[c])) ELSE got[c]
        /\ DOMAIN ch' = Client /\ DOMAIN got' = Client
    BY <2>1 DEF StreamInv
  <2>3. Ordered(got[c], ch[c], since[c], missed[c], top)
    BY DEF StreamInv
  <2>4. /\ Rising(Append(got[c], Head(ch[c])), top) /\ Rising(Tail(ch[c]), top)
        /\ Before(Append(got[c], Head(ch[c])), Tail(ch[c])) /\ Before(got[c], Tail(ch[c]))
        /\ ToSet(Append(got[c], Head(ch[c]))) \cup ToSet(Tail(ch[c])) = ToSet(got[c]) \cup ToSet(ch[c])
    <3>1. Rising(got[c], top) /\ Rising(ch[c], top) /\ Before(got[c], ch[c]) /\ ch[c] # <<>>
      BY <2>1, <2>3 DEF Ordered
    <3>2. \A s, t : Rising(s, top) /\ Rising(t, top) /\ Before(s, t) /\ t # <<>> =>
             /\ Rising(Append(s, Head(t)), top) /\ Rising(Tail(t), top)
             /\ Before(Append(s, Head(t)), Tail(t)) /\ Before(s, Tail(t))
             /\ ToSet(Append(s, Head(t))) \cup ToSet(Tail(t)) = ToSet(s) \cup ToSet(t)
      BY <1>0, HeadMoves
    <3> QED  BY <3>1, <3>2, Zenon
  <2>5. Len(Tail(ch[c])) <= ChanCap
    BY <2>1, <2>3, NodeAssumption DEF Ordered, Rising
  <2>6. Ordered(got'[c], ch'[c], since'[c], missed'[c], Announced')
    BY <1>0, <2>1, <2>2, <2>3, <2>4, <2>5 DEF Ordered
  <2>7. handler'[c] \notin {"none", "counted"}
    BY <2>1 DEF StreamInv
  <2>8. ASSUME handler'[c] = "reading", conn'[c] = "open"
        PROVE  ToSet(got'[c]) \cup ToSet(ch'[c]) \cup missed'[c] = since'[c] + 1 .. Announced'
    BY <1>0, <2>1, <2>2, <2>4, <2>8 DEF StreamInv
  <2>9. \A d \in Client \ {c} : Keeps(d)
    BY <1>0, <2>1, <2>2 DEF StreamInv
  <2> QED  BY <2>1, <2>2, <2>6, <2>7, <2>8, <2>9 DEF StreamInv
<1>6. ASSUME NEW c \in Client, Uncount(c) \/ Unsubscribe(c) \/ Break(c) PROVE StreamInv'
  <2>1. /\ ~Announce /\ UNCHANGED <<ch, got, since, missed>>
        /\ \A d \in Client \ {c} : handler'[d] = handler[d] /\ conn'[d] = conn[d]
        /\ handler'[c] \in {"none", "counted"} => handler[c] \in {"none", "counted"}
        /\ ~(handler'[c] = "reading" /\ conn'[c] = "open")
    BY <1>6 DEF Uncount, Unsubscribe, Break, Announce, engineVars, PlacesOK, GaugeInv, HeightInv, EngineInv
  <2> QED  BY <1>0, <2>1 DEF StreamInv
<1>7. CASE Tick \/ StartBlock \/ InsertBlock \/ EngineQuit
  <2>1. ~Announce
    BY <1>7 DEF Tick, StartBlock, InsertBlock, EngineQuit, Announce, HeightInv, EngineInv
  <2> QED  BY <1>1, <1>7, <2>1 DEF Tick, StartBlock, InsertBlock, EngineQuit, wsVars
<1>8. CASE SetServer \/ Listen \/ ListenFails \/ SignalStop \/ Shutdown \/ ShutdownPanics
  <2>1. ~Announce
    BY <1>8 DEF SetServer, Listen, ListenFails, SignalStop, Shutdown, ShutdownPanics,
                Announce, engineVars, HeightInv, EngineInv
  <2> QED  BY <1>1, <1>8, <2>1 DEF SetServer, Listen, ListenFails, SignalStop, Shutdown,
                                   ShutdownPanics, wsVars
<1>9. CASE UNCHANGED vars
  <2>1. ~Announce
    BY <1>9 DEF Announce, vars, HeightInv, EngineInv
  <2> QED  BY <1>1, <1>9, <2>1 DEF vars
<1> QED  BY <1>2, <1>3, <1>4, <1>5, <1>6, <1>7, <1>8, <1>9 DEF Next, EngineStep, HandlerStep

LEMMA NodeInvs == Spec => [](PlacesOK /\ HeightInv /\ GaugeInv /\ StreamInv)
BY PlacesInit, PlacesNext, HeightInvInit, HeightInvNext, GaugeInvInit, GaugeInvNext,
   StreamInvInit, StreamInvNext, PTL DEF Spec

\* Every variable keeps its type, the channels their capacity, and the gauge counts no
\* more clients than there are.
THEOREM TypeCorrect == Spec => []TypeOK
<1>1. ASSUME PlacesOK, HeightInv, GaugeInv, StreamInv PROVE TypeOK
  <2>1. Announced \in Nat /\ Announced <= MaxHeight
    BY <1>1, NodeAssumption DEF HeightInv, EngineInv, Announced
  <2>2. ASSUME NEW c \in Client
        PROVE  /\ ch[c] \in Seq(1 .. MaxHeight) /\ Len(ch[c]) <= ChanCap
               /\ got[c] \in Seq(1 .. MaxHeight)
               /\ since[c] \in 0 .. MaxHeight /\ missed[c] \subseteq 1 .. MaxHeight
    <3>1. Ordered(got[c], ch[c], since[c], missed[c], Announced)
      BY <1>1 DEF StreamInv
    <3>2. ASSUME NEW s, Rising(s, Announced) PROVE s \in Seq(1 .. MaxHeight)
      <4>1. Rising(s, MaxHeight)
        BY <2>1, <3>2, RisingBound, NodeAssumption
      <4> QED  BY <4>1 DEF Rising
    <3> QED  BY <2>1, <3>1, <3>2, NodeAssumption DEF Ordered
  <2>3. wsActive \in 0 .. Cardinality(Client)
    <3>1. Counted \subseteq Client
      BY DEF Counted
    <3>2. Cardinality(Counted) \in Nat /\ Cardinality(Client) \in Nat /\ Cardinality(Counted) <= Cardinality(Client)
      BY <3>1, NodeAssumption, FS_Subset, FS_CardinalityType
    <3> QED  BY <1>1, <3>2 DEF GaugeInv
  <2>4. subs \subseteq Client /\ handler \in [Client -> {"none", "counted", "reading", "uncounted", "returned"}]
    BY <1>1 DEF GaugeInv
  <2>5. {next, height} \subseteq 0 .. MaxHeight /\ engine \in {"select", "produce", "announce", "returned"}
    BY <1>1, NodeAssumption DEF HeightInv, EngineInv
  <2> QED  BY <1>1, <2>2, <2>3, <2>4, <2>5 DEF TypeOK, PlacesOK
<1> QED  BY <1>1, NodeInvs, PTL

\* A subscriber is told of every block from its subscription on, in order and once, but
\* for those that found its channel full, however its writer is scheduled.
THEOREM StreamCorrect == Spec => []StreamComplete
<1>1. ASSUME HeightInv, StreamInv PROVE StreamComplete
  <2> SUFFICES ASSUME NEW c \in Client
               PROVE  LET s == got[c] \o ch[c] IN
                        /\ \A i \in 1 .. Len(s) - 1 : s[i] < s[i + 1]
                        /\ handler[c] = "reading" /\ conn[c] = "open" =>
                             ToSet(s) \cup missed[c] = since[c] + 1 .. Announced
    BY DEF StreamComplete
  <2>1. Rising(got[c], Announced) /\ Rising(ch[c], Announced) /\ Before(got[c], ch[c])
    BY <1>1 DEF StreamInv, Ordered
  <2>2. Announced \in Nat
    BY <1>1 DEF HeightInv, EngineInv, Announced
  <2>3. /\ \A i \in 1 .. Len(got[c] \o ch[c]) - 1 : (got[c] \o ch[c])[i] < (got[c] \o ch[c])[i + 1]
        /\ ToSet(got[c] \o ch[c]) = ToSet(got[c]) \cup ToSet(ch[c])
    <3> DEFINE s == got[c]
               t == ch[c]
    <3>1. Rising(s, Announced) /\ Rising(t, Announced) /\ Before(s, t)
      BY <2>1
    <3> HIDE DEF s, t
    <3>2. /\ \A i \in 1 .. Len(s \o t) - 1 : (s \o t)[i] < (s \o t)[i + 1]
          /\ ToSet(s \o t) = ToSet(s) \cup ToSet(t)
      BY Zenon, <2>2, <3>1, RisingConcat
    <3> QED  BY <3>2 DEF s, t
  <2> QED  BY <1>1, <2>3 DEF StreamInv
<1> QED  BY <1>1, NodeInvs, PTL
=============================================================================

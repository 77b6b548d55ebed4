----------------------------- MODULE P2PProofs ------------------------------
(***************************************************************************)
(* Proofs about P2P, for any capacities and any number of pings and        *)
(* blocks.                                                                 *)
(***************************************************************************)
EXTENDS P2P, Lemmas, TLAPS

\* The number of a block; no other message has one.
Block(m) == IF IsBlock(m) THEN {m.num} ELSE {}

\* The numbers of the blocks of a sequence of messages.
Nums(s) == {m.num : m \in {k \in ToSet(s) : IsBlock(k)}}

\* The blocks of a sequence of messages come in increasing order.
Rises(s) ==
  \A i, j \in DOMAIN s : i < j /\ IsBlock(s[i]) /\ IsBlock(s[j]) => s[i].num < s[j].num

\* All numbers of A are smaller than all numbers of B.
Below(A, B) == \A a \in A, b \in B : a < b

----------------------------------------------------------------------------
(***************************************************************************)
(* Sequences of messages                                                   *)
(***************************************************************************)

\* A number is in Nums when some place of the sequence has it.
LEMMA NumsPlaces ==
  ASSUME NEW s, NEW x
  PROVE  x \in Nums(s) <=> \E i \in DOMAIN s : IsBlock(s[i]) /\ s[i].num = x
BY DEF Nums, ToSet

LEMMA NumsEmpty == Nums(<<>>) = {} /\ Rises(<<>>)
<1>1. Nums(<<>>) = {}
  BY NumsPlaces
<1>2. Rises(<<>>)
  BY DEF Rises
<1> QED  BY <1>1, <1>2

\* One message alone.
LEMMA NumsOne ==
  ASSUME NEW m \in Message
  PROVE  <<m>> \in Seq(Message) /\ Rises(<<m>>) /\ Nums(<<m>>) = Block(m)
<1>1. <<m>> \in Seq(Message) /\ Len(<<m>>) = 1 /\ <<m>>[1] = m
  OBVIOUS
<1>2. DOMAIN <<m>> = {1}
  BY <1>1
<1>3. Rises(<<m>>)
  BY <1>2 DEF Rises
<1>4. \A x : x \in Nums(<<m>>) <=> x \in Block(m)
  BY <1>1, <1>2, NumsPlaces DEF Block
<1> QED  BY <1>1, <1>3, <1>4

\* Two sequences in a row.
LEMMA NumsConcat ==
  ASSUME NEW s \in Seq(Message), NEW t \in Seq(Message), Rises(s), Rises(t),
         Below(Nums(s), Nums(t))
  PROVE  s \o t \in Seq(Message) /\ Rises(s \o t) /\ Nums(s \o t) = Nums(s) \cup Nums(t)
<1> DEFINE u == s \o t
<1>1. u \in Seq(Message) /\ Len(u) = Len(s) + Len(t) /\ Len(s) \in Nat /\ Len(t) \in Nat
  OBVIOUS
<1>2. /\ \A i \in DOMAIN s : i \in DOMAIN u /\ u[i] = s[i]
      /\ \A j \in DOMAIN t : Len(s) + j \in DOMAIN u /\ u[Len(s) + j] = t[j]
  BY <1>1
<1>3. \A i \in DOMAIN u : i \in DOMAIN s \/ (i > Len(s) /\ i - Len(s) \in DOMAIN t /\ u[i] = t[i - Len(s)])
  BY <1>1
<1>4. \A i \in DOMAIN s, j \in DOMAIN t : IsBlock(s[i]) /\ IsBlock(t[j]) => s[i].num < t[j].num
  BY NumsPlaces DEF Below
<1>5. Rises(u)
  <2> SUFFICES ASSUME NEW i \in DOMAIN u, NEW j \in DOMAIN u, i < j, IsBlock(u[i]), IsBlock(u[j])
               PROVE  u[i].num < u[j].num
    BY DEF Rises
  <2>0. i \in Nat /\ j \in Nat /\ (i \in DOMAIN s <=> i <= Len(s)) /\ (j \in DOMAIN s <=> j <= Len(s))
    BY <1>1
  <2>1. CASE j \in DOMAIN s
    <3>1. i \in DOMAIN s
      BY <1>1, <2>0, <2>1
    <3> QED  BY <1>2, <2>1, <3>1 DEF Rises
  <2>2. CASE i \in DOMAIN s /\ j \notin DOMAIN s
    <3>1. u[i] = s[i]
      BY <1>2, <2>2
    <3>2. j - Len(s) \in DOMAIN t /\ u[j] = t[j - Len(s)]
      BY <1>3, <2>2
    <3> QED  BY <1>4, <2>2, <3>1, <3>2
  <2>3. CASE i \notin DOMAIN s /\ j \notin DOMAIN s
    <3>1. /\ i - Len(s) \in DOMAIN t /\ u[i] = t[i - Len(s)]
          /\ j - Len(s) \in DOMAIN t /\ u[j] = t[j - Len(s)]
      BY <1>3, <2>3
    <3>2. i - Len(s) < j - Len(s)
      BY <1>1, <2>0
    <3> QED  BY <3>1, <3>2 DEF Rises
  <2>4. j \notin DOMAIN s \/ i \in DOMAIN s
    BY <1>1, <2>0
  <2> QED  BY <2>1, <2>2, <2>3
<1>6. ASSUME NEW x PROVE x \in Nums(u) <=> x \in Nums(s) \/ x \in Nums(t)
  <2>1. ASSUME x \in Nums(u) PROVE x \in Nums(s) \/ x \in Nums(t)
    <3>1. PICK i \in DOMAIN u : IsBlock(u[i]) /\ u[i].num = x
      BY <2>1, NumsPlaces
    <3>2. CASE i \in DOMAIN s
      BY <1>2, <3>1, <3>2, NumsPlaces
    <3>3. CASE i \notin DOMAIN s
      BY <1>3, <3>1, <3>3, NumsPlaces
    <3> QED  BY <3>2, <3>3
  <2>2. ASSUME x \in Nums(s) PROVE x \in Nums(u)
    <3>1. PICK i \in DOMAIN s : IsBlock(s[i]) /\ s[i].num = x
      BY <2>2, NumsPlaces
    <3> QED  BY <1>2, <3>1, NumsPlaces
  <2>3. ASSUME x \in Nums(t) PROVE x \in Nums(u)
    <3>1. PICK j \in DOMAIN t : IsBlock(t[j]) /\ t[j].num = x
      BY <2>3, NumsPlaces
    <3>2. Len(s) + j \in DOMAIN u /\ u[Len(s) + j] = t[j]
      BY <1>2
    <3> QED  BY <3>1, <3>2, NumsPlaces
  <2> QED  BY <2>1, <2>2, <2>3
<1> QED  BY <1>1, <1>5, <1>6

\* A message goes to the end.
LEMMA NumsAppend ==
  ASSUME NEW s \in Seq(Message), NEW m \in Message, Rises(s), Below(Nums(s), Block(m))
  PROVE  /\ Append(s, m) \in Seq(Message) /\ Rises(Append(s, m))
         /\ Nums(Append(s, m)) = Nums(s) \cup Block(m)
<1>1. Append(s, m) = s \o <<m>>
  OBVIOUS
<1> QED  BY <1>1, NumsOne, NumsConcat

\* The head is taken.
LEMMA NumsTail ==
  ASSUME NEW s \in Seq(Message), Rises(s), s # <<>>
  PROVE  /\ Head(s) \in Message /\ Tail(s) \in Seq(Message) /\ Rises(Tail(s))
         /\ Nums(s) = Block(Head(s)) \cup Nums(Tail(s))
         /\ Below(Block(Head(s)), Nums(Tail(s)))
<1> DEFINE t == Tail(s)
<1>1. /\ Head(s) = s[1] /\ s[1] \in Message /\ t \in Seq(Message)
      /\ Len(s) \in Nat \ {0} /\ Len(t) = Len(s) - 1
  OBVIOUS
<1>2. 1 \in DOMAIN s /\ \A i \in DOMAIN t : i + 1 \in DOMAIN s /\ i + 1 > 1 /\ t[i] = s[i + 1]
  BY <1>1
<1>3. \A i \in DOMAIN s : i = 1 \/ (i - 1 \in DOMAIN t /\ t[i - 1] = s[i])
  BY <1>1
<1>4. Rises(t)
  <2> SUFFICES ASSUME NEW i \in DOMAIN t, NEW j \in DOMAIN t, i < j, IsBlock(t[i]), IsBlock(t[j])
               PROVE  t[i].num < t[j].num
    BY DEF Rises
  <2>1. i + 1 < j + 1
    BY <1>1
  <2> QED  BY <1>2, <2>1 DEF Rises
<1>5. \A x : x \in Nums(s) <=> x \in Block(s[1]) \/ x \in Nums(t)
  <2>1. ASSUME NEW x \in Nums(s) PROVE x \in Block(s[1]) \/ x \in Nums(t)
    <3>1. PICK i \in DOMAIN s : IsBlock(s[i]) /\ s[i].num = x
      BY NumsPlaces
    <3>2. CASE i = 1
      BY <3>1, <3>2 DEF Block
    <3>3. CASE i - 1 \in DOMAIN t /\ t[i - 1] = s[i]
      BY <3>1, <3>3, NumsPlaces
    <3> QED  BY <1>3, <3>2, <3>3
  <2>2. ASSUME NEW x \in Block(s[1]) PROVE x \in Nums(s)
    <3>1. IsBlock(s[1]) /\ s[1].num = x
      BY DEF Block
    <3> QED  BY <1>2, <3>1, NumsPlaces
  <2>3. ASSUME NEW x \in Nums(t) PROVE x \in Nums(s)
    <3>1. PICK i \in DOMAIN t : IsBlock(t[i]) /\ t[i].num = x
      BY NumsPlaces
    <3> QED  BY <1>2, <3>1, NumsPlaces
  <2> QED  BY <2>1, <2>2, <2>3
<1>6. Below(Block(s[1]), Nums(t))
  <2> SUFFICES ASSUME IsBlock(s[1]), NEW b \in Nums(t) PROVE s[1].num < b
    BY DEF Below, Block
  <2>1. PICK i \in DOMAIN t : IsBlock(t[i]) /\ t[i].num = b
    BY NumsPlaces
  <2> QED  BY <1>2, <2>1 DEF Rises
<1> QED  BY <1>1, <1>4, <1>5, <1>6

----------------------------------------------------------------------------
(***************************************************************************)
(* One direction: what was handed over (g), the wire (w), the message in   *)
(* the encoder (e), the channel (s); blocks up to the number top           *)
(***************************************************************************)

InOrder(g, w, e, s, top) ==
  /\ Rising(g, top)
  /\ {w, e, s} \subseteq Seq(Message) /\ Rises(w) /\ Rises(e) /\ Rises(s)
  /\ Nums(w) \cup Nums(e) \cup Nums(s) \subseteq 1 .. top
  /\ Below(ToSet(g), Nums(w) \cup Nums(e) \cup Nums(s))
  /\ Below(Nums(w), Nums(e) \cup Nums(s))
  /\ Below(Nums(e), Nums(s))

\* The encoder takes the head of the channel.
LEMMA InOrderTake ==
  ASSUME NEW g, NEW w, NEW s, NEW top \in Nat, InOrder(g, w, <<>>, s, top), s # <<>>
  PROVE  /\ Head(s) \in Message
         /\ InOrder(g, w, <<Head(s)>>, Tail(s), top)
         /\ Nums(s) = Nums(<<Head(s)>>) \cup Nums(Tail(s))
<1>1. /\ Head(s) \in Message /\ Tail(s) \in Seq(Message) /\ Rises(Tail(s))
      /\ Nums(s) = Block(Head(s)) \cup Nums(Tail(s)) /\ Below(Block(Head(s)), Nums(Tail(s)))
  BY NumsTail DEF InOrder
<1>2. <<Head(s)>> \in Seq(Message) /\ Rises(<<Head(s)>>) /\ Nums(<<Head(s)>>) = Block(Head(s))
  BY <1>1, NumsOne
<1> QED  BY <1>1, <1>2, NumsEmpty DEF InOrder, Below

\* What is in the encoder goes to the wire.
LEMMA InOrderWrite ==
  ASSUME NEW g, NEW w, NEW m \in Message, NEW s, NEW top \in Nat, InOrder(g, w, <<m>>, s, top)
  PROVE  /\ InOrder(g, Append(w, m), <<>>, s, top)
         /\ Nums(Append(w, m)) = Nums(w) \cup Nums(<<m>>)
<1>1. Nums(<<m>>) = Block(m)
  BY NumsOne
<1>2. /\ Append(w, m) \in Seq(Message) /\ Rises(Append(w, m))
      /\ Nums(Append(w, m)) = Nums(w) \cup Block(m)
  BY <1>1, NumsAppend DEF InOrder, Below
<1>3. <<>> \in Seq(Message)
  OBVIOUS
<1> QED  BY <1>1, <1>2, <1>3, NumsEmpty DEF InOrder, Below

\* The wire, the encoder or the channel may be lost.
LEMMA InOrderLess ==
  ASSUME NEW g, NEW w, NEW e, NEW s, NEW top \in Nat, InOrder(g, w, e, s, top),
         NEW w2 \in {w, <<>>}, NEW e2 \in {e, <<>>}, NEW s2 \in {s, <<>>}
  PROVE  InOrder(g, w2, e2, s2, top)
<1>1. <<>> \in Seq(Message)
  OBVIOUS
<1>2. Nums(w2) \subseteq Nums(w) /\ Nums(e2) \subseteq Nums(e) /\ Nums(s2) \subseteq Nums(s)
  BY NumsEmpty
<1>3. Rises(w2) /\ Rises(e2) /\ Rises(s2) /\ {w2, e2, s2} \subseteq Seq(Message)
  BY <1>1, NumsEmpty DEF InOrder
<1> QED  BY <1>2, <1>3 DEF InOrder, Below

\* The head of the wire comes in; a block is handed over.
LEMMA InOrderHandle ==
  ASSUME NEW g, NEW w, NEW e, NEW s, NEW top \in Nat, InOrder(g, w, e, s, top), w # <<>>,
         NEW g2, g2 = IF IsBlock(Head(w)) THEN Append(g, Head(w).num) ELSE g
  PROVE  /\ Head(w) \in Message
         /\ InOrder(g2, Tail(w), e, s, top)
         /\ ToSet(g2) \cup Nums(Tail(w)) = ToSet(g) \cup Nums(w)
<1>1. /\ Head(w) \in Message /\ Tail(w) \in Seq(Message) /\ Rises(Tail(w))
      /\ Nums(w) = Block(Head(w)) \cup Nums(Tail(w)) /\ Below(Block(Head(w)), Nums(Tail(w)))
  BY NumsTail DEF InOrder
<1>2. Rising(g2, top) /\ ToSet(g2) = ToSet(g) \cup Block(Head(w))
  <2>1. CASE IsBlock(Head(w))
    <3>1. Block(Head(w)) = {Head(w).num}
      BY <2>1 DEF Block
    <3>2. Head(w).num \in 1 .. top
      BY <1>1, <3>1 DEF InOrder
    <3>3. \A i \in DOMAIN g : g[i] < Head(w).num
      BY <1>1, <3>1 DEF InOrder, Below, ToSet
    <3>4. Rising(g, top)
      BY DEF InOrder
    <3> QED  BY <2>1, <3>1, <3>2, <3>3, <3>4, RisingAppend
  <2>2. CASE ~IsBlock(Head(w))
    BY <2>2 DEF Block, InOrder
  <2> QED  BY <2>1, <2>2
<1>3. Below(ToSet(g2), Nums(Tail(w)) \cup Nums(e) \cup Nums(s))
  BY <1>1, <1>2 DEF InOrder, Below
<1> QED  BY <1>1, <1>2, <1>3 DEF InOrder, Below

\* The channel takes a message; a block has a number above all so far.
LEMMA InOrderSend ==
  ASSUME NEW g, NEW w, NEW e, NEW s, NEW top \in Nat, InOrder(g, w, e, s, top),
         NEW more \in Nat, top <= more, NEW m \in Message, Block(m) \subseteq top + 1 .. more
  PROVE  /\ InOrder(g, w, e, s, more)
         /\ InOrder(g, w, e, Append(s, m), more)
         /\ Nums(Append(s, m)) = Nums(s) \cup Block(m)
<1>1. Rising(g, more)
  BY RisingBound DEF InOrder
<1>2. 1 .. top \subseteq 1 .. more /\ top + 1 .. more \subseteq 1 .. more
  OBVIOUS
<1>3. \A a \in 1 .. top, b \in Block(m) : a < b
  OBVIOUS
<1>4. ToSet(g) \subseteq 1 .. top
  BY DEF InOrder, Rising, ToSet
<1>5. InOrder(g, w, e, s, more)
  BY <1>1, <1>2 DEF InOrder
<1>6. /\ Append(s, m) \in Seq(Message) /\ Rises(Append(s, m))
      /\ Nums(Append(s, m)) = Nums(s) \cup Block(m)
  BY <1>3, NumsAppend DEF InOrder, Below
<1> QED  BY <1>1, <1>2, <1>3, <1>4, <1>5, <1>6 DEF InOrder, Below

\* The channel takes a message that is no block.
LEMMA InOrderSignal ==
  ASSUME NEW g, NEW w, NEW e, NEW s, NEW top \in Nat, InOrder(g, w, e, s, top),
         NEW m \in Message, ~IsBlock(m)
  PROVE  InOrder(g, w, e, Append(s, m), top) /\ Nums(Append(s, m)) = Nums(s)
<1>1. Block(m) = {}
  BY DEF Block
<1>2. top <= top /\ Block(m) \subseteq top + 1 .. top
  BY <1>1
<1>3. InOrder(g, w, e, Append(s, m), top) /\ Nums(Append(s, m)) = Nums(s) \cup Block(m)
  BY <1>2, InOrderSend
<1> QED  BY <1>1, <1>3

\* All that is on the way, in a row.
LEMMA InOrderWay ==
  ASSUME NEW g, NEW w, NEW e, NEW s, NEW top \in Nat, InOrder(g, w, e, s, top)
  PROVE  /\ Rises(w \o e \o s) /\ Nums(w \o e \o s) = Nums(w) \cup Nums(e) \cup Nums(s)
<1>1. /\ w \o e \in Seq(Message) /\ Rises(w \o e)
      /\ Nums(w \o e) = Nums(w) \cup Nums(e)
  BY NumsConcat DEF InOrder, Below
<1>2. s \in Seq(Message) /\ Rises(s) /\ Below(Nums(w \o e), Nums(s))
  BY <1>1 DEF InOrder, Below
<1> QED  BY <1>1, <1>2, NumsConcat

----------------------------------------------------------------------------
(***************************************************************************)
(* Type correctness                                                        *)
(***************************************************************************)

LEMMA SignalsAreMessages ==
  /\ \A type \in {"handshake", "ping", "pong"} : Msg(type) \in Message /\ ~IsBlock(Msg(type))
  /\ \A k \in Nat : LET m == [type |-> "newBlock", num |-> k]
                    IN  m \in Message /\ IsBlock(m) /\ m.num = k
BY DEF Msg, Message, Signal, IsBlock

LEMMA Ends == \A n \in Node : Other(n) \in Node /\ Other(n) # n /\ Other(Other(n)) = n
BY P2PAssumption DEF Node, Other

\* What Send does to the channel of n and to the blocks that are dropped.
LEMMA SendEffect ==
  ASSUME TypeOK, NEW n \in Node, NEW m \in Message, Send(n, m)
  PROVE  /\ sendCh' \in [Node -> Seq(Message)] /\ dropped' \in [Node -> SUBSET Nat]
         /\ \A k \in Node \ {n} : sendCh'[k] = sendCh[k] /\ dropped'[k] = dropped[k]
         /\ Len(sendCh'[n]) <= SendCap
         /\ \/ sendCh'[n] = Append(sendCh[n], m) /\ dropped'[n] = dropped[n]
            \/ /\ sendCh'[n] = sendCh[n]
               /\ dropped'[n] = IF IsBlock(m) /\ ~down THEN dropped[n] \cup {m.num} ELSE dropped[n]
<1>0. /\ sendCh \in [Node -> Seq(Message)] /\ dropped \in [Node -> SUBSET Nat]
      /\ Len(sendCh[n]) <= SendCap /\ SendCap \in Nat
  BY P2PAssumption DEF TypeOK
<1>1. CASE Len(sendCh[n]) < SendCap
  <2>1. sendCh' = [sendCh EXCEPT ![n] = Append(sendCh[n], m)] /\ dropped' = dropped
    BY <1>1 DEF Send
  <2>2. Append(sendCh[n], m) \in Seq(Message) /\ Len(Append(sendCh[n], m)) <= SendCap
    BY <1>0, <1>1
  <2> QED  BY <1>0, <2>1, <2>2
<1>2. CASE ~(Len(sendCh[n]) < SendCap)
  <2>1. sendCh' = sendCh /\ Drop(n, m)
    BY <1>2 DEF Send
  <2>2. IsBlock(m) => m.num \in Nat
    BY DEF IsBlock, Message, Signal
  <2> QED  BY <1>0, <2>1, <2>2 DEF Drop, IsBlock
<1> QED  BY <1>1, <1>2

LEMMA CloseEffect ==
  ASSUME TypeOK, NEW n \in Node, Close(n)
  PROVE  /\ {quit', alive'} \subseteq [Node -> BOOLEAN]
         /\ down' = TRUE
         /\ wire' \in [Node -> Seq(Message)] /\ wire'[Other(n)] = <<>>
         /\ \A k \in Node \ {Other(n)} : wire'[k] = wire[k]
         /\ \A k \in Node : Len(wire'[k]) <= WireCap
<1>1. {quit', alive'} \subseteq [Node -> BOOLEAN] /\ down' = TRUE
  <2>1. quit \in [Node -> BOOLEAN] /\ alive \in [Node -> BOOLEAN]
    BY DEF TypeOK
  <2>2. CASE quit[n]
    <3>1. quit' = quit /\ alive' = [alive EXCEPT ![n] = FALSE]
      BY <2>2 DEF Close
    <3> QED  BY <2>1, <3>1 DEF Close
  <2>3. CASE ~quit[n]
    <3>1. alive' = alive /\ quit' = [quit EXCEPT ![n] = TRUE]
      BY <2>3 DEF Close
    <3> QED  BY <2>1, <3>1 DEF Close
  <2> QED  BY <2>2, <2>3
<1>2. wire' = [wire EXCEPT ![Other(n)] = <<>>] /\ wire \in [Node -> Seq(Message)] /\ Other(n) \in Node
  BY Ends DEF TypeOK, Close, Discard
<1>3. /\ wire' \in [Node -> Seq(Message)] /\ wire'[Other(n)] = <<>>
      /\ \A k \in Node \ {Other(n)} : wire'[k] = wire[k]
  BY <1>2
<1>4. Len(<<>>) <= WireCap
  BY P2PAssumption
<1>5. \A k \in Node : Len(wire'[k]) <= WireCap
  BY <1>3, <1>4 DEF TypeOK
<1> QED  BY <1>1, <1>3, <1>5

\* A ping, a pong or a greeting changes the channel of n only.
LEMMA SignalEffect ==
  ASSUME TypeOK, NEW n \in Node, NEW m \in Message, ~IsBlock(m), Send(n, m)
  PROVE  /\ sendCh' \in [Node -> Seq(Message)] /\ dropped' = dropped
         /\ \A k \in Node : Len(sendCh'[k]) <= SendCap
         /\ \A k \in Node \ {n} : sendCh'[k] = sendCh[k]
         /\ sendCh'[n] \in {sendCh[n], Append(sendCh[n], m)}
<1>1. dropped' = dropped
  BY DEF Send, Drop, IsBlock
<1>2. \A k \in Node : Len(sendCh[k]) <= SendCap
  BY DEF TypeOK
<1> QED  BY <1>1, <1>2, SendEffect

LEMMA TypeInit == Init => TypeOK
<1>1. <<>> \in Seq(Message) /\ <<>> \in Seq(Nat) /\ Len(<<>>) = 0
  OBVIOUS
<1> SUFFICES ASSUME Init PROVE TypeOK
  OBVIOUS
<1>2. writer \in [Node -> [at: {"select", "encode", "returned"}, msg: Message \cup {Idle}]]
  BY DEF Init
<1>3. \A n \in Node : writer[n].at # "encode"
  BY DEF Init
<1>4. 0 <= SendCap /\ 0 <= WireCap /\ \A n \in Node : 0 <= MaxPings[n] /\ 0 <= MaxBlocks[n]
  BY P2PAssumption
<1>5. {sendCh, wire} \subseteq [Node -> Seq(Message)] /\ got \in [Node -> Seq(Nat)]
  BY <1>1 DEF Init
<1>6. dropped \in [Node -> SUBSET Nat] /\ {pings, blocks} \subseteq [Node -> Nat]
  BY DEF Init
<1>8. /\ quit \in [Node -> BOOLEAN] /\ alive \in [Node -> BOOLEAN]
      /\ reader \in [Node -> {"decode", "close", "returned"}]
  BY DEF Init
<1>9. {quit, alive} \subseteq [Node -> BOOLEAN] /\ {down, greeted} \subseteq BOOLEAN
  BY <1>8 DEF Init
<1>7. \A n \in Node : /\ Len(sendCh[n]) = 0 /\ Len(wire[n]) = 0 /\ pings[n] = 0 /\ blocks[n] = 0
                      /\ dropped[n] = {}
  BY <1>1 DEF Init
<1> QED  BY <1>2, <1>3, <1>4, <1>5, <1>6, <1>7, <1>8, <1>9 DEF TypeOK

LEMMA TypeNext == TypeOK /\ [Next]_vars => TypeOK'
<1> SUFFICES ASSUME TypeOK, [Next]_vars PROVE TypeOK'
  OBVIOUS
<1> USE P2PAssumption
<1>0. Len(<<>>) = 0 /\ 0 <= SendCap
  OBVIOUS
<1>1. ASSUME NEW n \in Node, WriterTake(n) PROVE TypeOK'
  <2>1. /\ Head(sendCh[n]) \in Message /\ Tail(sendCh[n]) \in Seq(Message)
        /\ Len(Tail(sendCh[n])) <= SendCap
    <3>1. sendCh[n] \in Seq(Message) /\ Len(sendCh[n]) <= SendCap
      BY DEF TypeOK
    <3>2. sendCh[n] # <<>> /\ SendCap \in Nat
      BY <1>1 DEF WriterTake
    <3> QED  BY <3>1, <3>2
  <2> QED  BY <1>1, <2>1 DEF WriterTake, TypeOK
<1>2. ASSUME NEW n \in Node, WriterQuit(n) PROVE TypeOK'
  <2>1. /\ sendCh' \in [Node -> Seq(Message)] /\ sendCh'[n] = <<>>
        /\ \A k \in Node \ {n} : sendCh'[k] = sendCh[k]
        /\ writer' \in [Node -> [at: {"select", "encode", "returned"}, msg: Message \cup {Idle}]]
        /\ writer'[n].at = "returned" /\ \A k \in Node \ {n} : writer'[k] = writer[k]
    <3>1. /\ [writer[n] EXCEPT !.at = "returned"].at = "returned"
          /\ [writer[n] EXCEPT !.at = "returned"]
               \in [at: {"select", "encode", "returned"}, msg: Message \cup {Idle}]
      BY DEF TypeOK
    <3>2. writer' = [writer EXCEPT ![n] = [writer[n] EXCEPT !.at = "returned"]]
      BY <1>2 DEF WriterQuit
    <3>3. sendCh' = [sendCh EXCEPT ![n] = <<>>]
      BY <1>2 DEF WriterQuit
    <3> QED  BY <3>1, <3>2, <3>3 DEF TypeOK
  <2>2. \A k \in Node : Len(sendCh'[k]) <= SendCap
    BY <2>1, <1>0 DEF TypeOK
  <2> QED  BY <1>2, <2>1, <2>2 DEF WriterQuit, TypeOK
<1>3. ASSUME NEW n \in Node, WriterWrite(n) PROVE TypeOK'
  <2>1. /\ Append(wire[n], writer[n].msg) \in Seq(Message)
        /\ Len(Append(wire[n], writer[n].msg)) <= WireCap
    <3>1. wire[n] \in Seq(Message) /\ Len(wire[n]) < WireCap /\ WireCap \in Nat
      BY <1>3 DEF WriterWrite, TypeOK
    <3>2. writer[n].msg \in Message
      BY <1>3 DEF WriterWrite, TypeOK
    <3> QED  BY <3>1, <3>2
  <2> QED  BY <1>3, <2>1 DEF WriterWrite, TypeOK
<1>4. ASSUME NEW n \in Node, WriterClose(n) PROVE TypeOK'
  <2>1. Close(n)
    BY <1>4 DEF WriterClose
  <2>2. /\ sendCh' \in [Node -> Seq(Message)] /\ sendCh'[n] = <<>>
        /\ \A k \in Node \ {n} : sendCh'[k] = sendCh[k]
        /\ writer' \in [Node -> [at: {"select", "encode", "returned"}, msg: Message \cup {Idle}]]
        /\ writer'[n].at = "returned" /\ \A k \in Node \ {n} : writer'[k] = writer[k]
    BY <1>4 DEF WriterClose, TypeOK
  <2>3. \A k \in Node : Len(sendCh'[k]) <= SendCap
    BY <2>2, <1>0 DEF TypeOK
  <2>4. /\ {quit', alive'} \subseteq [Node -> BOOLEAN] /\ down' = TRUE
        /\ wire' \in [Node -> Seq(Message)] /\ \A k \in Node : Len(wire'[k]) <= WireCap
    BY <2>1, CloseEffect
  <2> QED  BY <1>4, <2>2, <2>3, <2>4 DEF WriterClose, TypeOK
<1>5. ASSUME NEW n \in Node, ReaderHandle(n) PROVE TypeOK'
  <2> DEFINE m == Head(wire[Other(n)])
  <2>1. /\ m \in Message /\ Tail(wire[Other(n)]) \in Seq(Message)
        /\ Len(Tail(wire[Other(n)])) <= WireCap
    <3>1. wire[Other(n)] \in Seq(Message) /\ Len(wire[Other(n)]) <= WireCap
      BY Ends DEF TypeOK
    <3>2. wire[Other(n)] # <<>> /\ WireCap \in Nat
      BY <1>5 DEF ReaderHandle
    <3> QED  BY <3>1, <3>2
  <2>2. /\ sendCh' \in [Node -> Seq(Message)] /\ dropped' = dropped
        /\ \A k \in Node : Len(sendCh'[k]) <= SendCap
    <3>1. CASE m.type = "ping"
      BY <1>5, <3>1, SignalEffect, SignalsAreMessages DEF ReaderHandle
    <3>2. CASE m.type # "ping"
      BY <1>5, <3>2 DEF ReaderHandle, TypeOK
    <3> QED  BY <3>1, <3>2
  <2>3. got' \in [Node -> Seq(Nat)]
    <3>1. m.type = "newBlock" => m.num \in Nat
      BY <2>1 DEF Message, Signal
    <3>2. m.type = "newBlock" => Append(got[n], m.num) \in Seq(Nat)
      BY <3>1 DEF TypeOK
    <3> QED  BY <1>5, <3>2 DEF ReaderHandle, TypeOK
  <2>4. wire' \in [Node -> Seq(Message)] /\ \A k \in Node : Len(wire'[k]) <= WireCap
    BY <1>5, <2>1, Ends DEF ReaderHandle, TypeOK
  <2> QED  BY <1>5, <2>2, <2>3, <2>4 DEF ReaderHandle, loops, TypeOK
<1>6. ASSUME NEW n \in Node, ReaderFail(n) PROVE TypeOK'
  <2>1. /\ wire' \in [Node -> Seq(Message)] /\ reader' \in [Node -> {"decode", "close", "returned"}]
        /\ \A k \in Node : wire'[k] = wire[k] \/ wire'[k] = <<>>
    BY <1>6, Ends DEF ReaderFail, Discard, TypeOK
  <2>2. \A k \in Node : Len(wire'[k]) <= WireCap
    BY <2>1 DEF TypeOK
  <2> QED  BY <1>6, <2>1, <2>2 DEF ReaderFail, TypeOK
<1>7. ASSUME NEW n \in Node, ReaderClose(n) PROVE TypeOK'
  <2>1. Close(n)
    BY <1>7 DEF ReaderClose
  <2> QED  BY <1>7, <2>1, CloseEffect DEF ReaderClose, TypeOK
<1>8. ASSUME NEW n \in Node, Ping(n) PROVE TypeOK'
  <2>1. /\ sendCh' \in [Node -> Seq(Message)] /\ dropped' = dropped
        /\ \A k \in Node : Len(sendCh'[k]) <= SendCap
    BY <1>8, SignalEffect, SignalsAreMessages DEF Ping
  <2>2. pings' \in [Node -> Nat] /\ \A k \in Node : pings'[k] <= MaxPings[k]
    BY <1>8 DEF Ping, TypeOK
  <2> QED  BY <1>8, <2>1, <2>2 DEF Ping, loops, TypeOK
<1>9. ASSUME NEW n \in Node, Broadcast(n) PROVE TypeOK'
  <2> DEFINE m == [type |-> "newBlock", num |-> blocks[n] + 1]
  <2>1. blocks[n] \in Nat /\ m \in Message /\ m.num = blocks[n] + 1 /\ Send(n, m)
    BY <1>9, SignalsAreMessages DEF TypeOK, Broadcast
  <2>2. /\ sendCh' \in [Node -> Seq(Message)] /\ dropped' \in [Node -> SUBSET Nat]
        /\ \A k \in Node : Len(sendCh'[k]) <= SendCap
        /\ \A k \in Node \ {n} : dropped'[k] = dropped[k]
        /\ dropped'[n] \in {dropped[n], dropped[n] \cup {blocks[n] + 1}}
    BY <2>1, SendEffect DEF TypeOK
  <2>3. /\ blocks' \in [Node -> Nat] /\ \A k \in Node : blocks'[k] <= MaxBlocks[k]
        /\ blocks'[n] = blocks[n] + 1 /\ \A k \in Node \ {n} : blocks'[k] = blocks[k]
    BY <1>9 DEF Broadcast, TypeOK
  <2>4. ASSUME NEW k \in Node PROVE dropped'[k] \subseteq 1 .. blocks'[k]
    <3>1. dropped[k] \subseteq 1 .. blocks[k]
      BY DEF TypeOK
    <3>2. CASE k = n
      <4>1. 1 .. blocks[n] \subseteq 1 .. blocks[n] + 1 /\ blocks[n] + 1 \in 1 .. blocks[n] + 1
        BY <2>1
      <4> QED  BY <2>2, <2>3, <3>1, <3>2, <4>1
    <3> QED  BY <2>2, <2>3, <3>1, <3>2
  <2> QED  BY <1>9, <2>2, <2>3, <2>4 DEF Broadcast, loops, TypeOK
<1>10. CASE Greet
  <2>1. Acceptor \in Node
    BY DEF Node
  <2>2. /\ sendCh' \in [Node -> Seq(Message)] /\ dropped' = dropped
        /\ \A k \in Node : Len(sendCh'[k]) <= SendCap
    BY <1>10, <2>1, SignalEffect, SignalsAreMessages DEF Greet
  <2> QED  BY <1>10, <2>2 DEF Greet, loops, TypeOK
<1>11. CASE Cut
  BY <1>11 DEF Cut, loops, TypeOK
<1>12. CASE UNCHANGED vars
  BY <1>12 DEF vars, TypeOK
<1> QED  BY <1>1, <1>2, <1>3, <1>4, <1>5, <1>6, <1>7, <1>8, <1>9, <1>10, <1>11, <1>12
         DEF Next, WriterStep, ReaderStep, WriterFail, WriterTimeout

\* Channels and wires never hold more than they can, whatever the capacities.
THEOREM TypeCorrect == Spec => []TypeOK
BY TypeInit, TypeNext, PTL DEF Spec

----------------------------------------------------------------------------
(***************************************************************************)
(* Order and loss                                                          *)
(***************************************************************************)

\* The direction from n to the other node.
Lane(n) == InOrder(got[Other(n)], wire[n], Encoding(n), sendCh[n], blocks[n])

\* The blocks of n that came in or may still come in.
Arriving(n) ==
  ToSet(got[Other(n)]) \cup Nums(wire[n]) \cup Nums(Encoding(n)) \cup Nums(sendCh[n])

\* While the connection stands: quit, which would let writeLoop return, is open.
Standing(n) == ~quit[n] /\ 1 .. blocks[n] \subseteq Arriving(n) \cup dropped[n]

OrderInv ==
  /\ TypeOK
  /\ \A n \in Node : Lane(n)
  /\ ~down => \A n \in Node : Standing(n)

LEMMA OrderInvInit == Init => OrderInv
<1> SUFFICES ASSUME Init PROVE OrderInv
  OBVIOUS
<1>1. TypeOK
  BY TypeInit
<1>2. ASSUME NEW n \in Node PROVE Lane(n) /\ Standing(n)
  <2>1. /\ got[Other(n)] = <<>> /\ wire[n] = <<>> /\ Encoding(n) = <<>> /\ sendCh[n] = <<>>
        /\ blocks[n] = 0 /\ ~quit[n]
    BY Ends DEF Init, Encoding
  <2>2. Rising(<<>>, 0) /\ ToSet(<<>>) = {} /\ Nums(<<>>) = {} /\ Rises(<<>>)
    BY RisingEmpty, NumsEmpty
  <2>3. <<>> \in Seq(Message) /\ 1 .. 0 = {}
    OBVIOUS
  <2>4. Lane(n)
    BY <2>1, <2>2, <2>3 DEF Lane, InOrder, Below
  <2>5. Standing(n)
    BY <2>1, <2>3 DEF Standing
  <2> QED  BY <2>4, <2>5
<1> QED  BY <1>1, <1>2 DEF OrderInv

\* A direction that no step touches stays as it is.
LEMMA Untouched ==
  ASSUME NEW k \in Node, Lane(k),
         got'[Other(k)] = got[Other(k)], wire'[k] = wire[k], writer'[k] = writer[k],
         sendCh'[k] = sendCh[k], blocks'[k] = blocks[k]
  PROVE  /\ Lane(k)'
         /\ Standing(k) /\ dropped'[k] = dropped[k] /\ quit'[k] = quit[k] => Standing(k)'
<1>1. Encoding(k)' = Encoding(k)
  BY DEF Encoding
<1> QED  BY <1>1 DEF Lane, Standing, Arriving

\* What a connection that goes down takes with it leaves the rest in order.
LEMMA LossKeepsOrder ==
  ASSUME OrderInv, got' = got, blocks' = blocks,
         \A k \in Node : /\ wire'[k] \in {wire[k], <<>>}
                         /\ Encoding(k)' \in {Encoding(k), <<>>}
                         /\ sendCh'[k] \in {sendCh[k], <<>>}
  PROVE  \A k \in Node : Lane(k)'
<1> SUFFICES ASSUME NEW k \in Node PROVE Lane(k)'
  OBVIOUS
<1>1. Lane(k) /\ blocks[k] \in Nat
  BY DEF OrderInv, TypeOK
<1>2. InOrder(got[Other(k)], wire'[k], Encoding(k)', sendCh'[k], blocks[k])
  BY <1>1, InOrderLess DEF Lane
<1> QED  BY <1>2 DEF Lane

\* A message that is no block changes nothing that Lane and Standing speak of.
LEMMA SignalKeepsOrder ==
  ASSUME OrderInv, NEW n \in Node, NEW m \in Message, ~IsBlock(m), Send(n, m),
         UNCHANGED <<writer, quit, blocks>>,
         wire'[n] = wire[n], got'[Other(n)] = got[Other(n)]
  PROVE  /\ Lane(n)' /\ (~down => Standing(n)')
         /\ dropped' = dropped /\ \A k \in Node \ {n} : sendCh'[k] = sendCh[k]
<1>1. /\ dropped' = dropped /\ sendCh'[n] \in {sendCh[n], Append(sendCh[n], m)}
      /\ \A k \in Node \ {n} : sendCh'[k] = sendCh[k]
  BY SignalEffect DEF OrderInv
<1>3. Lane(n)' /\ (~down => Standing(n)')
  <2>1. Lane(n) /\ blocks[n] \in Nat /\ Block(m) = {} /\ (~down => Standing(n))
    BY DEF OrderInv, TypeOK, Block
  <2>2. Encoding(n)' = Encoding(n)
    BY DEF Encoding
  <2>3. /\ InOrder(got[Other(n)], wire[n], Encoding(n), sendCh'[n], blocks[n])
        /\ Nums(sendCh'[n]) = Nums(sendCh[n])
    <3>1. InOrder(got[Other(n)], wire[n], Encoding(n), sendCh[n], blocks[n])
      BY <2>1 DEF Lane
    <3>2. /\ InOrder(got[Other(n)], wire[n], Encoding(n), Append(sendCh[n], m), blocks[n])
          /\ Nums(Append(sendCh[n], m)) = Nums(sendCh[n])
      BY <2>1, <3>1, InOrderSignal
    <3> QED  BY <1>1, <3>1, <3>2
  <2>4. Lane(n)'
    BY <2>2, <2>3 DEF Lane
  <2>5. Standing(n) => Standing(n)'
    BY <1>1, <2>2, <2>3 DEF Standing, Arriving
  <2> QED  BY <2>1, <2>4, <2>5
<1> QED  BY <1>1, <1>3

LEMMA TakeKeepsOrder ==
  ASSUME OrderInv, NEW n \in Node, WriterTake(n)
  PROVE  /\ \A k \in Node : Lane(k)'
         /\ ~down' => \A k \in Node : Standing(k)'
<1>1. /\ sendCh[n] # <<>> /\ Encoding(n) = <<>> /\ Encoding(n)' = <<Head(sendCh[n])>>
      /\ sendCh'[n] = Tail(sendCh[n])
      /\ \A k \in Node \ {n} : sendCh'[k] = sendCh[k] /\ writer'[k] = writer[k]
  BY DEF OrderInv, TypeOK, WriterTake, Encoding
<1>2. UNCHANGED <<quit, wire, down, blocks, dropped, got>>
  BY DEF WriterTake
<1>3. ASSUME NEW k \in Node \ {n} PROVE Lane(k)' /\ (~down => Standing(k)')
  BY <1>1, <1>2, Untouched DEF OrderInv
<1>4. Lane(n)' /\ (~down => Standing(n)')
  <2>1. Lane(n) /\ blocks[n] \in Nat /\ (~down => Standing(n))
    BY DEF OrderInv, TypeOK
  <2>2. /\ InOrder(got[Other(n)], wire[n], Encoding(n)', sendCh'[n], blocks[n])
        /\ Nums(sendCh[n]) = Nums(Encoding(n)') \cup Nums(sendCh'[n])
    <3>1. InOrder(got[Other(n)], wire[n], <<>>, sendCh[n], blocks[n])
      BY <1>1, <2>1 DEF Lane
    <3>2. /\ InOrder(got[Other(n)], wire[n], <<Head(sendCh[n])>>, Tail(sendCh[n]), blocks[n])
          /\ Nums(sendCh[n]) = Nums(<<Head(sendCh[n])>>) \cup Nums(Tail(sendCh[n]))
      BY <1>1, <2>1, <3>1, InOrderTake
    <3> QED  BY <1>1, <3>2
  <2>3. Lane(n)'
    BY <1>2, <2>2 DEF Lane
  <2>4. Standing(n) => Standing(n)'
    BY <1>1, <1>2, <2>2, NumsEmpty DEF Standing, Arriving
  <2> QED  BY <2>1, <2>3, <2>4
<1> QED  BY <1>2, <1>3, <1>4

LEMMA WriteKeepsOrder ==
  ASSUME OrderInv, NEW n \in Node, WriterWrite(n)
  PROVE  /\ \A k \in Node : Lane(k)'
         /\ ~down' => \A k \in Node : Standing(k)'
<1> DEFINE m == writer[n].msg
<1>1. /\ m \in Message /\ Encoding(n) = <<m>> /\ Encoding(n)' = <<>>
      /\ \A k \in Node \ {n} : wire'[k] = wire[k] /\ writer'[k] = writer[k]
  BY DEF OrderInv, TypeOK, WriterWrite, Encoding
<1>2. UNCHANGED <<sendCh, quit, down, blocks, dropped, got>>
  BY DEF WriterWrite
<1>3. CASE down
  <2>1. \A k \in Node : wire'[k] = wire[k] /\ Encoding(k)' \in {Encoding(k), <<>>}
    BY <1>1, <1>3 DEF WriterWrite, Encoding
  <2> QED  BY <1>2, <1>3, <2>1, LossKeepsOrder
<1>4. CASE ~down
  <2>1. ASSUME NEW k \in Node \ {n} PROVE Lane(k)' /\ Standing(k)'
    BY <1>1, <1>2, <1>4, Untouched DEF OrderInv
  <2>2. Lane(n) /\ blocks[n] \in Nat /\ Standing(n)
    BY <1>4 DEF OrderInv, TypeOK
  <2>3. wire'[n] = Append(wire[n], m)
    BY <1>4 DEF WriterWrite, OrderInv, TypeOK
  <2>4. /\ InOrder(got[Other(n)], wire'[n], <<>>, sendCh[n], blocks[n])
        /\ Nums(wire'[n]) = Nums(wire[n]) \cup Nums(Encoding(n))
    <3>1. InOrder(got[Other(n)], wire[n], <<m>>, sendCh[n], blocks[n])
      BY <1>1, <2>2 DEF Lane
    <3>2. /\ InOrder(got[Other(n)], Append(wire[n], m), <<>>, sendCh[n], blocks[n])
          /\ Nums(Append(wire[n], m)) = Nums(wire[n]) \cup Nums(<<m>>)
      BY <1>1, <2>2, <3>1, InOrderWrite
    <3> QED  BY <1>1, <2>3, <3>2
  <2>5. Lane(n)'
    BY <1>1, <1>2, <2>4 DEF Lane
  <2>6. Standing(n)'
    BY <1>1, <1>2, <2>2, <2>4, NumsEmpty DEF Standing, Arriving
  <2> QED  BY <2>1, <2>5, <2>6
<1> QED  BY <1>3, <1>4

LEMMA HandleKeepsOrder ==
  ASSUME OrderInv, NEW n \in Node, ReaderHandle(n)
  PROVE  /\ \A k \in Node : Lane(k)'
         /\ ~down' => \A k \in Node : Standing(k)'
<1> DEFINE o == Other(n)
           w == wire[o]
<1>0. o \in Node /\ o # n /\ Other(o) = n /\ \A k \in Node : k = n \/ k = o
  BY Ends, P2PAssumption DEF Node, Other
<1>1. UNCHANGED <<writer, quit, down, blocks>> /\ w # <<>>
  BY DEF ReaderHandle, loops
<1>2. wire'[o] = Tail(w) /\ wire'[n] = wire[n] /\ got'[o] = got[o]
  BY <1>0 DEF ReaderHandle, OrderInv, TypeOK
<1>3. /\ Lane(n)' /\ (~down => Standing(n)')
      /\ dropped' = dropped /\ sendCh'[o] = sendCh[o]
  <2>1. CASE Head(w).type = "ping"
    <3>1. Send(n, Msg("pong"))
      BY <2>1 DEF ReaderHandle
    <3>2. Msg("pong") \in Message /\ ~IsBlock(Msg("pong"))
      BY SignalsAreMessages
    <3> QED  BY <1>0, <1>1, <1>2, <3>1, <3>2, SignalKeepsOrder
  <2>2. CASE Head(w).type # "ping"
    <3>1. UNCHANGED <<sendCh, dropped>>
      BY <2>2 DEF ReaderHandle
    <3> QED  BY <1>0, <1>1, <1>2, <3>1, Untouched DEF OrderInv
  <2> QED  BY <2>1, <2>2
<1>4. Lane(o) /\ blocks[o] \in Nat /\ (~down => Standing(o))
  BY <1>0 DEF OrderInv, TypeOK
<1>5. got'[n] = IF IsBlock(Head(w)) THEN Append(got[n], Head(w).num) ELSE got[n]
  BY DEF ReaderHandle, IsBlock, OrderInv, TypeOK
<1>6. /\ InOrder(got'[n], Tail(w), Encoding(o), sendCh[o], blocks[o])
      /\ ToSet(got'[n]) \cup Nums(Tail(w)) = ToSet(got[n]) \cup Nums(w)
  <2>1. InOrder(got[n], w, Encoding(o), sendCh[o], blocks[o])
    BY <1>0, <1>4 DEF Lane
  <2> QED  BY <1>1, <1>4, <1>5, <2>1, InOrderHandle
<1>7. Encoding(o)' = Encoding(o)
  BY <1>1 DEF Encoding
<1>8. Lane(o)'
  BY <1>0, <1>1, <1>2, <1>3, <1>6, <1>7 DEF Lane
<1>9. ~down => Standing(o)'
  BY <1>0, <1>1, <1>2, <1>3, <1>4, <1>6, <1>7 DEF Standing, Arriving
<1> QED  BY <1>0, <1>1, <1>3, <1>8, <1>9

LEMMA BroadcastKeepsOrder ==
  ASSUME OrderInv, NEW n \in Node, Broadcast(n)
  PROVE  /\ \A k \in Node : Lane(k)'
         /\ ~down' => \A k \in Node : Standing(k)'
<1> DEFINE top == blocks[n]
           m == [type |-> "newBlock", num |-> top + 1]
<1>1. UNCHANGED <<writer, quit, wire, down, got>>
  BY DEF Broadcast, loops
<1>2. Lane(n) /\ top \in Nat /\ (~down => Standing(n)) /\ TypeOK
  BY DEF OrderInv, TypeOK
<1>3. /\ m \in Message /\ IsBlock(m) /\ Send(n, m) /\ Block(m) = {top + 1}
      /\ blocks'[n] = top + 1 /\ \A k \in Node \ {n} : blocks'[k] = blocks[k]
  <2>1. top + 1 \in Nat
    BY <1>2
  <2>2. m \in Message /\ IsBlock(m) /\ m.num = top + 1
    BY <2>1, SignalsAreMessages
  <2>3. Block(m) = {top + 1}
    BY <2>2 DEF Block
  <2>4. /\ Send(n, m)
        /\ blocks'[n] = top + 1 /\ \A k \in Node \ {n} : blocks'[k] = blocks[k]
    BY <1>2 DEF Broadcast, TypeOK
  <2> QED  BY <2>2, <2>3, <2>4
<1>4. /\ \A k \in Node \ {n} : sendCh'[k] = sendCh[k] /\ dropped'[k] = dropped[k]
      /\ \/ sendCh'[n] = Append(sendCh[n], m) /\ dropped'[n] = dropped[n]
         \/ /\ sendCh'[n] = sendCh[n]
            /\ dropped'[n] = IF ~down THEN dropped[n] \cup {top + 1} ELSE dropped[n]
  BY <1>2, <1>3, SendEffect
<1>5. ASSUME NEW k \in Node \ {n} PROVE Lane(k)' /\ (~down => Standing(k)')
  BY <1>1, <1>3, <1>4, Untouched DEF OrderInv
<1>6. /\ InOrder(got[Other(n)], wire[n], Encoding(n), sendCh[n], top + 1)
      /\ InOrder(got[Other(n)], wire[n], Encoding(n), Append(sendCh[n], m), top + 1)
      /\ Nums(Append(sendCh[n], m)) = Nums(sendCh[n]) \cup {top + 1}
  <2>1. InOrder(got[Other(n)], wire[n], Encoding(n), sendCh[n], top)
    BY <1>2 DEF Lane
  <2>2. top <= top + 1 /\ top + 1 \in Nat /\ Block(m) \subseteq top + 1 .. top + 1
    BY <1>2, <1>3
  <2> QED  BY <1>2, <1>3, <2>1, <2>2, InOrderSend
<1>7. Encoding(n)' = Encoding(n)
  BY <1>1 DEF Encoding
<1>8. Lane(n)'
  BY <1>1, <1>3, <1>4, <1>6, <1>7 DEF Lane
<1>9. ASSUME ~down PROVE Standing(n)'
  <2>1. ~quit'[n] /\ 1 .. top \subseteq Arriving(n) \cup dropped[n]
    BY <1>1, <1>2, <1>9 DEF Standing
  <2>2. 1 .. top + 1 = (1 .. top) \cup {top + 1}
    BY <1>2
  <2>3. Arriving(n) \cup dropped[n] \cup {top + 1} \subseteq Arriving(n)' \cup dropped'[n]
    BY <1>1, <1>4, <1>6, <1>7, <1>9 DEF Arriving
  <2> QED  BY <1>3, <2>1, <2>2, <2>3 DEF Standing
<1> QED  BY <1>1, <1>5, <1>8, <1>9

LEMMA OrderInvNext == OrderInv /\ [Next]_vars => OrderInv'
<1> SUFFICES ASSUME OrderInv, [Next]_vars PROVE OrderInv'
  OBVIOUS
<1> DEFINE Goal == /\ \A k \in Node : Lane(k)'
                   /\ ~down' => \A k \in Node : Standing(k)'
<1>0. TypeOK /\ TypeOK'
  BY TypeNext DEF OrderInv
<1>1. ASSUME NEW n \in Node, WriterTake(n) PROVE Goal
  BY <1>1, TakeKeepsOrder
<1>2. ASSUME NEW n \in Node, WriterQuit(n) PROVE Goal
  <2>1. quit[n] /\ down' = down /\ got' = got /\ blocks' = blocks /\ wire' = wire
    BY <1>2 DEF WriterQuit
  <2>2. down
    BY <2>1 DEF OrderInv, Standing
  <2>3. \A k \in Node : Encoding(k)' \in {Encoding(k), <<>>} /\ sendCh'[k] \in {sendCh[k], <<>>}
    BY <1>0, <1>2 DEF WriterQuit, Encoding, TypeOK
  <2> QED  BY <2>1, <2>2, <2>3, LossKeepsOrder
<1>3. ASSUME NEW n \in Node, WriterWrite(n) PROVE Goal
  BY <1>3, WriteKeepsOrder
<1>4. ASSUME NEW n \in Node, WriterClose(n) PROVE Goal
  <2>1. Close(n) /\ got' = got /\ blocks' = blocks
    BY <1>4 DEF WriterClose
  <2>2. down' = TRUE /\ \A k \in Node : wire'[k] \in {wire[k], <<>>}
    BY <1>0, <2>1, CloseEffect, Ends
  <2>3. \A k \in Node : Encoding(k)' \in {Encoding(k), <<>>} /\ sendCh'[k] \in {sendCh[k], <<>>}
    BY <1>0, <1>4 DEF WriterClose, Encoding, TypeOK
  <2> QED  BY <2>1, <2>2, <2>3, LossKeepsOrder
<1>5. ASSUME NEW n \in Node, ReaderHandle(n) PROVE Goal
  BY <1>5, HandleKeepsOrder
<1>6. ASSUME NEW n \in Node, ReaderFail(n) PROVE Goal
  <2>1. down /\ UNCHANGED <<sendCh, writer, down, blocks, got>>
    BY <1>6 DEF ReaderFail
  <2>2. \A k \in Node : wire'[k] \in {wire[k], <<>>} /\ Encoding(k)' = Encoding(k)
    BY <1>0, <1>6, <2>1 DEF ReaderFail, Discard, Encoding, TypeOK
  <2> QED  BY <2>1, <2>2, LossKeepsOrder
<1>7. ASSUME NEW n \in Node, ReaderClose(n) PROVE Goal
  <2>1. Close(n) /\ UNCHANGED <<sendCh, writer, blocks, got>>
    BY <1>7 DEF ReaderClose
  <2>2. down' = TRUE /\ \A k \in Node : wire'[k] \in {wire[k], <<>>} /\ Encoding(k)' = Encoding(k)
    BY <1>0, <2>1, CloseEffect, Ends DEF Encoding
  <2> QED  BY <2>1, <2>2, LossKeepsOrder
<1>8. ASSUME NEW n \in Node, Ping(n) \/ (n = Acceptor /\ Greet) PROVE Goal
  <2>1. PICK m \in Message : ~IsBlock(m) /\ Send(n, m)
    BY <1>8, SignalsAreMessages DEF Ping, Greet
  <2>2. UNCHANGED <<writer, quit, wire, down, blocks, got>>
    BY <1>8 DEF Ping, Greet, loops
  <2>3. /\ Lane(n)' /\ (~down => Standing(n)')
        /\ dropped' = dropped /\ \A k \in Node \ {n} : sendCh'[k] = sendCh[k]
    BY <2>1, <2>2, SignalKeepsOrder
  <2>4. ASSUME NEW k \in Node \ {n} PROVE Lane(k)' /\ (~down => Standing(k)')
    BY <2>2, <2>3, Untouched DEF OrderInv
  <2> QED  BY <2>2, <2>3, <2>4
<1>9. ASSUME NEW n \in Node, Broadcast(n) PROVE Goal
  BY <1>9, BroadcastKeepsOrder
<1>10. ASSUME Cut PROVE Goal
  <2>1. down' = TRUE /\ UNCHANGED <<sendCh, writer, wire, blocks, got>>
    BY <1>10 DEF Cut, loops
  <2>2. \A k \in Node : Encoding(k)' = Encoding(k)
    BY <2>1 DEF Encoding
  <2> QED  BY <2>1, <2>2, LossKeepsOrder
<1>11. ASSUME UNCHANGED vars PROVE Goal
  <2>1. UNCHANGED <<sendCh, writer, quit, wire, down, blocks, dropped, got>>
    BY <1>11 DEF vars
  <2> QED  BY <2>1, Untouched DEF OrderInv
<1>12. Goal
  <2>1. Acceptor \in Node
    BY DEF Node
  <2> HIDE DEF Goal
  <2> QED  BY <1>1, <1>2, <1>3, <1>4, <1>5, <1>6, <1>7, <1>8, <1>9, <1>10, <1>11, <2>1
           DEF Next, WriterStep, ReaderStep, WriterFail, WriterTimeout
<1> QED  BY <1>0, <1>12 DEF OrderInv

\* What is handed over and what is on its way, in a row.
LEMMA OrderMeans ==
  ASSUME OrderInv, NEW n \in Node
  PROVE  /\ Rising(got[Other(n)], blocks[n]) /\ Rises(Way(n))
         /\ Nums(Way(n)) = Nums(wire[n]) \cup Nums(Encoding(n)) \cup Nums(sendCh[n])
         /\ Below(ToSet(got[Other(n)]), Nums(Way(n)))
<1>1. Lane(n) /\ blocks[n] \in Nat
  BY DEF OrderInv, TypeOK
<1>2. InOrder(got[Other(n)], wire[n], Encoding(n), sendCh[n], blocks[n])
  BY <1>1 DEF Lane
<1>3. /\ Rises(Way(n))
      /\ Nums(Way(n)) = Nums(wire[n]) \cup Nums(Encoding(n)) \cup Nums(sendCh[n])
  BY <1>1, <1>2, InOrderWay DEF Way
<1> QED  BY <1>2, <1>3 DEF InOrder

\* A node gets the blocks of the other in the order of their broadcast and none
\* twice: for any capacities, whatever Send drops and wherever the connection breaks.
THEOREM InOrderOnceCorrect == Spec => []InOrderOnce
<1>1. ASSUME OrderInv PROVE InOrderOnce
  <2> SUFFICES ASSUME NEW n \in Node
               PROVE  LET g == got[Other(n)]
                          way == Way(n)
                      IN  /\ \A i, j \in DOMAIN g : i < j => g[i] < g[j]
                          /\ \A i, j \in DOMAIN way :
                               i < j /\ IsBlock(way[i]) /\ IsBlock(way[j]) => way[i].num < way[j].num
                          /\ \A i \in DOMAIN g, j \in DOMAIN way : IsBlock(way[j]) => g[i] < way[j].num
    BY DEF InOrderOnce
  <2> DEFINE g == got[Other(n)]
             way == Way(n)
  <2>1. Rising(g, blocks[n]) /\ Rises(way) /\ Below(ToSet(g), Nums(way))
    BY <1>1, OrderMeans
  <2>2. \A i, j \in DOMAIN g : i < j => g[i] < g[j]
    BY <2>1 DEF Rising
  <2>3. \A i, j \in DOMAIN way :
          i < j /\ IsBlock(way[i]) /\ IsBlock(way[j]) => way[i].num < way[j].num
    BY <2>1 DEF Rises
  <2>4. ASSUME NEW i \in DOMAIN g, NEW j \in DOMAIN way, IsBlock(way[j]) PROVE g[i] < way[j].num
    <3>1. g[i] \in ToSet(g)
      BY DEF ToSet
    <3>2. way[j].num \in Nums(way)
      BY <2>4, NumsPlaces
    <3> QED  BY <2>1, <3>1, <3>2 DEF Below
  <2> QED  BY <2>2, <2>3, <2>4
<1> QED  BY <1>1, OrderInvInit, OrderInvNext, PTL DEF Spec

\* While the connection stands, a full channel is the only place where a block is lost.
THEOREM NothingElseLostCorrect == Spec => []NothingElseLost
<1>1. ASSUME OrderInv PROVE NothingElseLost
  <2> SUFFICES ASSUME ~down, NEW n \in Node
               PROVE  1 .. blocks[n] \subseteq ToSet(got[Other(n)]) \cup OnTheWay(n) \cup dropped[n]
    BY DEF NothingElseLost
  <2>1. 1 .. blocks[n] \subseteq Arriving(n) \cup dropped[n]
    BY <1>1 DEF OrderInv, Standing
  <2>2. OnTheWay(n) = Nums(wire[n]) \cup Nums(Encoding(n)) \cup Nums(sendCh[n])
    BY <1>1, OrderMeans DEF OnTheWay, Nums
  <2> QED  BY <2>1, <2>2 DEF Arriving
<1> QED  BY <1>1, OrderInvInit, OrderInvNext, PTL DEF Spec
=============================================================================

--------------------------- MODULE MempoolProofs ----------------------------
(***************************************************************************)
(* The safety of the transaction pool, for every set of senders, hashes    *)
(* and transactions and every size of the pool.                            *)
(*                                                                         *)
(* The first half is about container/heap: what its operations do to the   *)
(* array and to the heapIndex fields, and that they keep the order of the  *)
(* prices.  The second half is the inductive invariant of the pool.        *)
(***************************************************************************)
EXTENDS Mempool, Lemmas

----------------------------------------------------------------------------
(***************************************************************************)
(* Heaps of n entries                                                      *)
(***************************************************************************)

Heaps(n) == [arr : [1 .. n -> Entry], pos : [Id -> 0 .. MaxSize]]

\* A heap and a position in it: where a sift has come to.
Sifts(n) == [heap : Heaps(n), at : 1 .. n]

\* heapIndex is where the entry stands.
Tracked(h) == \A i \in DOMAIN h.arr : h.pos[h.arr[i].id] = i

\* g has the entries of h, and keeps track of them if h does.
Rearranged(h, g, n) ==
  /\ g \in Heaps(n)
  /\ Range(g.arr) = Range(h.arr)
  /\ Tracked(h) => Tracked(g)

Prices(h) == [i \in DOMAIN h.arr |-> h.arr[i].tx.price]

LEMMA EntryType ==
  /\ \A e \in Entry : /\ e.id \in Id /\ e.tx \in Tx
                      /\ e.tx.hash \in Hash /\ e.tx.from \in Sender
                      /\ e.tx.nonce \in Nat /\ e.tx.price \in Nat
  /\ \A e \in Entry : e = [id |-> e.id, tx |-> e.tx]
BY TxAssumption DEF Entry

LEMMA HeapType ==
  ASSUME NEW n \in Nat, NEW h \in Heaps(n)
  PROVE  /\ h.arr \in [1 .. n -> Entry] /\ h.pos \in [Id -> 0 .. MaxSize]
         /\ DOMAIN h.arr = 1 .. n /\ Len(h.arr) = n /\ h.arr \in Seq(Entry)
         /\ h = [arr |-> h.arr, pos |-> h.pos]
         /\ Prices(h) \in [1 .. n -> Nat]
         /\ \A i \in 1 .. n : Prices(h)[i] = h.arr[i].tx.price
<1>1. h.arr \in [1 .. n -> Entry] /\ h.pos \in [Id -> 0 .. MaxSize] /\ h = [arr |-> h.arr, pos |-> h.pos]
  BY DEF Heaps
<1>2. DOMAIN h.arr = 1 .. n /\ h.arr \in Seq(Entry) /\ Len(h.arr) = n
  BY <1>1
<1>3. \A i \in 1 .. n : h.arr[i].tx.price \in Nat
  BY <1>1, EntryType
<1> QED  BY <1>1, <1>2, <1>3 DEF Prices

\* A swap rearranges: two entries change places, in the array and in their heapIndex.
LEMMA SwapFacts ==
  ASSUME NEW n \in 1 .. MaxSize, NEW h \in Heaps(n), NEW i \in 1 .. n, NEW j \in 1 .. n
  PROVE  /\ Rearranged(h, Swap(h, i, j), n)
         /\ \A k \in 1 .. n : Swap(h, i, j).arr[k] =
              IF k = j THEN h.arr[i] ELSE IF k = i THEN h.arr[j] ELSE h.arr[k]
<1> DEFINE g == Swap(h, i, j)
<1>0. n \in Nat /\ MaxSize \in Nat
  BY SizeAssumption
<1>1. h.arr \in [1 .. n -> Entry] /\ h.pos \in [Id -> 0 .. MaxSize]
  BY <1>0, HeapType
<1>2. h.arr[i].id \in Id /\ h.arr[j].id \in Id /\ i \in 0 .. MaxSize /\ j \in 0 .. MaxSize
  BY <1>0, <1>1, EntryType
<1>3. g.arr = [h.arr EXCEPT ![i] = h.arr[j], ![j] = h.arr[i]]
      /\ g.pos = [h.pos EXCEPT ![h.arr[j].id] = i, ![h.arr[i].id] = j]
      /\ g = [arr |-> g.arr, pos |-> g.pos]
  BY DEF Swap
<1> HIDE DEF g
<1>4. g.arr \in [1 .. n -> Entry] /\ g.pos \in [Id -> 0 .. MaxSize]
  BY <1>1, <1>2, <1>3
<1>5. \A k \in 1 .. n : g.arr[k] = IF k = j THEN h.arr[i] ELSE IF k = i THEN h.arr[j] ELSE h.arr[k]
  BY <1>1, <1>3
<1>6. Range(g.arr) = Range(h.arr)
  <2>1. ASSUME NEW e \in Range(h.arr) PROVE e \in Range(g.arr)
    <3>1. PICK k \in 1 .. n : e = h.arr[k]
      BY <1>1 DEF Range
    <3>2. e = g.arr[IF k = i THEN j ELSE IF k = j THEN i ELSE k]
      BY <3>1, <1>5
    <3> QED  BY <3>2, <1>4 DEF Range
  <2>2. ASSUME NEW e \in Range(g.arr) PROVE e \in Range(h.arr)
    <3>1. PICK k \in 1 .. n : e = g.arr[k]
      BY <1>4 DEF Range
    <3>2. e = h.arr[IF k = j THEN i ELSE IF k = i THEN j ELSE k]
      BY <3>1, <1>5
    <3> QED  BY <3>2, <1>1 DEF Range
  <2> QED  BY <2>1, <2>2
<1>7. ASSUME Tracked(h) PROVE Tracked(g)
  <2>1. \A k \in 1 .. n : h.pos[h.arr[k].id] = k
    BY <1>1, <1>7 DEF Tracked
  <2>2. ASSUME NEW k \in 1 .. n PROVE g.pos[g.arr[k].id] = k
    <3>1. CASE k = j
      BY <1>1, <1>2, <1>3, <1>5, <3>1
    <3>2. CASE k # j /\ k = i
      <4>1. h.arr[i].id # h.arr[j].id
        BY <2>1, <3>2
      <4> QED  BY <1>1, <1>2, <1>3, <1>5, <3>2, <4>1
    <3>3. CASE k # j /\ k # i
      <4>1. h.arr[k].id # h.arr[j].id /\ h.arr[k].id # h.arr[i].id /\ h.arr[k].id \in Id
        BY <2>1, <3>3, <1>1, EntryType
      <4> QED  BY <1>1, <1>2, <1>3, <1>5, <2>1, <3>3, <4>1
    <3> QED  BY <3>1, <3>2, <3>3
  <2> QED  BY <1>4, <2>2 DEF Tracked
<1>8. g \in Heaps(n)
  BY <1>3, <1>4 DEF Heaps
<1> QED  BY <1>5, <1>6, <1>7, <1>8 DEF g, Rearranged

----------------------------------------------------------------------------
(***************************************************************************)
(* The order of prices p, of which the first m are in the heap: no price   *)
(* is above its parent's.                                                  *)
(***************************************************************************)

Descends(p, m) == \A k \in 2 .. m : p[k] <= p[k \div 2]

\* Only at's children may be out of order, and they are in order with at's parent.
Sinkable(p, at, m) ==
  \A k \in 2 .. m : /\ k \div 2 # at => p[k] <= p[k \div 2]
                    /\ k \div 2 = at /\ at >= 2 => p[k] <= p[at \div 2]

\* Only at may be out of order with its parent, and its children are not.
Risable(p, at, m) ==
  \A k \in 2 .. m : /\ k # at => p[k] <= p[k \div 2]
                    /\ k \div 2 = at /\ at >= 2 => p[k] <= p[at \div 2]

\* at is in order with its children.
Settled(p, at, m) == \A k \in 2 .. m : k \div 2 = at => p[k] <= p[at]

\* The prices q are p with i and j exchanged.
Exchanged(p, q, i, j, n) ==
  \A k \in 1 .. n : q[k] = IF k = j THEN p[i] ELSE IF k = i THEN p[j] ELSE p[k]

\* The larger child of at changes places with at.
LEMMA SinkOrder ==
  ASSUME NEW n \in Nat, NEW m \in 0 .. n, NEW p \in [1 .. n -> Nat], NEW q \in [1 .. n -> Nat],
         NEW at \in 1 .. n, NEW child \in 2 .. m, child \div 2 = at, Sinkable(p, at, m),
         p[at] < p[child], \A k \in 2 .. m : k \div 2 = at => p[k] <= p[child],
         Exchanged(p, q, at, child, n)
  PROVE  Sinkable(q, child, m)
<1> SUFFICES ASSUME NEW k \in 2 .. m
             PROVE  /\ k \div 2 # child => q[k] <= q[k \div 2]
                    /\ k \div 2 = child /\ child >= 2 => q[k] <= q[child \div 2]
  BY DEF Sinkable
<1>1. /\ k \div 2 # at => p[k] <= p[k \div 2]
      /\ k \div 2 = at /\ at >= 2 => p[k] <= p[at \div 2]
      /\ k \div 2 = at => p[k] <= p[child]
      /\ at >= 2 => p[child] <= p[at \div 2]
  BY DEF Sinkable
<1>2. k \in 1 .. n /\ k \div 2 \in 1 .. n /\ at < child /\ k \div 2 < k /\ child \in 1 .. n
  OBVIOUS
<1>3. q[k] = (IF k = child THEN p[at] ELSE IF k = at THEN p[child] ELSE p[k])
      /\ q[k \div 2] = (IF k \div 2 = child THEN p[at] ELSE IF k \div 2 = at THEN p[child] ELSE p[k \div 2])
      /\ q[at] = p[child]
  BY <1>2 DEF Exchanged
<1>4. p[at] \in Nat /\ p[child] \in Nat /\ p[k] \in Nat /\ p[k \div 2] \in Nat
  BY <1>2
<1>5. CASE k \div 2 = child
  BY <1>1, <1>2, <1>3, <1>4, <1>5
<1>6. CASE k \div 2 # child /\ k = at
  BY <1>1, <1>2, <1>3, <1>4, <1>6
<1>7. CASE k \div 2 # child /\ k # at
  <2>1. CASE k \div 2 = at
    BY <1>1, <1>3, <1>4, <1>7, <2>1
  <2>2. CASE k \div 2 # at
    BY <1>1, <1>3, <1>4, <1>7, <2>2
  <2> QED  BY <2>1, <2>2
<1> QED  BY <1>5, <1>6, <1>7

\* at's price is above its parent's.
Light(p, at, parent) == parent = at \div 2 /\ p[parent] < p[at]

\* at changes places with its parent.
LEMMA RiseOrder ==
  ASSUME NEW n \in Nat, NEW m \in 0 .. n, NEW p \in [1 .. n -> Nat], NEW q \in [1 .. n -> Nat],
         NEW at \in 2 .. m, NEW parent, Light(p, at, parent), Risable(p, at, m),
         Exchanged(p, q, parent, at, n)
  PROVE  Risable(q, parent, m)
<1>14. parent = at \div 2 /\ p[parent] < p[at]
  BY DEF Light
<1> SUFFICES ASSUME NEW k \in 2 .. m
             PROVE  /\ k # parent => q[k] <= q[k \div 2]
                    /\ k \div 2 = parent /\ parent >= 2 => q[k] <= q[parent \div 2]
  BY DEF Risable
<1>0. parent \in 1 .. n /\ parent < at /\ at \in 1 .. n
  BY <1>14
<1>1. \E half, grand : half = k \div 2 /\ grand = parent \div 2
  OBVIOUS
<1>2. PICK half, grand : half = k \div 2 /\ grand = parent \div 2
  BY <1>1
<1>3. k \in 1 .. n /\ half \in 1 .. n /\ half < k /\ grand < parent /\ (parent >= 2 => grand \in 1 .. n)
  BY <1>0, <1>2
<1>4. k # at => p[k] <= p[half]
  BY <1>2 DEF Risable
<1>11. half = at => p[k] <= p[parent]
  <2>1. at >= 2
    OBVIOUS
  <2> QED  BY <2>1, <1>2, <1>14 DEF Risable
<1>5. parent >= 2 => p[parent] <= p[grand]
  <2>1. parent >= 2 => parent \in 2 .. m /\ parent # at
    BY <1>0
  <2> QED  BY <1>2, <2>1 DEF Risable
<1>6. q[k] = IF k = at THEN p[parent] ELSE IF k = parent THEN p[at] ELSE p[k]
  BY <1>3 DEF Exchanged
<1>7. q[half] = IF half = at THEN p[parent] ELSE IF half = parent THEN p[at] ELSE p[half]
  BY <1>3 DEF Exchanged
<1>8. parent >= 2 => q[grand] = p[grand]
  BY <1>0, <1>3 DEF Exchanged
<1>9. p[at] \in Nat /\ p[parent] \in Nat /\ p[k] \in Nat /\ p[half] \in Nat
      /\ (parent >= 2 => p[grand] \in Nat)
  BY <1>0, <1>3
<1>10. k = at => half = parent
  BY <1>14, <1>2
<1>12. k # parent => q[k] <= q[half]
  <2>1. CASE k = at
    BY <1>14, <1>0, <1>6, <1>7, <1>9, <1>10, <2>1
  <2>2. CASE k # at /\ half = at
    BY <1>14, <1>0, <1>6, <1>7, <1>9, <1>11, <2>2
  <2>3. CASE k # at /\ half # at /\ half = parent
    <3>1. k # parent => q[k] = p[k] /\ q[half] = p[at] /\ p[k] <= p[parent]
      BY <1>4, <1>6, <1>7, <2>3
    <3> QED  BY <1>9, <1>14, <3>1
  <2>4. CASE k # at /\ half # at /\ half # parent
    BY <1>4, <1>6, <1>7, <2>4
  <2> QED  BY <2>1, <2>2, <2>3, <2>4
<1>13. ASSUME half = parent, parent >= 2 PROVE q[k] <= q[grand]
  <2>1. CASE k = at
    BY <1>14, <1>0, <1>5, <1>6, <1>8, <1>9, <1>13, <2>1
  <2>2. CASE k # at
    BY <1>14, <1>0, <1>3, <1>4, <1>5, <1>6, <1>8, <1>9, <1>13, <2>2
  <2> QED  BY <2>1, <2>2
<1> QED  BY <1>2, <1>12, <1>13

----------------------------------------------------------------------------
(***************************************************************************)
(* Sinking                                                                 *)
(***************************************************************************)

\* A turn of the loop of heap.down.
SinkOnce(s, m) ==
  LET child == LeastChild(s.heap, s.at, m)
  IN  IF child <= m /\ Less(s.heap, child, s.at)
      THEN [heap |-> Swap(s.heap, s.at, child), at |-> child]
      ELSE s

\* What a turn does to the heap: nothing when at is settled, else at sinks.
LEMMA SinkOnceFacts ==
  ASSUME NEW n \in 1 .. MaxSize, NEW m \in 0 .. n, NEW s \in Sifts(n), NEW t, t = SinkOnce(s, m)
  PROVE  /\ t \in Sifts(n) /\ Rearranged(s.heap, t.heap, n)
         /\ \A k \in m + 1 .. n : t.heap.arr[k] = s.heap.arr[k]
         /\ \/ t = s /\ Settled(Prices(s.heap), s.at, m)
            \/ /\ t.at \in 2 .. m /\ t.at \div 2 = s.at
               /\ ~Settled(Prices(s.heap), s.at, m)
               /\ Sinkable(Prices(s.heap), s.at, m) => Sinkable(Prices(t.heap), t.at, m)
<1> DEFINE h == s.heap
           at == s.at
           child == LeastChild(h, at, m)
           p == Prices(h)
<1>0. n \in Nat /\ MaxSize \in Nat /\ m \in Nat
  BY SizeAssumption
<1>1. h \in Heaps(n) /\ at \in 1 .. n /\ s = [heap |-> h, at |-> at]
  BY DEF Sifts
<1>2. p \in [1 .. n -> Nat] /\ \A i \in 1 .. n : p[i] = h.arr[i].tx.price
  BY <1>0, <1>1, HeapType
<1>3. /\ child \in Nat /\ child \div 2 = at /\ child > at
      /\ child <= m => \A k \in 2 .. m : k \div 2 = at => p[k] <= p[child]
      /\ child > m => 2 * at > m
  <2>1. \A i, j \in 1 .. n : Less(h, i, j) <=> p[i] > p[j]
    BY <1>2 DEF Less
  <2>2. \A k \in Nat : k \div 2 = at => k = 2 * at \/ k = 2 * at + 1
    BY <1>1
  <2>3. child = IF 2 * at + 1 <= m /\ Less(h, 2 * at + 1, 2 * at) THEN 2 * at + 1 ELSE 2 * at
    BY DEF LeastChild
  <2> HIDE DEF child, p, h, at
  <2>4. CASE 2 * at + 1 <= m /\ Less(h, 2 * at + 1, 2 * at)
    <3>1. child = 2 * at + 1 /\ p[2 * at] <= p[child]
      BY <2>1, <2>3, <2>4, <1>0, <1>1, <1>2
    <3>2. p[child] \in Nat
      BY <3>1, <2>4, <1>0, <1>1, <1>2
    <3> QED  BY <3>1, <3>2, <2>2, <2>4, <1>0, <1>1
  <2>5. CASE ~(2 * at + 1 <= m /\ Less(h, 2 * at + 1, 2 * at))
    <3>1. child = 2 * at /\ (2 * at + 1 <= m => p[2 * at + 1] <= p[child])
      BY <2>1, <2>3, <2>5, <1>0, <1>1, <1>2
    <3>2. child <= m => p[child] \in Nat
      BY <3>1, <1>0, <1>1, <1>2
    <3> QED  BY <3>1, <3>2, <2>2, <1>0, <1>1
  <2> QED  BY <2>4, <2>5
<1>4. t = IF child <= m /\ Less(h, child, at) THEN [heap |-> Swap(h, at, child), at |-> child] ELSE s
  BY DEF SinkOnce
<1>5. child <= m => (Less(h, child, at) <=> p[child] > p[at])
  BY <1>0, <1>1, <1>2, <1>3 DEF Less
<1> HIDE DEF h, at, child, p
<1>6. CASE child <= m /\ p[child] > p[at]
  <2>1. child \in 2 .. m /\ child \in 1 .. n
    BY <1>0, <1>1, <1>3, <1>6
  <2>2. t = [heap |-> Swap(h, at, child), at |-> child]
    BY <1>4, <1>5, <1>6
  <2>3. Rearranged(h, t.heap, n)
    BY <1>1, <2>1, <2>2, SwapFacts
  <2>4. \A k \in 1 .. n : t.heap.arr[k] =
          IF k = child THEN h.arr[at] ELSE IF k = at THEN h.arr[child] ELSE h.arr[k]
    BY <1>1, <2>1, <2>2, SwapFacts
  <2>5. t \in Sifts(n)
    BY <2>1, <2>2, <2>3 DEF Sifts, Rearranged
  <2>6. \A k \in m + 1 .. n : t.heap.arr[k] = h.arr[k]
    <3>1. \A k \in m + 1 .. n : k \in 1 .. n /\ k # child /\ k # at
      BY <1>0, <1>1, <1>3, <2>1
    <3> QED  BY <2>4, <3>1
  <2>7. ~Settled(p, at, m)
    <3>1. p[child] \in Nat /\ p[at] \in Nat
      BY <1>1, <1>2, <2>1
    <3> QED  BY <3>1, <1>3, <1>6, <2>1 DEF Settled
  <2>8. ASSUME Sinkable(p, at, m) PROVE Sinkable(Prices(t.heap), child, m)
    <3> DEFINE q == Prices(t.heap)
    <3>1. q \in [1 .. n -> Nat] /\ \A k \in 1 .. n : q[k] = t.heap.arr[k].tx.price
      BY <1>0, <2>3, HeapType DEF Rearranged
    <3>2. Exchanged(p, q, at, child, n)
      <4> HIDE DEF q
      <4> SUFFICES ASSUME NEW k \in 1 .. n
                   PROVE  q[k] = IF k = child THEN p[at] ELSE IF k = at THEN p[child] ELSE p[k]
        BY DEF Exchanged
      <4>1. q[k] = t.heap.arr[k].tx.price /\ p[k] = h.arr[k].tx.price
        BY <1>2, <3>1
      <4>2. p[at] = h.arr[at].tx.price /\ p[child] = h.arr[child].tx.price
        BY <1>1, <1>2, <2>1
      <4>3. t.heap.arr[k] = IF k = child THEN h.arr[at] ELSE IF k = at THEN h.arr[child] ELSE h.arr[k]
        BY <2>4
      <4> QED  BY <4>1, <4>2, <4>3
    <3> HIDE DEF q
    <3>3. p[at] < p[child] /\ child \div 2 = at
      BY <1>1, <1>2, <1>3, <1>6, <2>1
    <3>5. \A k \in 2 .. m : k \div 2 = at => p[k] <= p[child]
      BY <1>3, <1>6
    <3>6. at \in 1 .. n /\ child \in 2 .. m /\ p \in [1 .. n -> Nat] /\ q \in [1 .. n -> Nat]
      BY <1>1, <1>2, <2>1, <3>1
    <3>4. Sinkable(q, child, m)
      BY Zenon, <1>0, <2>8, <3>2, <3>3, <3>5, <3>6, SinkOrder
    <3> QED  BY <3>4 DEF q
  <2>9. t.at = child
    BY <2>2
  <2> QED  BY <2>1, <2>3, <2>5, <2>6, <2>7, <2>8, <2>9, <1>3 DEF h, at, p
<1>7. CASE ~(child <= m /\ p[child] > p[at])
  <2>1. t = s
    BY <1>4, <1>5, <1>7
  <2>2. Settled(p, at, m)
    <3> SUFFICES ASSUME NEW k \in 2 .. m, k \div 2 = at PROVE p[k] <= p[at]
      BY DEF Settled
    <3>1. k \in 1 .. n /\ k >= 2 * at
      BY <1>0, <1>1
    <3>2. child <= m
      BY <1>0, <1>1, <1>3, <3>1
    <3>3. child \in 1 .. n
      BY <1>0, <1>1, <1>3, <3>2
    <3>4. p[k] \in Nat /\ p[child] \in Nat /\ p[at] \in Nat
      BY <1>1, <1>2, <3>1, <3>3
    <3>5. p[k] <= p[child] /\ ~(p[child] > p[at])
      BY <1>3, <1>7, <3>2
    <3> QED  BY <3>4, <3>5
  <2>3. Rearranged(h, h, n)
    BY <1>1 DEF Rearranged
  <2> QED  BY <2>1, <2>2, <2>3 DEF h, at, p
<1> QED  BY <1>6, <1>7

\* The steps of heap.down, as functions.
Sinks(n, m) == [k \in 1 .. n |-> [s \in Sifts(n) |-> SinkOnce(s, m)]]

\* The loop of heap.down runs from the place it is given.
LEMMA DownRuns ==
  ASSUME NEW n \in 1 .. MaxSize, NEW m \in 0 .. n, NEW h \in Heaps(n), NEW i \in 1 .. n
  PROVE  \E g : /\ Recursion(g, n, Sifts(n), [heap |-> h, at |-> i], Sinks(n, m))
                /\ Down(h, i, m) = g[n]
<1> DEFINE a == [heap |-> h, at |-> i]
           Equation(x) == x = [k \in 0 .. n |-> IF k = 0 THEN a ELSE SinkOnce(x[k - 1], m)]
           g == CHOOSE x : Equation(x)
<1>0. n \in Nat /\ Len(h.arr) = n
  BY SizeAssumption, HeapType
<1>1. Down(h, i, m) = g[n]
  <2>1. Down(h, i, m) = (CHOOSE x : x = [k \in 0 .. Len(h.arr) |->
                            IF k = 0 THEN a ELSE SinkOnce(x[k - 1], m)])[Len(h.arr)]
    BY Zenon DEF Down, SinkOnce
  <2> QED  BY Zenon, <2>1, <1>0
<1>2. a \in Sifts(n)
  BY DEF Sifts
<1>3. \A s \in Sifts(n) : SinkOnce(s, m) \in Sifts(n)
  BY SinkOnceFacts
<1>4. Sinks(n, m) \in [1 .. n -> [Sifts(n) -> Sifts(n)]]
  BY <1>3 DEF Sinks
<1>5. \E f : Equation(f)
  <2> HIDE DEF a
  <2>1. PICK f : Recursion(f, n, Sifts(n), a, Sinks(n, m))
    BY Zenon, <1>0, <1>2, <1>4, RecursionHolds
  <2>2. ASSUME NEW k \in 0 .. n PROVE f[k] = IF k = 0 THEN a ELSE SinkOnce(f[k - 1], m)
    <3>1. CASE k = 0
      BY <2>1, <3>1 DEF Recursion
    <3>2. CASE k # 0
      <4>1. k \in 1 .. n /\ k - 1 \in 0 .. n
        BY <1>0, <3>2
      <4>2. f[k] = Sinks(n, m)[k][f[k - 1]] /\ f[k - 1] \in Sifts(n)
        BY <2>1, <4>1 DEF Recursion
      <4> QED  BY <3>2, <4>1, <4>2 DEF Sinks
    <3> QED  BY <3>1, <3>2
  <2>3. f = [k \in 0 .. n |-> f[k]]
    BY <2>1 DEF Recursion
  <2> QED  BY Zenon, <2>2, <2>3
<1>6. Equation(g)
  BY Zenon, <1>5
<1> HIDE DEF g
<1>7. g[0] = a /\ \A k \in 1 .. n : g[k] = SinkOnce(g[k - 1], m)
  BY <1>0, <1>6
<1>8. \A k \in 0 .. n : g[k] \in Sifts(n)
  <2> DEFINE S == {k \in 0 .. n : g[k] \in Sifts(n)}
  <2>1. 0 \in S
    BY <1>0, <1>2, <1>7
  <2>2. \A k \in 1 .. n : k - 1 \in S => k \in S
    BY <1>0, <1>3, <1>7
  <2>3. \A k \in 0 .. n : k \in S
    <3> HIDE DEF S
    <3> QED  BY <1>0, <2>1, <2>2, UpToInduction
  <2> QED  BY <2>3
<1>9. g \in [0 .. n -> Sifts(n)]
  BY <1>6, <1>8
<1>10. \A k \in 1 .. n : g[k] = Sinks(n, m)[k][g[k - 1]]
  <2> TAKE k \in 1 .. n
  <2>1. g[k - 1] \in Sifts(n)
    BY <1>0, <1>8
  <2> QED  BY <1>7, <2>1 DEF Sinks
<1> QED  BY <1>1, <1>7, <1>9, <1>10 DEF Recursion

\* How far the loop of heap.down has come after k turns.
Sunk(n, m, h, i, k, s) ==
  /\ Rearranged(h, s.heap, n)
  /\ \A j \in m + 1 .. n : s.heap.arr[j] = h.arr[j]
  /\ s.at >= i
  /\ s.at = i => s.heap = h /\ (k >= 1 => Settled(Prices(h), i, m))
  /\ Settled(Prices(h), i, m) => s.at = i
  /\ Settled(Prices(s.heap), s.at, m) \/ s.at >= i + k
  /\ Sinkable(Prices(h), i, m) => Sinkable(Prices(s.heap), s.at, m)

LEMMA SunkOnce ==
  ASSUME NEW n \in 1 .. MaxSize, NEW m \in 0 .. n, NEW h \in Heaps(n), NEW i \in 1 .. n,
         NEW k \in 1 .. n, NEW s \in Sifts(n), Sunk(n, m, h, i, k - 1, s)
  PROVE  Sunk(n, m, h, i, k, SinkOnce(s, m))
<1> DEFINE t == SinkOnce(s, m)
<1>0. n \in Nat /\ m \in Nat /\ MaxSize \in Nat
  BY SizeAssumption
<1>1. /\ t \in Sifts(n) /\ Rearranged(s.heap, t.heap, n)
      /\ \A j \in m + 1 .. n : t.heap.arr[j] = s.heap.arr[j]
      /\ \/ t = s /\ Settled(Prices(s.heap), s.at, m)
         \/ /\ t.at \in 2 .. m /\ t.at \div 2 = s.at
            /\ ~Settled(Prices(s.heap), s.at, m)
            /\ Sinkable(Prices(s.heap), s.at, m) => Sinkable(Prices(t.heap), t.at, m)
  BY SinkOnceFacts
<1>2. s.at \in 1 .. n
  BY DEF Sifts
<1> HIDE DEF t
<1>3. Rearranged(h, t.heap, n) /\ \A j \in m + 1 .. n : t.heap.arr[j] = h.arr[j]
  BY <1>1 DEF Sunk, Rearranged
<1>4. CASE t = s /\ Settled(Prices(s.heap), s.at, m)
  <2>1. s.at = i => Settled(Prices(h), i, m)
    BY <1>4 DEF Sunk
  <2> QED  BY <1>3, <1>4, <2>1 DEF Sunk, t
<1>5. CASE /\ t.at \in 2 .. m /\ t.at \div 2 = s.at
           /\ ~Settled(Prices(s.heap), s.at, m)
           /\ Sinkable(Prices(s.heap), s.at, m) => Sinkable(Prices(t.heap), t.at, m)
  <2>1. s.at >= i + (k - 1) /\ s.at >= i
    BY <1>5 DEF Sunk
  <2>2. t.at > s.at
    BY <1>2, <1>5
  <2>3. t.at >= i + k /\ t.at > i /\ t.at \in Nat
    BY <1>0, <1>2, <1>5, <2>1, <2>2
  <2>4. ~Settled(Prices(h), i, m)
    BY <1>5 DEF Sunk
  <2>5. Sinkable(Prices(h), i, m) => Sinkable(Prices(t.heap), t.at, m)
    BY <1>5 DEF Sunk
  <2>6. t.at >= i /\ t.at # i
    BY <2>3
  <2> QED  BY <1>3, <2>3, <2>4, <2>5, <2>6 DEF Sunk, t
<1> QED  BY <1>1, <1>4, <1>5

\* heap.down: the first m are in order when it ends, if only i's children were not;
\* and it ends where it started only if they were.
LEMMA DownFacts ==
  ASSUME NEW n \in 1 .. MaxSize, NEW m \in 0 .. n, NEW h \in Heaps(n), NEW i \in 1 .. n,
         NEW s, s = Down(h, i, m)
  PROVE  /\ s \in Sifts(n) /\ Rearranged(h, s.heap, n)
         /\ \A j \in m + 1 .. n : s.heap.arr[j] = h.arr[j]
         /\ s.at >= i
         /\ s.at = i <=> Settled(Prices(h), i, m)
         /\ Sinkable(Prices(h), i, m) => Descends(Prices(s.heap), m)
<1> DEFINE a == [heap |-> h, at |-> i]
           S == {x \in Nat \X Sifts(n) : Sunk(n, m, h, i, x[1], x[2])}
<1>0. n \in Nat /\ m \in Nat /\ MaxSize \in Nat /\ n >= 1
  BY SizeAssumption
<1>1. PICK g : Recursion(g, n, Sifts(n), a, Sinks(n, m)) /\ s = g[n]
  BY DownRuns
<1>2. a \in Sifts(n) /\ a.heap = h /\ a.at = i
  BY DEF Sifts
<1>3. <<0, a>> \in S
  <2>1. Sunk(n, m, h, i, 0, a)
    <3> HIDE DEF a
    <3> QED  BY <1>2 DEF Sunk, Rearranged
  <2> QED  BY <1>2, <2>1
<1>4. ASSUME NEW k \in 1 .. n, NEW x \in Sifts(n), <<k - 1, x>> \in S
      PROVE  <<k, Sinks(n, m)[k][x]>> \in S
  <2>1. Sinks(n, m)[k][x] = SinkOnce(x, m) /\ SinkOnce(x, m) \in Sifts(n)
    BY SinkOnceFacts DEF Sinks
  <2>2. Sunk(n, m, h, i, k - 1, x)
    BY <1>4
  <2>3. Sunk(n, m, h, i, k, SinkOnce(x, m))
    BY <2>2, SunkOnce
  <2> QED  BY <1>0, <2>1, <2>3
<1>5. \A k \in 0 .. n : g[k] \in Sifts(n) /\ <<k, g[k]>> \in S
  <2> HIDE DEF S, a
  <2>1. \A k \in 1 .. n : \A x \in Sifts(n) : <<k - 1, x>> \in S => <<k, Sinks(n, m)[k][x]>> \in S
    BY <1>4
  <2>2. StepsKeep(S, n, Sifts(n), a, Sinks(n, m))
    BY Zenon, <1>3, <2>1 DEF StepsKeep
  <2> QED  BY Zenon, <1>0, <1>1, <2>2, RecursionKeeps
<1>6. s \in Sifts(n) /\ Sunk(n, m, h, i, n, s)
  <2>1. n \in 0 .. n
    BY <1>0
  <2>2. g[n] \in Sifts(n) /\ <<n, g[n]>> \in S
    BY <1>5, <2>1
  <2>3. Sunk(n, m, h, i, n, g[n])
    BY <2>2
  <2> QED  BY <1>1, <2>2, <2>3
<1>7. s.at \in 1 .. n
  BY <1>6 DEF Sifts
<1>8. Settled(Prices(s.heap), s.at, m)
  BY <1>0, <1>6, <1>7 DEF Sunk
<1>9. ASSUME Sinkable(Prices(s.heap), s.at, m) PROVE Descends(Prices(s.heap), m)
  BY <1>8, <1>9 DEF Sinkable, Settled, Descends
<1> QED  BY <1>0, <1>6, <1>9 DEF Sunk

----------------------------------------------------------------------------
(***************************************************************************)
(* Rising                                                                  *)
(***************************************************************************)

\* A turn of the loop of heap.up.
RiseOnce(s) ==
  LET parent == s.at \div 2
  IN  IF parent >= 1 /\ Less(s.heap, s.at, parent)
      THEN [heap |-> Swap(s.heap, parent, s.at), at |-> parent]
      ELSE s

\* at is in order with its parent.
Topped(p, at) == at >= 2 => p[at] <= p[at \div 2]

\* What a turn does to the heap: nothing when at is in order, else at rises.
LEMMA RiseOnceFacts ==
  ASSUME NEW n \in 1 .. MaxSize, NEW s \in Sifts(n), NEW t, t = RiseOnce(s)
  PROVE  /\ t \in Sifts(n) /\ Rearranged(s.heap, t.heap, n)
         /\ \A k \in s.at + 1 .. n : t.heap.arr[k] = s.heap.arr[k]
         /\ \/ t = s /\ Topped(Prices(s.heap), s.at)
            \/ /\ s.at >= 2 /\ t.at = s.at \div 2 /\ ~Topped(Prices(s.heap), s.at)
               /\ \A m \in s.at .. n :
                    Risable(Prices(s.heap), s.at, m) => Risable(Prices(t.heap), t.at, m)
<1> DEFINE h == s.heap
           at == s.at
           parent == at \div 2
           p == Prices(h)
<1>0. n \in Nat /\ MaxSize \in Nat
  BY SizeAssumption
<1>1. h \in Heaps(n) /\ at \in 1 .. n /\ s = [heap |-> h, at |-> at]
  BY DEF Sifts
<1>2. p \in [1 .. n -> Nat] /\ \A i \in 1 .. n : p[i] = h.arr[i].tx.price
  BY <1>0, <1>1, HeapType
<1>3. t = IF parent >= 1 /\ Less(h, at, parent) THEN [heap |-> Swap(h, parent, at), at |-> parent] ELSE s
  BY DEF RiseOnce
<1>4. parent \in Nat /\ parent < at /\ (parent >= 1 <=> at >= 2)
  BY <1>1
<1>5. parent >= 1 => (Less(h, at, parent) <=> p[at] > p[parent])
  BY <1>0, <1>1, <1>2, <1>4 DEF Less
<1>6. Topped(p, at) <=> ~(parent >= 1 /\ p[at] > p[parent])
  <2>1. parent >= 1 => p[at] \in Nat /\ p[parent] \in Nat
    BY <1>1, <1>2, <1>4
  <2> HIDE DEF p, h, at
  <2> QED  BY <2>1, <1>4 DEF Topped
<1>10. parent = s.at \div 2
  OBVIOUS
<1> HIDE DEF h, at, parent, p
<1>7. CASE parent >= 1 /\ p[at] > p[parent]
  <2>1. parent \in 1 .. n /\ at >= 2
    BY <1>0, <1>1, <1>4, <1>7
  <2>2. t = [heap |-> Swap(h, parent, at), at |-> parent]
    BY <1>3, <1>5, <1>7
  <2>3. Rearranged(h, t.heap, n)
    BY <1>1, <2>1, <2>2, SwapFacts
  <2>4. \A k \in 1 .. n : t.heap.arr[k] =
          IF k = at THEN h.arr[parent] ELSE IF k = parent THEN h.arr[at] ELSE h.arr[k]
    BY <1>1, <2>1, <2>2, SwapFacts
  <2>5. t \in Sifts(n) /\ t.at = parent
    BY <2>1, <2>2, <2>3 DEF Sifts, Rearranged
  <2>6. \A k \in at + 1 .. n : t.heap.arr[k] = h.arr[k]
    <3>1. \A k \in at + 1 .. n : k \in 1 .. n /\ k # at /\ k # parent
      BY <1>0, <1>1, <1>4
    <3> QED  BY <2>4, <3>1
  <2>7. ASSUME NEW m \in at .. n, Risable(p, at, m) PROVE Risable(Prices(t.heap), parent, m)
    <3> DEFINE q == Prices(t.heap)
    <3>1. q \in [1 .. n -> Nat] /\ \A k \in 1 .. n : q[k] = t.heap.arr[k].tx.price
      BY <1>0, <2>3, HeapType DEF Rearranged
    <3>2. Exchanged(p, q, parent, at, n)
      <4> HIDE DEF q
      <4> SUFFICES ASSUME NEW k \in 1 .. n
                   PROVE  q[k] = IF k = at THEN p[parent] ELSE IF k = parent THEN p[at] ELSE p[k]
        BY DEF Exchanged
      <4>1. q[k] = t.heap.arr[k].tx.price /\ p[k] = h.arr[k].tx.price
        BY <1>2, <3>1
      <4>2. p[at] = h.arr[at].tx.price /\ p[parent] = h.arr[parent].tx.price
        BY <1>1, <1>2, <2>1
      <4>3. t.heap.arr[k] = IF k = at THEN h.arr[parent] ELSE IF k = parent THEN h.arr[at] ELSE h.arr[k]
        BY <2>4
      <4> QED  BY <4>1, <4>2, <4>3
    <3> HIDE DEF q
    <3>3. Light(p, at, parent)
      BY <1>1, <1>2, <1>7, <1>10, <2>1 DEF at, Light
    <3>6. at \in Nat /\ at >= 2 /\ m \in at .. n
      BY <1>0, <1>1, <2>1
    <3>7. at \in 2 .. m /\ m \in 0 .. n
      BY <1>0, <3>6
    <3>4. at \in 2 .. m /\ m \in 0 .. n /\ p \in [1 .. n -> Nat] /\ q \in [1 .. n -> Nat]
      BY Zenon, <1>2, <3>1, <3>7
    <3>5. Risable(q, parent, m)
      BY Zenon, <1>0, <2>7, <3>2, <3>3, <3>4, RiseOrder
    <3> QED  BY <3>5 DEF q
  <2>8. Rearranged(s.heap, t.heap, n) /\ \A k \in s.at + 1 .. n : t.heap.arr[k] = s.heap.arr[k]
    BY <2>3, <2>6 DEF h, at
  <2>9. ~Topped(p, at)
    BY <1>6, <1>7
  <2>10. s.at >= 2 /\ t.at = s.at \div 2 /\ ~Topped(Prices(s.heap), s.at)
    BY <1>10, <2>1, <2>5, <2>9 DEF h, at, p
  <2>11. \A m \in at .. n : Risable(p, at, m) => Risable(Prices(t.heap), t.at, m)
    BY <2>5, <2>7
  <2>12. \A m \in s.at .. n : Risable(Prices(s.heap), s.at, m) => Risable(Prices(t.heap), t.at, m)
    BY Zenon, <2>11 DEF h, at, p
  <2> QED  BY Zenon, <2>5, <2>8, <2>10, <2>12
<1>8. CASE ~(parent >= 1 /\ p[at] > p[parent])
  <2>1. t = s
    BY <1>3, <1>5, <1>8
  <2>2. Rearranged(h, h, n)
    BY <1>1 DEF Rearranged
  <2> QED  BY <1>6, <1>8, <2>1, <2>2 DEF h, at, p
<1> QED  BY <1>7, <1>8

\* The steps of heap.up, as functions.
Rises(n) == [k \in 1 .. n |-> [s \in Sifts(n) |-> RiseOnce(s)]]

\* The loop of heap.up runs from the place it is given.
LEMMA UpRuns ==
  ASSUME NEW n \in 1 .. MaxSize, NEW h \in Heaps(n), NEW j \in 1 .. n
  PROVE  \E g : /\ Recursion(g, n, Sifts(n), [heap |-> h, at |-> j], Rises(n))
                /\ Up(h, j) = g[n].heap
<1> DEFINE a == [heap |-> h, at |-> j]
           Equation(x) == x = [k \in 0 .. n |-> IF k = 0 THEN a ELSE RiseOnce(x[k - 1])]
           g == CHOOSE x : Equation(x)
<1>0. n \in Nat /\ Len(h.arr) = n
  BY SizeAssumption, HeapType
<1>1. Up(h, j) = g[n].heap
  <2>1. Up(h, j) = (CHOOSE x : x = [k \in 0 .. Len(h.arr) |->
                            IF k = 0 THEN a ELSE RiseOnce(x[k - 1])])[Len(h.arr)].heap
    BY Zenon DEF Up, RiseOnce
  <2> QED  BY Zenon, <2>1, <1>0
<1>2. a \in Sifts(n)
  BY DEF Sifts
<1>3. \A s \in Sifts(n) : RiseOnce(s) \in Sifts(n)
  BY RiseOnceFacts
<1>4. Rises(n) \in [1 .. n -> [Sifts(n) -> Sifts(n)]]
  BY <1>3 DEF Rises
<1>5. \E f : Equation(f)
  <2> HIDE DEF a
  <2>1. PICK f : Recursion(f, n, Sifts(n), a, Rises(n))
    BY Zenon, <1>0, <1>2, <1>4, RecursionHolds
  <2>2. ASSUME NEW k \in 0 .. n PROVE f[k] = IF k = 0 THEN a ELSE RiseOnce(f[k - 1])
    <3>1. CASE k = 0
      BY <2>1, <3>1 DEF Recursion
    <3>2. CASE k # 0
      <4>1. k \in 1 .. n /\ k - 1 \in 0 .. n
        BY <1>0, <3>2
      <4>2. f[k] = Rises(n)[k][f[k - 1]] /\ f[k - 1] \in Sifts(n)
        BY <2>1, <4>1 DEF Recursion
      <4> QED  BY <3>2, <4>1, <4>2 DEF Rises
    <3> QED  BY <3>1, <3>2
  <2>3. f = [k \in 0 .. n |-> f[k]]
    BY <2>1 DEF Recursion
  <2> QED  BY Zenon, <2>2, <2>3
<1>6. Equation(g)
  BY Zenon, <1>5
<1> HIDE DEF g
<1>7. g[0] = a /\ \A k \in 1 .. n : g[k] = RiseOnce(g[k - 1])
  BY <1>0, <1>6
<1>8. \A k \in 0 .. n : g[k] \in Sifts(n)
  <2> DEFINE S == {k \in 0 .. n : g[k] \in Sifts(n)}
  <2>1. 0 \in S
    BY <1>0, <1>2, <1>7
  <2>2. \A k \in 1 .. n : k - 1 \in S => k \in S
    BY <1>0, <1>3, <1>7
  <2>3. \A k \in 0 .. n : k \in S
    <3> HIDE DEF S
    <3> QED  BY <1>0, <2>1, <2>2, UpToInduction
  <2> QED  BY <2>3
<1>9. g \in [0 .. n -> Sifts(n)]
  BY <1>6, <1>8
<1>10. \A k \in 1 .. n : g[k] = Rises(n)[k][g[k - 1]]
  <2> TAKE k \in 1 .. n
  <2>1. g[k - 1] \in Sifts(n)
    BY <1>0, <1>8
  <2> QED  BY <1>7, <2>1 DEF Rises
<1> QED  BY <1>1, <1>7, <1>9, <1>10 DEF Recursion

\* How far the loop of heap.up has come after k turns.
Risen(n, h, j, k, s) ==
  /\ Rearranged(h, s.heap, n)
  /\ s.at <= j
  /\ \A i \in j + 1 .. n : s.heap.arr[i] = h.arr[i]
  /\ Topped(Prices(s.heap), s.at) \/ s.at <= j - k
  /\ \A m \in j .. n : Risable(Prices(h), j, m) => Risable(Prices(s.heap), s.at, m)

LEMMA RisenOnce ==
  ASSUME NEW n \in 1 .. MaxSize, NEW h \in Heaps(n), NEW j \in 1 .. n,
         NEW k \in 1 .. n, NEW s \in Sifts(n), Risen(n, h, j, k - 1, s)
  PROVE  Risen(n, h, j, k, RiseOnce(s))
<1> DEFINE t == RiseOnce(s)
<1>0. n \in Nat /\ MaxSize \in Nat
  BY SizeAssumption
<1>1. /\ t \in Sifts(n) /\ Rearranged(s.heap, t.heap, n)
      /\ \A i \in s.at + 1 .. n : t.heap.arr[i] = s.heap.arr[i]
      /\ \/ t = s /\ Topped(Prices(s.heap), s.at)
         \/ /\ s.at >= 2 /\ t.at = s.at \div 2 /\ ~Topped(Prices(s.heap), s.at)
            /\ \A m \in s.at .. n :
                 Risable(Prices(s.heap), s.at, m) => Risable(Prices(t.heap), t.at, m)
  BY RiseOnceFacts
<1>2. s.at \in 1 .. n /\ s.at <= j
  BY DEF Sifts, Risen
<1> HIDE DEF t
<1>3. Rearranged(h, t.heap, n)
  BY <1>1 DEF Risen, Rearranged
<1>4. \A i \in j + 1 .. n : t.heap.arr[i] = h.arr[i]
  <2>1. \A i \in j + 1 .. n : i \in s.at + 1 .. n
    BY <1>0, <1>2
  <2> QED  BY <1>1, <2>1 DEF Risen
<1>5. CASE t = s /\ Topped(Prices(s.heap), s.at)
  BY <1>3, <1>5 DEF Risen, t
<1>6. CASE /\ ~Topped(Prices(s.heap), s.at)
           /\ s.at >= 2 /\ t.at = s.at \div 2
           /\ \A m \in s.at .. n :
                Risable(Prices(s.heap), s.at, m) => Risable(Prices(t.heap), t.at, m)
  <2>1. s.at <= j - (k - 1)
    BY <1>6 DEF Risen
  <2>2. t.at <= j - k /\ t.at <= j
    BY <1>0, <1>2, <1>6, <2>1
  <2>3. \A m \in j .. n : Risable(Prices(h), j, m) => Risable(Prices(t.heap), t.at, m)
    <3>1. \A m \in j .. n : m \in s.at .. n
      BY <1>0, <1>2
    <3> QED  BY <1>6, <3>1 DEF Risen
  <2> QED  BY <1>3, <1>4, <2>2, <2>3 DEF Risen, t
<1> QED  BY <1>1, <1>5, <1>6

\* heap.up: the first m are in order when it ends, if only j was not with its parent.
LEMMA UpFacts ==
  ASSUME NEW n \in 1 .. MaxSize, NEW h \in Heaps(n), NEW j \in 1 .. n, NEW u, u = Up(h, j)
  PROVE  /\ Rearranged(h, u, n)
         /\ \A i \in j + 1 .. n : u.arr[i] = h.arr[i]
         /\ \A m \in j .. n : Risable(Prices(h), j, m) => Descends(Prices(u), m)
<1> DEFINE a == [heap |-> h, at |-> j]
           S == {x \in Nat \X Sifts(n) : Risen(n, h, j, x[1], x[2])}
<1>0. n \in Nat /\ MaxSize \in Nat /\ n >= 1
  BY SizeAssumption
<1>1. PICK g : Recursion(g, n, Sifts(n), a, Rises(n)) /\ u = g[n].heap
  BY UpRuns
<1>2. a \in Sifts(n) /\ a.heap = h /\ a.at = j
  BY DEF Sifts
<1>3. <<0, a>> \in S
  <2>1. Risen(n, h, j, 0, a)
    <3> HIDE DEF a
    <3> QED  BY <1>2 DEF Risen, Rearranged
  <2> QED  BY <1>2, <2>1
<1>4. ASSUME NEW k \in 1 .. n, NEW x \in Sifts(n), <<k - 1, x>> \in S
      PROVE  <<k, Rises(n)[k][x]>> \in S
  <2>1. Rises(n)[k][x] = RiseOnce(x) /\ RiseOnce(x) \in Sifts(n)
    BY RiseOnceFacts DEF Rises
  <2>2. Risen(n, h, j, k - 1, x)
    BY <1>4
  <2>3. Risen(n, h, j, k, RiseOnce(x))
    BY <2>2, RisenOnce
  <2> QED  BY <1>0, <2>1, <2>3
<1>5. \A k \in 0 .. n : g[k] \in Sifts(n) /\ <<k, g[k]>> \in S
  <2> HIDE DEF S, a
  <2>1. \A k \in 1 .. n : \A x \in Sifts(n) : <<k - 1, x>> \in S => <<k, Rises(n)[k][x]>> \in S
    BY <1>4
  <2>2. StepsKeep(S, n, Sifts(n), a, Rises(n))
    BY Zenon, <1>3, <2>1 DEF StepsKeep
  <2> QED  BY Zenon, <1>0, <1>1, <2>2, RecursionKeeps
<1>6. PICK s : s \in Sifts(n) /\ Risen(n, h, j, n, s) /\ u = s.heap
  <2>1. n \in 0 .. n
    BY <1>0
  <2>2. g[n] \in Sifts(n) /\ <<n, g[n]>> \in S
    BY <1>5, <2>1
  <2>3. Risen(n, h, j, n, g[n])
    BY <2>2
  <2> QED  BY <1>1, <2>2, <2>3
<1>7. s.at \in 1 .. n
  BY <1>6 DEF Sifts
<1>8. Topped(Prices(s.heap), s.at)
  BY <1>0, <1>6, <1>7 DEF Risen
<1>9. ASSUME NEW m \in j .. n, Risable(Prices(s.heap), s.at, m) PROVE Descends(Prices(s.heap), m)
  BY <1>8, <1>9 DEF Risable, Topped, Descends
<1> QED  BY <1>0, <1>6, <1>9 DEF Risen

----------------------------------------------------------------------------
(***************************************************************************)
(* The operations of container/heap                                        *)
(***************************************************************************)

LEMMA OrderedIsDescends ==
  ASSUME NEW n \in 0 .. MaxSize, NEW h \in Heaps(n)
  PROVE  HeapOrdered(h) <=> Descends(Prices(h), n)
<1>0. n \in Nat
  BY SizeAssumption
<1>1. DOMAIN h.arr = 1 .. n /\ Prices(h) \in [1 .. n -> Nat]
      /\ \A i \in 1 .. n : Prices(h)[i] = h.arr[i].tx.price
  BY <1>0, HeapType
<1>2. \A i \in 2 .. n : i \in 1 .. n /\ i \div 2 \in 1 .. n
  BY <1>0
<1>3. \A i \in 2 .. n : Less(h, i, i \div 2) <=> ~(Prices(h)[i] <= Prices(h)[i \div 2])
  BY <1>1, <1>2 DEF Less
<1>4. \A i \in 1 .. n : i > 1 <=> i \in 2 .. n
  BY <1>0
<1> QED  BY <1>1, <1>2, <1>3, <1>4 DEF HeapOrdered, Descends

\* In a heap no price is above the first one.
LEMMA FirstIsBest ==
  ASSUME NEW n \in 0 .. MaxSize, NEW h \in Heaps(n), HeapOrdered(h)
  PROVE  \A i \in 1 .. n : h.arr[i].tx.price <= h.arr[1].tx.price
<1> DEFINE p == Prices(h)
           S == {i \in 0 .. n : \A j \in 1 .. i : p[j] <= p[1]}
<1>0. n \in Nat
  BY SizeAssumption
<1>1. p \in [1 .. n -> Nat] /\ \A i \in 1 .. n : p[i] = h.arr[i].tx.price
  BY <1>0, HeapType
<1>2. \A k \in 2 .. n : p[k] <= p[k \div 2]
  BY OrderedIsDescends DEF Descends
<1> HIDE DEF p
<1>3. 0 \in S
  BY <1>0
<1>4. ASSUME NEW i \in 1 .. n, i - 1 \in S PROVE i \in S
  <2>1. p[i] <= p[1]
    <3>1. CASE i = 1
      BY <1>1, <3>1
    <3>2. CASE i # 1
      <4>1. i \div 2 \in 1 .. i - 1 /\ i \in 2 .. n /\ i \div 2 \in 1 .. n /\ 1 \in 1 .. n
        BY <3>2
      <4>2. p[i \div 2] <= p[1] /\ p[i] <= p[i \div 2]
        BY <1>2, <1>4, <4>1
      <4>3. p[i] \in Nat /\ p[i \div 2] \in Nat /\ p[1] \in Nat
        BY <1>1, <4>1
      <4> QED  BY <4>2, <4>3
    <3> QED  BY <3>1, <3>2
  <2>2. \A j \in 1 .. i : j = i \/ j \in 1 .. i - 1
    OBVIOUS
  <2> QED  BY <1>0, <1>4, <2>1, <2>2
<1>5. \A i \in 0 .. n : i \in S
  <2> HIDE DEF S
  <2> QED  BY <1>0, <1>3, <1>4, UpToInduction
<1>6. \A i \in 1 .. n : p[i] <= p[1]
  BY <1>0, <1>5
<1> QED  BY <1>1, <1>6

\* The pool may make an entry at the end, with an id of its own.
LEMMA PushLastFacts ==
  ASSUME NEW n \in 0 .. MaxSize, n < MaxSize, NEW h \in Heaps(n), NEW e \in Entry,
         NEW g, g = PushLast(h, e)
  PROVE  /\ g \in Heaps(n + 1) /\ g.arr[n + 1] = e /\ \A i \in 1 .. n : g.arr[i] = h.arr[i]
         /\ Range(g.arr) = Range(h.arr) \cup {e}
         /\ Tracked(h) /\ (\A i \in 1 .. n : h.arr[i].id # e.id) => Tracked(g)
<1>0. n \in Nat /\ MaxSize \in Nat
  BY SizeAssumption
<1>1. h.arr \in [1 .. n -> Entry] /\ h.pos \in [Id -> 0 .. MaxSize] /\ Len(h.arr) = n
      /\ h.arr \in Seq(Entry)
  BY <1>0, HeapType
<1>2. g.arr = Append(h.arr, e) /\ g.pos = [h.pos EXCEPT ![e.id] = n + 1]
      /\ g = [arr |-> g.arr, pos |-> g.pos]
  BY <1>1 DEF PushLast
<1>3. g.arr \in [1 .. n + 1 -> Entry] /\ g.arr[n + 1] = e /\ \A i \in 1 .. n : g.arr[i] = h.arr[i]
  <2>1. g.arr \in Seq(Entry) /\ Len(g.arr) = n + 1
    BY <1>0, <1>1, <1>2
  <2>2. g.arr[n + 1] = e /\ \A i \in 1 .. n : g.arr[i] = h.arr[i]
    BY <1>0, <1>1, <1>2
  <2>3. g.arr \in [1 .. Len(g.arr) -> Entry]
    BY <2>1
  <2> QED  BY <2>1, <2>2, <2>3
<1>4. g.pos \in [Id -> 0 .. MaxSize]
  <2>1. n + 1 \in 0 .. MaxSize
    BY <1>0
  <2> QED  BY <1>1, <1>2, <2>1
<1>5. g \in Heaps(n + 1)
  BY <1>2, <1>3, <1>4 DEF Heaps
<1>6. \A i \in 1 .. n + 1 : i = n + 1 \/ i \in 1 .. n
  BY <1>0
<1>7. Range(g.arr) = Range(h.arr) \cup {e}
  <2>1. Range(g.arr) = {g.arr[i] : i \in 1 .. n + 1} /\ Range(h.arr) = {h.arr[i] : i \in 1 .. n}
    BY <1>1, <1>3 DEF Range
  <2>2. n + 1 \in 1 .. n + 1 /\ \A i \in 1 .. n : i \in 1 .. n + 1
    BY <1>0
  <2> QED  BY <1>3, <1>6, <2>1, <2>2
<1>8. ASSUME Tracked(h), \A i \in 1 .. n : h.arr[i].id # e.id PROVE Tracked(g)
  <2>1. \A i \in 1 .. n : h.pos[h.arr[i].id] = i
    BY <1>1, <1>8 DEF Tracked
  <2>2. e.id \in Id /\ \A i \in 1 .. n : h.arr[i].id \in Id
    BY <1>1, EntryType
  <2>3. ASSUME NEW i \in 1 .. n + 1 PROVE g.pos[g.arr[i].id] = i
    <3>1. CASE i = n + 1
      BY <1>1, <1>2, <1>3, <2>2, <3>1
    <3>2. CASE i \in 1 .. n
      BY <1>1, <1>2, <1>3, <1>8, <2>1, <2>2, <3>2
    <3> QED  BY <1>6, <3>1, <3>2
  <2> QED  BY <1>3, <2>3 DEF Tracked
<1> QED  BY <1>3, <1>5, <1>7, <1>8

\* The last entry leaves, and what was before it stays.
LEMMA PopLastFacts ==
  ASSUME NEW n \in 1 .. MaxSize, NEW h \in Heaps(n), NEW g, g = PopLast(h)
  PROVE  /\ g \in Heaps(n - 1) /\ \A i \in 1 .. n - 1 : g.arr[i] = h.arr[i]
         /\ Range(g.arr) \subseteq Range(h.arr)
         /\ Range(h.arr) \subseteq Range(g.arr) \cup {h.arr[n]}
         /\ Tracked(h) => Tracked(g) /\ h.arr[n] \notin Range(g.arr)
         /\ Descends(Prices(h), n - 1) => HeapOrdered(g)
<1>0. n \in Nat /\ MaxSize \in Nat /\ n - 1 \in Nat /\ n - 1 \in 0 .. MaxSize
  BY SizeAssumption
<1>1. h.arr \in [1 .. n -> Entry] /\ h.pos \in [Id -> 0 .. MaxSize] /\ Len(h.arr) = n
      /\ h.arr \in Seq(Entry) /\ h.arr[n] \in Entry
  BY <1>0, HeapType
<1>2. g.arr = SubSeq(h.arr, 1, n - 1) /\ g.pos = [h.pos EXCEPT ![h.arr[n].id] = 0]
      /\ g = [arr |-> g.arr, pos |-> g.pos]
  BY <1>1 DEF PopLast
<1>3. g.arr \in [1 .. n - 1 -> Entry] /\ \A i \in 1 .. n - 1 : g.arr[i] = h.arr[i]
  <2>1. \A i \in 1 .. n - 1 : i \in 1 .. n
    BY <1>0
  <2>2. g.arr = [i \in 1 .. n - 1 |-> h.arr[i]]
    BY <1>0, <1>1, <1>2
  <2> QED  BY <1>1, <2>1, <2>2
<1>4. g.pos \in [Id -> 0 .. MaxSize]
  <2>1. 0 \in 0 .. MaxSize
    BY <1>0
  <2> QED  BY <1>1, <1>2, <2>1
<1>5. g \in Heaps(n - 1)
  BY <1>2, <1>3, <1>4 DEF Heaps
<1>6. \A i \in 1 .. n : i = n \/ i \in 1 .. n - 1
  BY <1>0
<1>7. \A i \in 1 .. n - 1 : i \in 1 .. n /\ i # n
  BY <1>0
<1>8. Range(g.arr) = {h.arr[i] : i \in 1 .. n - 1} /\ Range(h.arr) = {h.arr[i] : i \in 1 .. n}
  BY <1>1, <1>3 DEF Range
<1>9. ASSUME Tracked(h) PROVE Tracked(g) /\ h.arr[n] \notin Range(g.arr)
  <2>1. \A i \in 1 .. n : h.pos[h.arr[i].id] = i
    BY <1>1, <1>9 DEF Tracked
  <2>2. \A i \in 1 .. n : h.arr[i].id \in Id
    BY <1>1, EntryType
  <2>3. \A i \in 1 .. n - 1 : h.arr[i].id # h.arr[n].id
    BY <1>0, <1>7, <2>1
  <2>4. \A i \in 1 .. n - 1 : g.pos[g.arr[i].id] = i
    BY <1>1, <1>2, <1>3, <1>7, <2>1, <2>2, <2>3
  <2> QED  BY <1>3, <1>8, <2>3, <2>4 DEF Tracked
<1>10. ASSUME Descends(Prices(h), n - 1) PROVE HeapOrdered(g)
  <2>1. \A k \in 2 .. n - 1 : k \in 1 .. n - 1 /\ k \div 2 \in 1 .. n - 1
    BY <1>0
  <2>2. \A k \in 1 .. n - 1 : Prices(g)[k] = Prices(h)[k]
    BY <1>1, <1>3, <1>7 DEF Prices
  <2>3. Descends(Prices(g), n - 1)
    BY <1>10, <2>1, <2>2 DEF Descends
  <2> QED  BY <1>0, <1>5, <2>3, OrderedIsDescends
<1> QED  BY <1>3, <1>5, <1>6, <1>7, <1>8, <1>9, <1>10

\* heap.Push.
LEMMA PushFacts ==
  ASSUME NEW n \in 0 .. MaxSize, n < MaxSize, NEW h \in Heaps(n), NEW e \in Entry,
         NEW g, g = Push(h, e)
  PROVE  /\ g \in Heaps(n + 1) /\ Range(g.arr) = Range(h.arr) \cup {e}
         /\ HeapOrdered(h) => HeapOrdered(g)
         /\ Tracked(h) /\ (\A i \in 1 .. n : h.arr[i].id # e.id) => Tracked(g)
<1> DEFINE l == PushLast(h, e)
<1>0. n \in Nat /\ MaxSize \in Nat /\ n + 1 \in 1 .. MaxSize /\ n + 1 \in 1 .. n + 1
      /\ n + 1 \in n + 1 .. n + 1 /\ n + 1 \in 0 .. MaxSize
  BY SizeAssumption
<1>1. g = Up(l, n + 1)
  BY <1>0, HeapType DEF Push
<1>2. /\ l \in Heaps(n + 1) /\ \A i \in 1 .. n : l.arr[i] = h.arr[i]
      /\ Range(l.arr) = Range(h.arr) \cup {e}
      /\ Tracked(h) /\ (\A i \in 1 .. n : h.arr[i].id # e.id) => Tracked(l)
  BY PushLastFacts
<1> HIDE DEF l
<1>3. /\ Rearranged(l, g, n + 1)
      /\ \A m \in n + 1 .. n + 1 : Risable(Prices(l), n + 1, m) => Descends(Prices(g), m)
  BY <1>0, <1>1, <1>2, UpFacts
<1>4. ASSUME HeapOrdered(h) PROVE HeapOrdered(g)
  <2>1. Descends(Prices(h), n)
    BY <1>4, OrderedIsDescends
  <2>2. \A k \in 1 .. n : Prices(l)[k] = Prices(h)[k]
    <3>1. DOMAIN h.arr = 1 .. n /\ DOMAIN l.arr = 1 .. n + 1
      BY <1>0, <1>2, HeapType
    <3>2. \A k \in 1 .. n : k \in 1 .. n + 1
      BY <1>0
    <3> QED  BY <1>2, <3>1, <3>2 DEF Prices
  <2>3. \A k \in 2 .. n + 1 : k # n + 1 => k \in 2 .. n /\ k \in 1 .. n /\ k \div 2 \in 1 .. n
    BY <1>0
  <2>4. \A k \in 2 .. n + 1 : k \div 2 # n + 1
    BY <1>0
  <2>5. Risable(Prices(l), n + 1, n + 1)
    BY <2>1, <2>2, <2>3, <2>4 DEF Risable, Descends
  <2>6. Descends(Prices(g), n + 1)
    BY <1>0, <1>3, <2>5
  <2> QED  BY <1>0, <1>3, <2>6, OrderedIsDescends DEF Rearranged
<1> QED  BY <1>2, <1>3, <1>4 DEF Rearranged

\* What heap.Remove may have put at i is either to sink or to rise.
LEMMA RefillOrder ==
  ASSUME NEW n \in Nat, NEW i \in 1 .. n - 1, NEW p \in [1 .. n -> Nat], NEW q \in [1 .. n -> Nat],
         Descends(p, n), \A k \in 1 .. n - 1 : k # i => q[k] = p[k]
  PROVE  IF Settled(q, i, n - 1) THEN Risable(q, i, n - 1) ELSE Sinkable(q, i, n - 1)
<1>1. \A k \in 2 .. n - 1 : k \in 1 .. n - 1 /\ k \in 2 .. n /\ k \in 1 .. n /\ k \div 2 \in 1 .. n - 1
                            /\ k \div 2 \in 1 .. n /\ k \div 2 < k
  OBVIOUS
<1>2. ASSUME NEW k \in 2 .. n - 1, k # i, k \div 2 # i PROVE q[k] <= q[k \div 2]
  <2>1. q[k] = p[k] /\ q[k \div 2] = p[k \div 2]
    BY <1>1, <1>2
  <2> QED  BY <1>1, <2>1 DEF Descends
<1>3. ASSUME i >= 2 PROVE q[i \div 2] = p[i \div 2] /\ p[i] <= p[i \div 2]
  <2>1. i \in 2 .. n - 1 /\ i \in 2 .. n /\ i \div 2 \in 1 .. n - 1 /\ i \div 2 # i
    BY <1>3
  <2> QED  BY <2>1 DEF Descends
<1>4. \A k \in 2 .. n - 1 : k \div 2 = i => q[k] = p[k] /\ p[k] <= p[i] /\ q[k] \in Nat
  <2> TAKE k \in 2 .. n - 1
  <2> HAVE k \div 2 = i
  <2>1. k # i
    BY <1>1
  <2>2. q[k] = p[k] /\ p[k] \in Nat
    BY <1>1, <2>1
  <2>3. p[k] <= p[k \div 2]
    BY <1>1 DEF Descends
  <2> QED  BY <2>2, <2>3
<1>5. p[i] \in Nat /\ q[i] \in Nat /\ (i >= 2 => p[i \div 2] \in Nat)
  OBVIOUS
<1>6. ASSUME NEW k \in 2 .. n - 1, k \div 2 = i, i >= 2 PROVE q[k] <= q[i \div 2]
  BY <1>3, <1>4, <1>5, <1>6
<1>7. CASE Settled(q, i, n - 1)
  <2>1. \A k \in 2 .. n - 1 : k # i => q[k] <= q[k \div 2]
    BY <1>2, <1>7 DEF Settled
  <2> QED  BY <1>6, <1>7, <2>1 DEF Risable
<1>8. CASE ~Settled(q, i, n - 1)
  <2>1. PICK c \in 2 .. n - 1 : c \div 2 = i /\ ~(q[c] <= q[i])
    BY <1>8 DEF Settled
  <2>2. i >= 2 => q[i] <= q[i \div 2]
    BY <1>3, <1>4, <1>5, <2>1
  <2>3. \A k \in 2 .. n - 1 : k \div 2 # i => q[k] <= q[k \div 2]
    <3> SUFFICES ASSUME NEW k \in 2 .. n - 1, k \div 2 # i PROVE q[k] <= q[k \div 2]
      OBVIOUS
    <3>1. CASE k = i
      <4>1. i >= 2
        BY <3>1
      <4> QED  BY <2>2, <3>1, <4>1
    <3>2. CASE k # i
      BY <1>2, <3>2
    <3> QED  BY <3>1, <3>2
  <2> QED  BY <1>6, <1>8, <2>3 DEF Sinkable
<1> QED  BY <1>7, <1>8

\* What is left of h without its entry e: no other entry is lost, and in a tracked
\* heap e is.
Removed(h, g, n, e) ==
  /\ g \in Heaps(n - 1)
  /\ Range(g.arr) \subseteq Range(h.arr) /\ Range(h.arr) \subseteq Range(g.arr) \cup {e}
  /\ Tracked(h) => Tracked(g) /\ e \notin Range(g.arr)
  /\ HeapOrdered(h) => HeapOrdered(g)

\* A heap rearranged so that e is last and the rest in order, but for e.
LEMMA TakeLast ==
  ASSUME NEW n \in 1 .. MaxSize, NEW h \in Heaps(n), NEW r, Rearranged(h, r, n),
         HeapOrdered(h) => Descends(Prices(r), n - 1)
  PROVE  Removed(h, PopLast(r), n, r.arr[n])
BY PopLastFacts DEF Removed, Rearranged

\* The last entry has changed places with the one at i.
Refilled(h, w, n, i) ==
  /\ Rearranged(h, w, n) /\ w \in Heaps(n) /\ w.arr[n] = h.arr[i]
  /\ Prices(w) \in [1 .. n -> Nat] /\ Prices(h) \in [1 .. n -> Nat]
  /\ \A k \in 1 .. n - 1 : k # i => Prices(w)[k] = Prices(h)[k]

LEMMA SwapRefills ==
  ASSUME NEW n \in 1 .. MaxSize, NEW h \in Heaps(n), NEW i \in 1 .. n, NEW w, w = Swap(h, i, n)
  PROVE  Refilled(h, w, n, i)
<1>0. n \in Nat /\ n \in 1 .. n /\ \A k \in 1 .. n - 1 : k \in 1 .. n /\ k # n
  BY SizeAssumption
<1>1. /\ Rearranged(h, w, n)
      /\ \A k \in 1 .. n : w.arr[k] = IF k = n THEN h.arr[i] ELSE IF k = i THEN h.arr[n] ELSE h.arr[k]
  BY <1>0, SwapFacts
<1>2. w \in Heaps(n)
  BY <1>1 DEF Rearranged
<1>3. /\ Prices(w) \in [1 .. n -> Nat] /\ Prices(h) \in [1 .. n -> Nat]
      /\ \A k \in 1 .. n : Prices(w)[k] = w.arr[k].tx.price /\ Prices(h)[k] = h.arr[k].tx.price
  BY <1>0, <1>2, HeapType
<1>4. w.arr[n] = h.arr[i]
  BY <1>0, <1>1
<1>5. ASSUME NEW k \in 1 .. n - 1, k # i PROVE Prices(w)[k] = Prices(h)[k]
  <2>1. k \in 1 .. n /\ k # n
    BY <1>0
  <2>2. w.arr[k] = h.arr[k]
    BY <1>1, <1>5, <2>1
  <2> QED  BY <1>3, <2>1, <2>2
<1> QED  BY <1>1, <1>2, <1>3, <1>4, <1>5 DEF Refilled

\* heap.Remove.
LEMMA HeapRemoveFacts ==
  ASSUME NEW n \in 1 .. MaxSize, NEW h \in Heaps(n), NEW i \in 1 .. n, NEW g, g = HeapRemove(h, i)
  PROVE  Removed(h, g, n, h.arr[i])
<1> DEFINE w == Swap(h, i, n)
           sunk == Down(w, i, n - 1)
<1>0. n \in Nat /\ Len(h.arr) = n /\ n - 1 \in 0 .. n
  BY SizeAssumption, HeapType
<1>1. CASE i = n
  <2>1. g = PopLast(h)
    BY <1>0, <1>1 DEF HeapRemove
  <2>2. HeapOrdered(h) => Descends(Prices(h), n - 1)
    <3>1. HeapOrdered(h) => Descends(Prices(h), n)
      BY <1>0, OrderedIsDescends
    <3> QED  BY <1>0, <3>1 DEF Descends
  <2>3. Rearranged(h, h, n)
    BY DEF Rearranged
  <2> QED  BY <1>1, <2>1, <2>2, <2>3, TakeLast
<1>2. CASE i # n
  <2>1. g = PopLast(IF sunk.at > i THEN sunk.heap ELSE Up(w, i))
    BY <1>0, <1>2 DEF HeapRemove
  <2> HIDE DEF w, sunk
  <2>2. /\ Rearranged(h, w, n) /\ w \in Heaps(n) /\ w.arr[n] = h.arr[i]
        /\ Prices(w) \in [1 .. n -> Nat] /\ Prices(h) \in [1 .. n -> Nat]
        /\ \A k \in 1 .. n - 1 : k # i => Prices(w)[k] = Prices(h)[k]
    <3>1. w = Swap(h, i, n)
      BY DEF w
    <3>2. Refilled(h, w, n, i)
      BY Zenon, <3>1, SwapRefills
    <3> QED  BY Zenon, <3>2 DEF Refilled
  <2>3. /\ sunk \in Sifts(n) /\ Rearranged(w, sunk.heap, n)
        /\ \A j \in (n - 1) + 1 .. n : sunk.heap.arr[j] = w.arr[j]
        /\ sunk.at >= i /\ (sunk.at = i <=> Settled(Prices(w), i, n - 1))
        /\ Sinkable(Prices(w), i, n - 1) => Descends(Prices(sunk.heap), n - 1)
    BY <1>0, <2>2, DownFacts DEF sunk
  <2>4. /\ Rearranged(w, Up(w, i), n)
        /\ \A j \in i + 1 .. n : Up(w, i).arr[j] = w.arr[j]
        /\ \A m \in i .. n : Risable(Prices(w), i, m) => Descends(Prices(Up(w, i)), m)
    BY <2>2, UpFacts
  <2>5. i \in 1 .. n - 1 /\ n \in (n - 1) + 1 .. n /\ n \in i + 1 .. n /\ n - 1 \in i .. n
    BY <1>0, <1>2
  <2>6. HeapOrdered(h) => IF Settled(Prices(w), i, n - 1) THEN Risable(Prices(w), i, n - 1)
                                                           ELSE Sinkable(Prices(w), i, n - 1)
    <3>1. HeapOrdered(h) => Descends(Prices(h), n)
      BY <1>0, OrderedIsDescends
    <3> QED  BY <1>0, <2>2, <2>5, <3>1, RefillOrder
  <2>7. sunk.at \in Nat
    BY <2>3 DEF Sifts
  <2>8. CASE sunk.at > i
    <3>1. Rearranged(h, sunk.heap, n) /\ sunk.heap.arr[n] = h.arr[i]
      BY <2>2, <2>3, <2>5 DEF Rearranged
    <3>2. HeapOrdered(h) => Descends(Prices(sunk.heap), n - 1)
      BY <2>3, <2>6, <2>7, <2>8
    <3>3. g = PopLast(sunk.heap)
      BY <2>1, <2>8
    <3> QED  BY <3>1, <3>2, <3>3, TakeLast
  <2>9. CASE ~(sunk.at > i)
    <3>1. Rearranged(h, Up(w, i), n) /\ Up(w, i).arr[n] = h.arr[i]
      BY <2>2, <2>4, <2>5 DEF Rearranged
    <3>2. HeapOrdered(h) => Descends(Prices(Up(w, i)), n - 1)
      BY <2>3, <2>4, <2>5, <2>6, <2>7, <2>9
    <3>3. g = PopLast(Up(w, i))
      BY <2>1, <2>9
    <3> QED  BY <3>1, <3>2, <3>3, TakeLast
  <2> QED  BY <2>8, <2>9
<1> QED  BY <1>1, <1>2

\* heap.Pop.
LEMMA PopFacts ==
  ASSUME NEW n \in 1 .. MaxSize, NEW h \in Heaps(n), NEW g, g = Pop(h)
  PROVE  Removed(h, g, n, h.arr[1])
<1> DEFINE w == Swap(h, 1, n)
           d == Down(w, 1, n - 1).heap
<1>0. n \in Nat /\ Len(h.arr) = n /\ n - 1 \in 0 .. n /\ 1 \in 1 .. n /\ n \in (n - 1) + 1 .. n
  BY SizeAssumption, HeapType
<1>1. g = PopLast(d)
  BY <1>0 DEF Pop
<1>6. w = Swap(h, 1, n)
  OBVIOUS
<1> HIDE DEF w
<1>2. /\ Rearranged(h, w, n) /\ w \in Heaps(n) /\ w.arr[n] = h.arr[1]
      /\ \A k \in 1 .. n - 1 : k # 1 => Prices(w)[k] = Prices(h)[k]
  <2>1. Refilled(h, w, n, 1)
    BY Zenon, <1>0, <1>6, SwapRefills
  <2> QED  BY Zenon, <2>1 DEF Refilled
<1>3. /\ Rearranged(w, d, n)
      /\ \A j \in (n - 1) + 1 .. n : d.arr[j] = w.arr[j]
      /\ Sinkable(Prices(w), 1, n - 1) => Descends(Prices(d), n - 1)
  BY <1>0, <1>2, DownFacts
<1> HIDE DEF d
<1>4. ASSUME HeapOrdered(h) PROVE Descends(Prices(d), n - 1)
  <2>1. Descends(Prices(h), n)
    BY <1>0, <1>4, OrderedIsDescends
  <2>2. \A k \in 2 .. n - 1 : k \in 1 .. n - 1 /\ k \in 2 .. n /\ k # 1 /\ k \div 2 \in 1 .. n - 1
    BY <1>0
  <2>3. Sinkable(Prices(w), 1, n - 1)
    BY <1>2, <2>1, <2>2 DEF Sinkable, Descends
  <2> QED  BY <1>3, <2>3
<1>5. Rearranged(h, d, n) /\ d.arr[n] = h.arr[1]
  BY <1>0, <1>2, <1>3 DEF Rearranged
<1> QED  BY <1>1, <1>4, <1>5, TakeLast

----------------------------------------------------------------------------
(***************************************************************************)
(* The queue of a sender                                                   *)
(***************************************************************************)

Sorted(es) == \A i, j \in DOMAIN es : i < j => es[i].tx.nonce <= es[j].tx.nonce

\* A queue of sender s.
Queue(es, s) ==
  /\ es \in Seq(Entry) /\ Len(es) <= MaxPerAddr
  /\ Range(es) \subseteq {e \in Entry : e.tx.from = s}
  /\ Sorted(es)

\* What the loop of evict has kept of es after k turns.
Kept(es, e, k, u) ==
  /\ u \in Seq(Entry) /\ Len(u) <= k
  /\ Range(u) = {es[i] : i \in {j \in 1 .. k : es[j].tx.hash # e.tx.hash}}
  /\ Sorted(u)

KeepOnce(es, e, i, u) == IF es[i].tx.hash # e.tx.hash THEN Append(u, es[i]) ELSE u

LEMMA KeepOnceFacts ==
  ASSUME NEW es \in Seq(Entry), Sorted(es), NEW e, NEW k \in 1 .. Len(es), NEW u,
         Kept(es, e, k - 1, u)
  PROVE  Kept(es, e, k, KeepOnce(es, e, k, u))
<1> DEFINE v == KeepOnce(es, e, k, u)
           Others(j) == {es[i] : i \in {x \in 1 .. j : es[x].tx.hash # e.tx.hash}}
<1>0. /\ k \in Nat /\ k - 1 \in Nat /\ k \in 1 .. k /\ Len(es) \in Nat /\ es[k] \in Entry
      /\ \A j \in 1 .. k : j = k \/ j \in 1 .. k - 1
      /\ \A j \in 1 .. k - 1 : j \in 1 .. k /\ j < k /\ j \in DOMAIN es
      /\ k \in DOMAIN es
  OBVIOUS
<1>1. u \in Seq(Entry) /\ Len(u) <= k - 1 /\ Range(u) = Others(k - 1) /\ Sorted(u)
      /\ Len(u) \in Nat /\ DOMAIN u = 1 .. Len(u)
  BY DEF Kept
<1>2. CASE es[k].tx.hash # e.tx.hash
  <2>1. v = Append(u, es[k])
    BY <1>2 DEF KeepOnce
  <2>2. /\ v \in Seq(Entry) /\ Len(v) = Len(u) + 1 /\ DOMAIN v = 1 .. Len(u) + 1
        /\ v[Len(u) + 1] = es[k] /\ \A i \in 1 .. Len(u) : v[i] = u[i]
    BY <1>0, <1>1, <2>1
  <2> HIDE DEF v
  <2>3. \A i \in 1 .. Len(u) + 1 : i = Len(u) + 1 \/ i \in 1 .. Len(u)
    BY <1>1
  <2>4. Range(v) = Range(u) \cup {es[k]}
    <3>1. Range(v) = {v[i] : i \in 1 .. Len(u) + 1} /\ Range(u) = {u[i] : i \in 1 .. Len(u)}
      BY <1>1, <2>2 DEF Range
    <3>2. Len(u) + 1 \in 1 .. Len(u) + 1 /\ \A i \in 1 .. Len(u) : i \in 1 .. Len(u) + 1
      BY <1>1
    <3> QED  BY <2>2, <2>3, <3>1, <3>2
  <2>5. Others(k) = Others(k - 1) \cup {es[k]}
    BY <1>0, <1>2
  <2>6. \A i \in 1 .. Len(u) : u[i].tx.nonce <= es[k].tx.nonce
    <3> TAKE i \in 1 .. Len(u)
    <3>1. u[i] \in Others(k - 1)
      BY <1>1 DEF Range
    <3>2. PICK j \in 1 .. k - 1 : u[i] = es[j]
      BY <3>1
    <3> QED  BY <1>0, <3>2 DEF Sorted
  <2>7. Sorted(v)
    <3> SUFFICES ASSUME NEW i \in DOMAIN v, NEW j \in DOMAIN v, i < j
                 PROVE  v[i].tx.nonce <= v[j].tx.nonce
      BY DEF Sorted
    <3>1. i \in 1 .. Len(u)
      BY <1>1, <2>2
    <3>2. CASE j = Len(u) + 1
      BY <2>2, <2>6, <3>1, <3>2
    <3>3. CASE j \in 1 .. Len(u)
      BY <1>1, <2>2, <3>1, <3>3 DEF Sorted
    <3> QED  BY <2>2, <2>3, <3>2, <3>3
  <2>8. Len(v) <= k
    BY <1>0, <1>1, <2>2
  <2> QED  BY <1>1, <2>2, <2>4, <2>5, <2>7, <2>8 DEF Kept, v
<1>3. CASE ~(es[k].tx.hash # e.tx.hash)
  <2>1. v = u
    BY <1>3 DEF KeepOnce
  <2>2. Others(k) = Others(k - 1)
    BY <1>0, <1>3
  <2>3. Len(u) <= k
    BY <1>0, <1>1
  <2> QED  BY <1>1, <2>1, <2>2, <2>3 DEF Kept
<1> QED  BY <1>2, <1>3

\* evict takes the transaction out of its sender's queue and leaves the rest in order.
LEMMA UnqueueFacts ==
  ASSUME NEW s, NEW es, Queue(es, s), NEW e
  PROVE  /\ Queue(Unqueue(es, e), s)
         /\ \A f \in Range(es) : f.tx.hash # e.tx.hash => f \in Range(Unqueue(es, e))
<1> DEFINE n == Len(es)
           Equation(x) == x = [i \in 0 .. n |-> IF i = 0 THEN <<>> ELSE KeepOnce(es, e, i, x[i - 1])]
           step == [i \in 1 .. n |-> [u \in Seq(Entry) |-> KeepOnce(es, e, i, u)]]
           u == CHOOSE x : Equation(x)
<1>0. n \in Nat /\ es \in Seq(Entry) /\ Sorted(es) /\ <<>> \in Seq(Entry) /\ \A i \in 1 .. n : es[i] \in Entry
  BY DEF Queue
<1>1. Unqueue(es, e) = u[n]
  BY Zenon DEF Unqueue, KeepOnce
<1>2. step \in [1 .. n -> [Seq(Entry) -> Seq(Entry)]]
  BY <1>0 DEF KeepOnce
<1>3. \E x : Equation(x)
  <2> HIDE DEF n
  <2>1. \A i \in 1 .. n : \A w \in Seq(Entry) : step[i][w] = KeepOnce(es, e, i, w)
    OBVIOUS
  <2> HIDE DEF step
  <2>2. PICK f : Recursion(f, n, Seq(Entry), <<>>, step)
    BY Zenon, <1>0, <1>2, RecursionHolds
  <2>3. ASSUME NEW i \in 0 .. n PROVE f[i] = IF i = 0 THEN <<>> ELSE KeepOnce(es, e, i, f[i - 1])
    <3>1. CASE i = 0
      BY <2>2, <3>1 DEF Recursion
    <3>2. CASE i # 0
      <4>1. i \in 1 .. n /\ i - 1 \in 0 .. n
        BY <1>0, <3>2
      <4>2. f[i] = step[i][f[i - 1]] /\ f[i - 1] \in Seq(Entry)
        BY <2>2, <4>1 DEF Recursion
      <4> QED  BY <2>1, <3>2, <4>1, <4>2
    <3> QED  BY <3>1, <3>2
  <2>4. f = [i \in 0 .. n |-> f[i]]
    BY <2>2 DEF Recursion
  <2> QED  BY Zenon, <2>3, <2>4
<1>4. Equation(u)
  BY Zenon, <1>3
<1> HIDE DEF u
<1>5. u[0] = <<>> /\ \A i \in 1 .. n : u[i] = KeepOnce(es, e, i, u[i - 1])
  BY <1>0, <1>4
<1> DEFINE S == {i \in 0 .. n : Kept(es, e, i, u[i])}
<1>6. 0 \in S
  <2>1. Kept(es, e, 0, <<>>)
    BY DEF Kept, Sorted, Range
  <2> QED  BY <1>0, <1>5, <2>1
<1>7. ASSUME NEW i \in 1 .. n, i - 1 \in S PROVE i \in S
  <2>1. Kept(es, e, i - 1, u[i - 1])
    BY <1>7
  <2>2. Kept(es, e, i, u[i])
    BY <1>0, <1>5, <2>1, KeepOnceFacts
  <2> QED  BY <1>0, <2>2
<1>8. Kept(es, e, n, u[n])
  <2>1. \A i \in 0 .. n : i \in S
    <3> HIDE DEF S, n
    <3> QED  BY <1>0, <1>6, <1>7, UpToInduction
  <2> QED  BY <1>0, <2>1
<1> HIDE DEF n
<1>9. Range(es) = {es[i] : i \in 1 .. n}
  BY <1>0 DEF Range, n
<1>10. Range(u[n]) \subseteq Range(es)
  BY <1>8, <1>9 DEF Kept
<1>11. Len(u[n]) <= MaxPerAddr
  <2>1. Len(u[n]) \in Nat /\ Len(u[n]) <= n /\ n <= MaxPerAddr /\ MaxPerAddr \in Nat
    BY <1>8, SizeAssumption DEF Kept, Queue, n
  <2> QED  BY <2>1, <1>0
<1>12. \A f \in Range(es) : f.tx.hash # e.tx.hash => f \in Range(u[n])
  BY <1>8, <1>9 DEF Kept
<1>13. Queue(u[n], s)
  BY <1>8, <1>10, <1>11 DEF Queue, Kept
<1> QED  BY <1>1, <1>12, <1>13

\* insertSorted puts the entry where it belongs.
LEMMA InsertSortedFacts ==
  ASSUME NEW s, NEW es, Queue(es, s), Len(es) < MaxPerAddr, NEW e \in Entry, e.tx.from = s
  PROVE  /\ Queue(InsertSorted(es, e), s)
         /\ Range(InsertSorted(es, e)) = Range(es) \cup {e}
<1> DEFINE n == Len(es)
           later == {i \in DOMAIN es : e.tx.nonce < es[i].tx.nonce}
           at == IF later = {} THEN Len(es) + 1 ELSE CHOOSE i \in later : \A j \in later : i <= j
           r == InsertSorted(es, e)
<1>0. /\ n \in Nat /\ es \in Seq(Entry) /\ Sorted(es) /\ DOMAIN es = 1 .. n
      /\ \A i \in 1 .. n : es[i] \in Entry /\ es[i].tx.nonce \in Nat
      /\ e.tx.nonce \in Nat /\ MaxPerAddr \in Nat
  BY EntryType, SizeAssumption DEF Queue
<1>1. /\ at \in 1 .. n + 1
      /\ \A i \in 1 .. n : i < at => es[i].tx.nonce <= e.tx.nonce
      /\ \A i \in 1 .. n : i >= at => e.tx.nonce <= es[i].tx.nonce
  <2>1. later \subseteq 1 .. n /\ later \in SUBSET Nat
        /\ \A i \in 1 .. n : i \in later <=> e.tx.nonce < es[i].tx.nonce
    BY <1>0
  <2>2. CASE later = {}
    <3>1. at = n + 1 /\ \A i \in 1 .. n : es[i].tx.nonce <= e.tx.nonce
      BY <1>0, <2>1, <2>2
    <3> HIDE DEF at
    <3> QED  BY <1>0, <3>1
  <2>3. CASE later # {}
    <3>1. at = CHOOSE i \in later : \A j \in later : i <= j
      BY <2>3
    <3>2. \E i \in later : \A j \in later : i <= j
      BY <2>1, <2>3, LeastNumber
    <3> HIDE DEF at, later
    <3>3. at \in later /\ \A j \in later : at <= j
      BY <3>1, <3>2
    <3>4. at \in 1 .. n /\ at \in 1 .. n + 1 /\ e.tx.nonce < es[at].tx.nonce
      BY <1>0, <2>1, <3>3
    <3>5. ASSUME NEW i \in 1 .. n, i < at PROVE es[i].tx.nonce <= e.tx.nonce
      <4>1. i \notin later
        BY <3>3, <3>4, <3>5
      <4> QED  BY <1>0, <2>1, <4>1
    <3>6. ASSUME NEW i \in 1 .. n, i >= at PROVE e.tx.nonce <= es[i].tx.nonce
      <4>1. es[at].tx.nonce <= es[i].tx.nonce
        BY <1>0, <3>4, <3>6 DEF Sorted
      <4>2. es[at].tx.nonce \in Nat /\ es[i].tx.nonce \in Nat
        BY <1>0, <3>4
      <4> QED  BY <1>0, <3>4, <4>1, <4>2
    <3> QED  BY <3>4, <3>5, <3>6
  <2> QED  BY <2>2, <2>3
<1>2. r = SubSeq(es, 1, at - 1) \o <<e>> \o SubSeq(es, at, n)
  BY DEF InsertSorted
<1> HIDE DEF r, at, later
<1>3. /\ r \in Seq(Entry) /\ Len(r) = n + 1
      /\ \A i \in 1 .. n + 1 : r[i] = IF i < at THEN es[i] ELSE IF i = at THEN e ELSE es[i - 1]
  <2> DEFINE a == SubSeq(es, 1, at - 1)
             b == SubSeq(es, at, n)
  <2>1. a \in Seq(Entry) /\ Len(a) = at - 1 /\ \A i \in 1 .. at - 1 : a[i] = es[i]
    BY <1>0, <1>1
  <2>2. b \in Seq(Entry) /\ Len(b) = n + 1 - at /\ \A i \in 1 .. n + 1 - at : b[i] = es[at + i - 1]
    BY <1>0, <1>1
  <2> HIDE DEF a, b, n
  <2>3. <<e>> \in Seq(Entry) /\ Len(<<e>>) = 1 /\ <<e>>[1] = e
    OBVIOUS
  <2>4. (a \o <<e>>) \in Seq(Entry) /\ Len(a \o <<e>>) = at
        /\ \A i \in 1 .. at : (a \o <<e>>)[i] = IF i < at THEN a[i] ELSE e
    BY <1>0, <1>1, <2>1, <2>3
  <2>5. r = (a \o <<e>>) \o b
    BY <1>2 DEF a, b
  <2> DEFINE c == a \o <<e>>
  <2> HIDE DEF c
  <2>6. c \in Seq(Entry) /\ Len(c) = at /\ \A i \in 1 .. at : c[i] = IF i < at THEN a[i] ELSE e
    BY <2>4 DEF c
  <2>7. r = c \o b
    BY <2>5 DEF c
  <2>8. r \in Seq(Entry) /\ Len(r) = n + 1
    BY <1>0, <1>1, <2>2, <2>6, <2>7
  <2>9. ASSUME NEW i \in 1 .. n + 1
        PROVE  r[i] = IF i < at THEN es[i] ELSE IF i = at THEN e ELSE es[i - 1]
    <3>1. CASE i <= at
      <4>1. r[i] = c[i]
        BY <1>0, <1>1, <2>2, <2>6, <2>7, <3>1
      <4>2. i \in 1 .. at /\ (i < at => i \in 1 .. at - 1)
        BY <1>0, <1>1, <3>1
      <4> QED  BY <1>0, <1>1, <2>1, <2>6, <3>1, <4>1, <4>2
    <3>2. CASE ~(i <= at)
      <4>1. r[i] = b[i - at]
        BY <1>0, <1>1, <2>2, <2>6, <2>7, <3>2
      <4>2. i - at \in 1 .. n + 1 - at /\ at + (i - at) - 1 = i - 1
        BY <1>0, <1>1, <3>2
      <4>3. b[i - at] = es[i - 1]
        BY <2>2, <4>2
      <4>4. ~(i < at) /\ i # at
        BY <1>0, <1>1, <3>2
      <4> QED  BY <4>1, <4>3, <4>4
    <3> QED  BY <3>1, <3>2
  <2> QED  BY <2>8, <2>9
<1> HIDE DEF n
<1>4. DOMAIN r = 1 .. n + 1
  BY <1>0, <1>3
<1>5. Range(r) = Range(es) \cup {e}
  <2>1. Range(r) = {r[i] : i \in 1 .. n + 1} /\ Range(es) = {es[i] : i \in 1 .. n}
    BY <1>0, <1>4 DEF Range
  <2>2. ASSUME NEW i \in 1 .. n + 1 PROVE r[i] \in Range(es) \cup {e}
    <3>1. i < at => i \in 1 .. n
      BY <1>0, <1>1
    <3>2. i > at => i - 1 \in 1 .. n
      BY <1>0, <1>1
    <3> QED  BY <1>0, <1>1, <1>3, <2>1, <3>1, <3>2
  <2>3. ASSUME NEW i \in 1 .. n PROVE es[i] \in Range(r)
    <3>1. CASE i < at
      <4>1. i \in 1 .. n + 1 /\ r[i] = es[i]
        BY <1>0, <1>3, <3>1
      <4> QED  BY <2>1, <4>1
    <3>2. CASE ~(i < at)
      <4>1. i + 1 \in 1 .. n + 1 /\ ~(i + 1 < at) /\ i + 1 # at /\ (i + 1) - 1 = i
        BY <1>0, <1>1, <3>2
      <4>2. r[i + 1] = es[i]
        BY <1>3, <4>1
      <4> QED  BY <2>1, <4>1, <4>2
    <3> QED  BY <3>1, <3>2
  <2>4. r[at] = e
    BY <1>0, <1>1, <1>3
  <2>5. e \in Range(r)
    BY <1>1, <2>1, <2>4
  <2> QED  BY <2>1, <2>2, <2>3, <2>5
<1>6. Sorted(r)
  <2> SUFFICES ASSUME NEW i \in 1 .. n + 1, NEW j \in 1 .. n + 1, i < j
               PROVE  r[i].tx.nonce <= r[j].tx.nonce
    BY <1>4 DEF Sorted
  <2>1. \A k, l \in 1 .. n : k <= l => es[k].tx.nonce <= es[l].tx.nonce
    BY <1>0 DEF Sorted
  <2>2. CASE j < at
    <3>1. r[i] = es[i] /\ r[j] = es[j] /\ i \in 1 .. n /\ j \in 1 .. n
      BY <1>0, <1>1, <1>3, <2>2
    <3> QED  BY <2>1, <3>1
  <2>3. CASE j = at
    <3>1. r[i] = es[i] /\ r[j] = e /\ i \in 1 .. n
      BY <1>0, <1>1, <1>3, <2>3
    <3> QED  BY <1>1, <2>3, <3>1
  <2>4. CASE j > at /\ i < at
    <3>1. r[i] = es[i] /\ r[j] = es[j - 1] /\ i \in 1 .. n /\ j - 1 \in 1 .. n /\ i <= j - 1
      BY <1>0, <1>1, <1>3, <2>4
    <3> QED  BY <2>1, <3>1
  <2>5. CASE j > at /\ i = at
    <3>1. r[i] = e /\ r[j] = es[j - 1] /\ j - 1 \in 1 .. n /\ j - 1 >= at
      BY <1>0, <1>1, <1>3, <2>5
    <3> QED  BY <1>1, <3>1
  <2>6. CASE j > at /\ i > at
    <3>1. r[i] = es[i - 1] /\ r[j] = es[j - 1] /\ i - 1 \in 1 .. n /\ j - 1 \in 1 .. n /\ i - 1 <= j - 1
      BY <1>0, <1>1, <1>3, <2>6
    <3> QED  BY <2>1, <3>1
  <2> QED  BY <1>1, <2>2, <2>3, <2>4, <2>5, <2>6
<1>7. Len(r) <= MaxPerAddr
  BY <1>0, <1>3 DEF n
<1> QED  BY <1>3, <1>5, <1>6, <1>7 DEF Queue, r

----------------------------------------------------------------------------
(***************************************************************************)
(* Pools                                                                   *)
(***************************************************************************)

Sizes == 0 .. MaxSize

\* What a pool promises whatever Pending has done to the heapIndex fields.
PoolOK(p) ==
  /\ \E n \in Sizes : p.heap \in Heaps(n)
  /\ HeapOrdered(p.heap)
  /\ p.index = [h \in DOMAIN p.index |-> p.index[h]] /\ DOMAIN p.index \subseteq Hash
  /\ IsFiniteSet(DOMAIN p.index)
  /\ \A h \in DOMAIN p.index : p.index[h] \in Entry /\ p.index[h].tx.hash = h
  /\ p.bySender = [s \in Sender |-> p.bySender[s]]
  /\ \A s \in Sender : Queue(p.bySender[s], s)
  /\ \A h \in DOMAIN p.index : p.index[h] \in Range(p.bySender[p.index[h].tx.from])

\* And until Pending pops an entry: heap and index are two views of one set.
Synced(p) == Tracked(p.heap) /\ Range(p.heap.arr) = Range(p.index)

LEMMA PoolHeap ==
  ASSUME NEW p, PoolOK(p)
  PROVE  \E n \in Sizes : /\ p.heap \in Heaps(n) /\ Len(p.heap.arr) = n
                          /\ DOMAIN p.heap.arr = 1 .. n
                          /\ p.heap.arr \in [1 .. n -> Entry]
                          /\ p.heap.pos \in [Id -> 0 .. MaxSize]
<1>1. PICK n \in Sizes : p.heap \in Heaps(n)
  BY DEF PoolOK
<1>2. n \in Nat
  BY SizeAssumption DEF Sizes
<1> QED  BY <1>1, <1>2, HeapType

LEMMA InRange == \A f, x : x \in Range(f) <=> \E y \in DOMAIN f : x = f[y]
BY DEF Range

\* The pool q is p without e: the heap is one shorter, the index has lost e's
\* transaction, and where heap and index agreed, so they do still.
Evicted(p, q, e) ==
  /\ PoolOK(q)
  /\ Len(q.heap.arr) = Len(p.heap.arr) - 1
  /\ Range(q.heap.arr) \subseteq Range(p.heap.arr)
  /\ DOMAIN q.index = DOMAIN p.index \ {e.tx.hash}
  /\ \A h \in DOMAIN q.index : q.index[h] = p.index[h]
  /\ Synced(p) /\ e \in Range(p.index) =>
       Synced(q) /\ \A f \in Range(p.index) : f # e => f \in Range(q.index)

LEMMA EvictFacts ==
  ASSUME NEW p, PoolOK(p), NEW e \in Entry, CanEvict(p, e), NEW q, q = Evict(p, e)
  PROVE  Evicted(p, q, e)
<1> DEFINE i == p.heap.pos[e.id]
<1>1. PICK n \in Sizes : /\ p.heap \in Heaps(n) /\ Len(p.heap.arr) = n
                         /\ DOMAIN p.heap.arr = 1 .. n
                         /\ p.heap.arr \in [1 .. n -> Entry]
  BY PoolHeap
<1>2. i \in 1 .. n /\ n \in 1 .. MaxSize /\ n \in Nat
  BY <1>1, SizeAssumption DEF CanEvict, CanHeapRemove, Sizes
<1>3. /\ q.heap = HeapRemove(p.heap, i)
      /\ q.index = Without(p.index, e.tx.hash)
      /\ q.bySender = [p.bySender EXCEPT ![e.tx.from] = Unqueue(@, e)]
  BY DEF Evict
<1>0. i = p.heap.pos[e.id]
  OBVIOUS
<1> HIDE DEF i
<1>4. Removed(p.heap, q.heap, n, p.heap.arr[i])
  BY <1>1, <1>2, <1>3, HeapRemoveFacts
<1>5. q.heap \in Heaps(n - 1) /\ n - 1 \in Sizes /\ Len(q.heap.arr) = n - 1 /\ HeapOrdered(q.heap)
  <2>1. n - 1 \in Nat /\ n - 1 \in Sizes
    BY <1>2, SizeAssumption DEF Sizes
  <2> QED  BY <1>4, <2>1, HeapType DEF Removed, PoolOK
<1>6. /\ DOMAIN q.index = DOMAIN p.index \ {e.tx.hash}
      /\ q.index = [h \in DOMAIN q.index |-> q.index[h]]
      /\ \A h \in DOMAIN q.index : q.index[h] = p.index[h]
  BY <1>3 DEF Without
<1>7. DOMAIN q.index \subseteq Hash /\ IsFiniteSet(DOMAIN q.index)
      /\ \A h \in DOMAIN q.index : q.index[h] \in Entry /\ q.index[h].tx.hash = h
  BY <1>6, FS_Subset DEF PoolOK
<1>8. e.tx.from \in Sender /\ e.tx.hash \in Hash /\ e.id \in Id
  BY EntryType
<1>9. /\ q.bySender = [s \in Sender |-> q.bySender[s]]
      /\ \A s \in Sender : q.bySender[s] =
           IF s = e.tx.from THEN Unqueue(p.bySender[s], e) ELSE p.bySender[s]
  <2>1. p.bySender = [s \in Sender |-> p.bySender[s]]
    BY DEF PoolOK
  <2> QED  BY <1>3, <1>8, <2>1
<1>10. \A s \in Sender : Queue(q.bySender[s], s)
  <2> TAKE s \in Sender
  <2>1. Queue(p.bySender[s], s)
    BY DEF PoolOK
  <2>2. Queue(Unqueue(p.bySender[s], e), s)
    BY <2>1, UnqueueFacts
  <2> QED  BY <1>9, <2>1, <2>2
<1>11. ASSUME NEW h \in DOMAIN q.index
       PROVE  q.index[h] \in Range(q.bySender[q.index[h].tx.from])
  <2> DEFINE f == p.index[h]
  <2>1. h \in DOMAIN p.index /\ h # e.tx.hash /\ q.index[h] = f
    BY <1>6, <1>11
  <2>2. f \in Entry /\ f.tx.hash = h /\ f \in Range(p.bySender[f.tx.from])
    BY <2>1 DEF PoolOK
  <2>3. f.tx.from \in Sender
    BY <2>2, EntryType
  <2> HIDE DEF f
  <2>4. Queue(p.bySender[f.tx.from], f.tx.from)
    BY <2>3 DEF PoolOK
  <2>5. f \in Range(Unqueue(p.bySender[f.tx.from], e))
    BY <2>1, <2>2, <2>4, UnqueueFacts
  <2> QED  BY <1>9, <2>1, <2>2, <2>3, <2>5
<1>12. PoolOK(q)
  BY <1>5, <1>6, <1>7, <1>9, <1>10, <1>11 DEF PoolOK
<1>13. ASSUME Synced(p), e \in Range(p.index)
       PROVE  Synced(q) /\ \A f \in Range(p.index) : f # e => f \in Range(q.index)
  <2>1. Tracked(p.heap) /\ Range(p.heap.arr) = Range(p.index)
    BY <1>13 DEF Synced
  <2>2. p.heap.arr[i] = e
    <3>1. PICK j \in 1 .. n : e = p.heap.arr[j]
      BY <1>1, <1>13, <2>1, InRange
    <3>2. p.heap.pos[e.id] = j
      BY <1>1, <2>1, <3>1 DEF Tracked
    <3> QED  BY <1>0, <3>1, <3>2
  <2>3. Tracked(q.heap) /\ Range(q.heap.arr) = Range(p.index) \ {e}
    <3>1. /\ Range(q.heap.arr) \subseteq Range(p.heap.arr)
          /\ Range(p.heap.arr) \subseteq Range(q.heap.arr) \cup {e}
          /\ Tracked(q.heap) /\ e \notin Range(q.heap.arr)
      BY <1>4, <2>1, <2>2 DEF Removed
    <3> QED  BY <2>1, <3>1
  <2>4. Range(q.index) = Range(p.index) \ {e}
    <3>1. PICK h \in DOMAIN p.index : e = p.index[h]
      BY <1>13, InRange
    <3>2. h = e.tx.hash
      BY <3>1 DEF PoolOK
    <3>3. ASSUME NEW k \in DOMAIN p.index PROVE k # h <=> p.index[k] # e
      BY <3>1, <3>3 DEF PoolOK
    <3>4. ASSUME NEW f \in Range(q.index) PROVE f \in Range(p.index) \ {e}
      <4>1. PICK k \in DOMAIN q.index : f = q.index[k]
        BY <3>4, InRange
      <4>2. k \in DOMAIN p.index /\ k # h /\ f = p.index[k]
        BY <1>6, <3>2, <4>1
      <4> QED  BY <3>3, <4>2, InRange
    <3>5. ASSUME NEW f \in Range(p.index), f # e PROVE f \in Range(q.index)
      <4>1. PICK k \in DOMAIN p.index : f = p.index[k]
        BY <3>5, InRange
      <4>2. k \in DOMAIN q.index /\ f = q.index[k]
        BY <1>6, <3>2, <3>3, <3>5, <4>1
      <4> QED  BY <4>2, InRange
    <3> QED  BY <3>4, <3>5
  <2> QED  BY <2>3, <2>4 DEF Synced
<1>14. Range(q.heap.arr) \subseteq Range(p.heap.arr)
  BY <1>4 DEF Removed
<1> QED  BY <1>1, <1>5, <1>6, <1>12, <1>13, <1>14 DEF Evicted

\* While heap and index agree, what the index knows can be evicted.
LEMMA SyncedCanEvict ==
  ASSUME NEW p, PoolOK(p), Synced(p), NEW e \in Range(p.index)
  PROVE  e \in Entry /\ CanEvict(p, e)
<1>1. PICK n \in Sizes : DOMAIN p.heap.arr = 1 .. n /\ p.heap.arr \in [1 .. n -> Entry]
  BY PoolHeap
<1>2. PICK j \in 1 .. n : e = p.heap.arr[j]
  BY <1>1, InRange DEF Synced
<1>3. p.heap.pos[e.id] = j
  BY <1>1, <1>2 DEF Synced, Tracked
<1> QED  BY <1>1, <1>2, <1>3 DEF CanEvict, CanHeapRemove

----------------------------------------------------------------------------
(***************************************************************************)
(* The inductive invariant                                                 *)
(***************************************************************************)

\* The entries of p's heap are among the first k.
Young(p, k) == \A e \in Range(p.heap.arr) : e.id <= k

Good(p, k, sync) == PoolOK(p) /\ Young(p, k) /\ (sync => Synced(p))

\* Only the three fields matter.
LEMMA GoodFields ==
  ASSUME NEW p, NEW q, p.heap = q.heap, p.index = q.index, p.bySender = q.bySender,
         NEW k, NEW sync, Good(p, k, sync)
  PROVE  Good(q, k, sync)
<1>1. PoolOK(q)
  BY DEF Good, PoolOK
<1>2. Young(q, k)
  BY DEF Good, Young
<1>3. sync => Synced(q)
  BY DEF Good, Synced
<1> QED  BY <1>1, <1>2, <1>3 DEF Good

LEMMA PoolFields == Pool.heap = heap /\ Pool.index = index /\ Pool.bySender = bySender
BY DEF Pool

LEMMA InitGood ==
  ASSUME Init
  PROVE  Good(Pool, entries, ~popped)
<1>0. 0 \in Sizes /\ 0 \in 0 .. MaxSize /\ 0 <= MaxPerAddr
  BY SizeAssumption DEF Sizes
<1>1. heap \in Heaps(0) /\ DOMAIN heap.arr = {} /\ Range(heap.arr) = {}
  <2>1. heap = [arr |-> <<>>, pos |-> [i \in Id |-> 0]] /\ <<>> \in [1 .. 0 -> Entry] /\ DOMAIN <<>> = {}
    BY DEF Init
  <2>2. [i \in Id |-> 0] \in [Id -> 0 .. MaxSize]
    BY <1>0
  <2>3. heap.arr = <<>>
    BY <2>1
  <2>4. Range(heap.arr) = {}
    BY <2>1, <2>3 DEF Range
  <2>5. heap \in Heaps(0)
    BY <2>1, <2>2 DEF Heaps
  <2> QED  BY <2>1, <2>3, <2>4, <2>5
<1>2. DOMAIN index = {} /\ index = [h \in {} |-> index[h]] /\ Range(index) = {}
  <2>1. index = <<>> /\ DOMAIN index = {}
    BY DEF Init
  <2>2. Range(index) = {}
    BY <2>1 DEF Range
  <2>3. index = [h \in {} |-> index[h]]
    BY <2>1
  <2> QED  BY <2>1, <2>2, <2>3
<1>3. bySender = [s \in Sender |-> bySender[s]] /\ \A s \in Sender : Queue(bySender[s], s)
  <2>1. bySender = [s \in Sender |-> <<>>]
    BY DEF Init
  <2>2. \A s : Queue(<<>>, s)
    BY <1>0 DEF Queue, Sorted, Range
  <2> QED  BY <2>1, <2>2
<1>4. PoolOK(Pool)
  BY <1>0, <1>1, <1>2, <1>3, PoolFields, FS_EmptySet DEF PoolOK, HeapOrdered
<1>5. Synced(Pool) /\ Young(Pool, entries)
  BY <1>1, <1>2, PoolFields DEF Synced, Tracked, Young
<1> QED  BY <1>4, <1>5 DEF Good

\* An eviction leaves a good pool.
LEMMA EvictGood ==
  ASSUME NEW p, NEW k, NEW sync, Good(p, k, sync), NEW e \in Entry, CanEvict(p, e),
         sync => e \in Range(p.index)
  PROVE  Good(Evict(p, e), k, sync) /\ Evicted(p, Evict(p, e), e)
<1>1. Evicted(p, Evict(p, e), e)
  BY EvictFacts DEF Good
<1> QED  BY <1>1 DEF Evicted, Good, Young

\* The pool that Add pushes into has room.
LEMMA MakeRoomGood ==
  ASSUME NEW sync, Good(Pool, entries, sync), IsFull => CanEvict(Pool, heap.arr[1])
  PROVE  /\ Good(MakeRoom, entries, sync)
         /\ Len(MakeRoom.heap.arr) < MaxSize
         /\ DOMAIN MakeRoom.index \subseteq DOMAIN index
         /\ \A h \in DOMAIN MakeRoom.index : MakeRoom.index[h] = index[h]
<1>1. PICK n \in Sizes : /\ heap \in Heaps(n) /\ Len(heap.arr) = n /\ DOMAIN heap.arr = 1 .. n
                         /\ heap.arr \in [1 .. n -> Entry]
  BY PoolHeap, PoolFields DEF Good
<1>2. CASE IsFull
  <2>1. n = MaxSize /\ 1 \in 1 .. n /\ n \in Nat
    BY <1>1, <1>2, SizeAssumption DEF IsFull, Sizes
  <2>2. heap.arr[1] \in Entry /\ heap.arr[1] \in Range(heap.arr)
    BY <1>1, <2>1, InRange
  <2>3. sync => heap.arr[1] \in Range(Pool.index)
    BY <2>2, PoolFields DEF Good, Synced
  <2>4. Good(Evict(Pool, heap.arr[1]), entries, sync)
        /\ Evicted(Pool, Evict(Pool, heap.arr[1]), heap.arr[1])
    BY <1>2, <2>2, <2>3, EvictGood
  <2>5. MakeRoom = Evict(Pool, heap.arr[1])
    BY <1>2 DEF MakeRoom
  <2>6. Len(MakeRoom.heap.arr) < MaxSize
    BY <1>1, <2>1, <2>4, <2>5, PoolFields DEF Evicted
  <2> QED  BY <2>4, <2>5, <2>6, PoolFields DEF Evicted
<1>3. CASE ~IsFull
  <2>1. MakeRoom = Pool
    BY <1>3 DEF MakeRoom
  <2>2. Len(heap.arr) < MaxSize
    BY <1>1, <1>3, SizeAssumption DEF IsFull, Sizes
  <2> QED  BY <2>1, <2>2, PoolFields
<1> QED  BY <1>2, <1>3

\* Add: the new entry is in the heap, in the index and in its sender's queue.
LEMMA AddGood ==
  ASSUME NEW sync, Good(Pool, entries, sync), entries \in 0 .. MaxEntries, NEW t \in Tx, Add(t)
  PROVE  Good(Pool', entries', sync)
<1> DEFINE e == [id |-> entries + 1, tx |-> t]
           r == MakeRoom
           q == [heap |-> Push(r.heap, e),
                 index |-> [h \in DOMAIN r.index \cup {t.hash} |-> IF h = t.hash THEN e ELSE r.index[h]],
                 bySender |-> [r.bySender EXCEPT ![t.from] = InsertSorted(bySender[t.from], e)]]
<1>1. /\ t.hash \notin DOMAIN index /\ Len(bySender[t.from]) < MaxPerAddr
      /\ IsFull => CanEvict(Pool, heap.arr[1])
      /\ entries' = entries + 1 /\ Pooled(q) /\ entries < MaxEntries
  BY DEF Add, Admits
<1>2. /\ Good(r, entries, sync) /\ Len(r.heap.arr) < MaxSize
      /\ DOMAIN r.index \subseteq DOMAIN index /\ \A h \in DOMAIN r.index : r.index[h] = index[h]
  BY <1>1, MakeRoomGood
<1>3. e \in Entry /\ e.id = entries + 1 /\ e.tx = t /\ t.hash \in Hash /\ t.from \in Sender /\ entries \in Nat
  BY <1>1, SizeAssumption, TxAssumption DEF Entry, Id
<1>4. /\ q.heap = Push(r.heap, e)
      /\ q.index = [h \in DOMAIN r.index \cup {t.hash} |-> IF h = t.hash THEN e ELSE r.index[h]]
      /\ q.bySender = [r.bySender EXCEPT ![t.from] = InsertSorted(bySender[t.from], e)]
  OBVIOUS
<1>5. Pool'.heap = q.heap /\ Pool'.index = q.index /\ Pool'.bySender = q.bySender
  BY <1>1 DEF Pool, Pooled
<1> HIDE DEF q, r, e
<1>6. PoolOK(r) /\ Young(r, entries) /\ (sync => Synced(r)) /\ PoolOK(Pool)
  BY <1>2 DEF Good
<1>7. PICK n \in Sizes : /\ r.heap \in Heaps(n) /\ Len(r.heap.arr) = n /\ DOMAIN r.heap.arr = 1 .. n
  BY <1>6, PoolHeap
<1>8. n \in 0 .. MaxSize /\ n < MaxSize /\ n + 1 \in Sizes
  BY <1>2, <1>7, SizeAssumption DEF Sizes
<1>9. /\ q.heap \in Heaps(n + 1) /\ Range(q.heap.arr) = Range(r.heap.arr) \cup {e}
      /\ HeapOrdered(r.heap) => HeapOrdered(q.heap)
      /\ Tracked(r.heap) /\ (\A i \in 1 .. n : r.heap.arr[i].id # e.id) => Tracked(q.heap)
  BY <1>3, <1>4, <1>7, <1>8, PushFacts
<1>10. HeapOrdered(q.heap)
  BY <1>6, <1>9 DEF PoolOK
<1>11. /\ DOMAIN q.index = DOMAIN r.index \cup {t.hash}
       /\ q.index = [h \in DOMAIN q.index |-> q.index[h]]
       /\ q.index[t.hash] = e
       /\ \A h \in DOMAIN r.index : q.index[h] = r.index[h] /\ h # t.hash
  BY <1>1, <1>2, <1>4
<1>12. /\ DOMAIN q.index \subseteq Hash /\ IsFiniteSet(DOMAIN q.index)
       /\ \A h \in DOMAIN q.index : q.index[h] \in Entry /\ q.index[h].tx.hash = h
  <2>1. DOMAIN r.index \subseteq Hash /\ IsFiniteSet(DOMAIN r.index)
        /\ \A h \in DOMAIN r.index : r.index[h] \in Entry /\ r.index[h].tx.hash = h
    BY <1>6 DEF PoolOK
  <2>2. IsFiniteSet(DOMAIN q.index)
    BY <1>11, <2>1, FS_AddElement
  <2> QED  BY <1>3, <1>11, <2>1, <2>2
<1>13. /\ Queue(InsertSorted(bySender[t.from], e), t.from)
       /\ Range(InsertSorted(bySender[t.from], e)) = Range(bySender[t.from]) \cup {e}
  <2>1. Queue(bySender[t.from], t.from)
    BY <1>3, <1>6, PoolFields DEF PoolOK
  <2>2. e.tx.from = t.from
    BY <1>3
  <2> QED  BY <1>1, <1>3, <2>1, <2>2, InsertSortedFacts
<1>14. /\ q.bySender = [s \in Sender |-> q.bySender[s]]
       /\ \A s \in Sender : q.bySender[s] =
            IF s = t.from THEN InsertSorted(bySender[t.from], e) ELSE r.bySender[s]
  <2>1. r.bySender = [s \in Sender |-> r.bySender[s]]
    BY <1>6 DEF PoolOK
  <2> QED  BY <1>3, <1>4, <2>1
<1>15. \A s \in Sender : Queue(q.bySender[s], s)
  <2>1. \A s \in Sender : Queue(r.bySender[s], s)
    BY <1>6 DEF PoolOK
  <2> QED  BY <1>13, <1>14, <2>1
<1>16. ASSUME NEW h \in DOMAIN q.index PROVE q.index[h] \in Range(q.bySender[q.index[h].tx.from])
  <2>1. CASE h = t.hash
    BY <1>3, <1>11, <1>13, <1>14, <2>1
  <2>2. CASE h # t.hash
    <3>1. h \in DOMAIN r.index /\ q.index[h] = r.index[h] /\ h \in DOMAIN index /\ r.index[h] = index[h]
      BY <1>2, <1>11, <2>2
    <3>2. r.index[h].tx.from \in Sender
      BY <1>12, <3>1, EntryType
    <3>3. index[h] \in Range(bySender[index[h].tx.from])
      BY <1>6, <3>1, PoolFields DEF PoolOK
    <3>4. r.index[h] \in Range(r.bySender[r.index[h].tx.from])
      BY <1>6, <3>1 DEF PoolOK
    <3> QED  BY <1>13, <1>14, <3>1, <3>2, <3>3, <3>4
  <2> QED  BY <2>1, <2>2
<1>17. PoolOK(q)
  BY <1>8, <1>9, <1>10, <1>11, <1>12, <1>14, <1>15, <1>16 DEF PoolOK
<1>18. Young(q, entries + 1)
  <2>1. \A f \in Range(r.heap.arr) : f.id <= entries /\ f.id \in Nat
    <3>1. PICK m \in Sizes : r.heap.arr \in [1 .. m -> Entry] /\ DOMAIN r.heap.arr = 1 .. m
      BY <1>6, PoolHeap
    <3>2. ASSUME NEW f \in Range(r.heap.arr) PROVE f \in Entry
      <4>1. PICK i \in 1 .. m : f = r.heap.arr[i]
        BY <3>1, <3>2, InRange
      <4> QED  BY <3>1, <4>1
    <3>3. \A f \in Entry : f.id \in Nat
      BY EntryType DEF Id
    <3> QED  BY <1>6, <3>2, <3>3 DEF Young
  <2> QED  BY <1>3, <1>9, <2>1 DEF Young
<1>19. ASSUME sync PROVE Synced(q)
  <2>1. Tracked(r.heap) /\ Range(r.heap.arr) = Range(r.index)
    BY <1>6, <1>19 DEF Synced
  <2>2. \A i \in 1 .. n : r.heap.arr[i].id # e.id
    <3>1. \A i \in 1 .. n : r.heap.arr[i].id <= entries
      BY <1>6, <1>7, InRange DEF Young
    <3> QED  BY <1>3, <3>1
  <2>3. Range(q.index) = Range(r.index) \cup {e}
    BY <1>11, InRange
  <2> QED  BY <1>9, <2>1, <2>2, <2>3 DEF Synced
<1>20. Good(q, entries + 1, sync)
  BY <1>17, <1>18, <1>19 DEF Good
<1>21. Good(Pool', entries + 1, sync)
  BY <1>5, <1>20, GoodFields
<1> QED  BY <1>1, <1>21

----------------------------------------------------------------------------
(***************************************************************************)
(* A round of evictions                                                    *)
(***************************************************************************)

Pools == [heap : UNION {Heaps(n) : n \in Sizes},
          index : UNION {[D -> Entry] : D \in SUBSET Hash},
          bySender : [Sender -> Seq(Entry)]]

\* A round of evictions that has left a pool in order.
Rounds == {s \in [pool : Pools, panic : BOOLEAN] : PoolOK(s.pool)}

EvictOnce(order, k, s) ==
  IF s.panic \/ ~CanEvict(s.pool, order[k])
  THEN [s EXCEPT !.panic = TRUE]
  ELSE [s EXCEPT !.pool = Evict(@, order[k])]

\* After k evictions of order, and if heap and index agreed, what is left of order
\* is still in the index.
Round(order, k, s, last, sync) ==
  /\ Young(s.pool, last)
  /\ sync => /\ Synced(s.pool) /\ ~s.panic
             /\ \A j \in k + 1 .. Len(order) : order[j] \in Range(s.pool.index)

\* An ordering of entries: no entry twice.
Ordering(order) ==
  /\ order \in Seq(Entry)
  /\ \A i, j \in 1 .. Len(order) : order[i] = order[j] => i = j

LEMMA PoolInPools ==
  ASSUME NEW p, PoolOK(p), NEW h, NEW x, NEW b, p = [heap |-> h, index |-> x, bySender |-> b]
  PROVE  p \in Pools
<1>1. p.heap \in UNION {Heaps(n) : n \in Sizes}
  BY DEF PoolOK
<1>2. p.index \in UNION {[D -> Entry] : D \in SUBSET Hash}
  <2>1. p.index \in [DOMAIN p.index -> Entry] /\ DOMAIN p.index \in SUBSET Hash
    BY DEF PoolOK
  <2> QED  BY <2>1
<1>3. p.bySender \in [Sender -> Seq(Entry)]
  BY DEF PoolOK, Queue
<1> QED  BY <1>1, <1>2, <1>3 DEF Pools

LEMMA EvictOnceFacts ==
  ASSUME NEW order, Ordering(order), NEW k \in 1 .. Len(order), NEW s \in Rounds,
         NEW last, NEW sync
  PROVE  /\ EvictOnce(order, k, s) \in Rounds
         /\ Round(order, k - 1, s, last, sync) => Round(order, k, EvictOnce(order, k, s), last, sync)
<1> DEFINE e == order[k]
           r == EvictOnce(order, k, s)
           q == Evict(s.pool, e)
<1>0. /\ e \in Entry /\ Len(order) \in Nat /\ PoolOK(s.pool) /\ s.pool \in Pools /\ s.panic \in BOOLEAN
      /\ s = [pool |-> s.pool, panic |-> s.panic]
  BY DEF Ordering, Rounds
<1>1. CASE s.panic \/ ~CanEvict(s.pool, e)
  <2>1. r = [pool |-> s.pool, panic |-> TRUE]
    BY <1>0, <1>1 DEF EvictOnce
  <2>2. r.pool = s.pool
    BY <2>1
  <2>3. r \in Rounds
    BY <1>0, <2>1 DEF Rounds
  <2>4. ASSUME Round(order, k - 1, s, last, sync) PROVE Round(order, k, r, last, sync)
    <3>1. ASSUME sync PROVE FALSE
      <4>1. Synced(s.pool) /\ ~s.panic /\ k \in (k - 1) + 1 .. Len(order)
        BY <1>0, <2>4, <3>1 DEF Round
      <4>2. e \in Range(s.pool.index)
        BY <2>4, <3>1, <4>1 DEF Round
      <4> QED  BY <1>0, <1>1, <4>1, <4>2, SyncedCanEvict
    <3> QED  BY <2>2, <2>4, <3>1 DEF Round
  <2> QED  BY <2>3, <2>4
<1>2. CASE ~s.panic /\ CanEvict(s.pool, e)
  <2>1. r = [pool |-> q, panic |-> s.panic]
    BY <1>0, <1>2 DEF EvictOnce
  <2>2. Evicted(s.pool, q, e)
    BY <1>0, <1>2, EvictFacts
  <2>3. q \in Pools
    <3>1. PoolOK(q)
      BY <2>2 DEF Evicted
    <3> QED  BY <3>1, PoolInPools DEF Evict
  <2> HIDE DEF q
  <2>4. r.pool = q /\ r.panic = s.panic
    BY <2>1
  <2>5. r \in Rounds
    BY <1>0, <2>1, <2>2, <2>3 DEF Rounds, Evicted
  <2> HIDE DEF r
  <2>6. ASSUME Round(order, k - 1, s, last, sync) PROVE Round(order, k, r, last, sync)
    <3>1. Young(q, last)
      BY <2>2, <2>6 DEF Round, Young, Evicted
    <3>2. ASSUME sync
          PROVE  /\ Synced(q) /\ ~s.panic
                 /\ \A j \in k + 1 .. Len(order) : order[j] \in Range(q.index)
      <4>1. Synced(s.pool) /\ \A j \in (k - 1) + 1 .. Len(order) : order[j] \in Range(s.pool.index)
        BY <2>6, <3>2 DEF Round
      <4>2. k \in (k - 1) + 1 .. Len(order) /\ k \in 1 .. Len(order)
            /\ \A j \in k + 1 .. Len(order) : j \in (k - 1) + 1 .. Len(order) /\ j # k /\ j \in 1 .. Len(order)
        BY <1>0
      <4>3. \A j \in k + 1 .. Len(order) : order[j] # e
        BY <4>2 DEF Ordering
      <4>4. e \in Range(s.pool.index)
        BY <4>1, <4>2
      <4>5. Synced(q) /\ \A f \in Range(s.pool.index) : f # e => f \in Range(q.index)
        BY <2>2, <4>1, <4>4 DEF Evicted
      <4>6. \A j \in k + 1 .. Len(order) : order[j] \in Range(q.index)
        BY Zenon, <4>1, <4>2, <4>3, <4>5
      <4> QED  BY <1>2, <4>5, <4>6
    <3> QED  BY <2>4, <3>1, <3>2 DEF Round
  <2> QED  BY <2>5, <2>6 DEF r
<1> QED  BY <1>0, <1>1, <1>2

\* A round of evictions of entries of the index leaves a good pool, and panics only
\* after Pending popped an entry.
LEMMA EvictAllGood ==
  ASSUME NEW last, NEW sync, Good(Pool, last, sync), NEW order, Ordering(order),
         \A i \in 1 .. Len(order) : order[i] \in Range(index)
  PROVE  /\ Good(EvictAll(order).pool, last, sync)
         /\ EvictAll(order).panic \in BOOLEAN
         /\ sync => ~EvictAll(order).panic
<1> DEFINE n == Len(order)
           a == [pool |-> Pool, panic |-> FALSE]
           Equation(x) == x = [k \in 0 .. n |-> IF k = 0 THEN a ELSE EvictOnce(order, k, x[k - 1])]
           step == [k \in 1 .. n |-> [s \in Rounds |-> EvictOnce(order, k, s)]]
           u == CHOOSE x : Equation(x)
<1>0. n \in Nat /\ n \in 0 .. n /\ 0 \in 0 .. n
  BY DEF Ordering
<1>1. EvictAll(order) = u[n]
  BY Zenon DEF EvictAll, EvictOnce
<1>2. step \in [1 .. n -> [Rounds -> Rounds]]
  BY EvictOnceFacts
<1>3. a \in Rounds /\ Round(order, 0, a, last, sync)
  <2>1. Pool \in Pools /\ PoolOK(Pool) /\ Young(Pool, last) /\ (sync => Synced(Pool))
    BY PoolInPools DEF Good, Pool
  <2>2. a.pool = Pool /\ a.panic = FALSE /\ Pool.index = index
    BY PoolFields
  <2>3. \A j \in 0 + 1 .. n : order[j] \in Range(index)
    BY <1>0
  <2> HIDE DEF a
  <2>4. Round(order, 0, a, last, sync)
    BY <2>1, <2>2, <2>3 DEF Round
  <2>5. a \in Rounds
    BY <2>1 DEF a, Rounds
  <2> QED  BY <2>4, <2>5
<1>4. \A k \in 1 .. n : \A s \in Rounds : step[k][s] = EvictOnce(order, k, s)
  OBVIOUS
<1> HIDE DEF step, a, n
<1>5. \E x : Equation(x)
  <2>2. PICK f : Recursion(f, n, Rounds, a, step)
    BY Zenon, <1>0, <1>2, <1>3, RecursionHolds
  <2>3. ASSUME NEW i \in 0 .. n PROVE f[i] = IF i = 0 THEN a ELSE EvictOnce(order, i, f[i - 1])
    <3>1. CASE i = 0
      BY <2>2, <3>1 DEF Recursion
    <3>2. CASE i # 0
      <4>1. i \in 1 .. n /\ i - 1 \in 0 .. n
        BY <1>0, <3>2
      <4>2. f[i] = step[i][f[i - 1]] /\ f[i - 1] \in Rounds
        BY <2>2, <4>1 DEF Recursion
      <4> QED  BY <1>4, <3>2, <4>1, <4>2
    <3> QED  BY <3>1, <3>2
  <2>4. f = [i \in 0 .. n |-> f[i]]
    BY <2>2 DEF Recursion
  <2> QED  BY Zenon, <2>3, <2>4
<1>6. Equation(u)
  BY Zenon, <1>5
<1> HIDE DEF u
<1>7. u[0] = a /\ \A k \in 1 .. n : u[k] = EvictOnce(order, k, u[k - 1])
  BY <1>0, <1>6
<1> DEFINE T == {k \in 0 .. n : u[k] \in Rounds /\ Round(order, k, u[k], last, sync)}
<1>8. 0 \in T
  BY <1>0, <1>3, <1>7
<1>9. ASSUME NEW k \in 1 .. n, k - 1 \in T PROVE k \in T
  <2>1. u[k - 1] \in Rounds /\ Round(order, k - 1, u[k - 1], last, sync) /\ k \in 1 .. Len(order)
    BY <1>9 DEF n
  <2>2. EvictOnce(order, k, u[k - 1]) \in Rounds /\ Round(order, k, EvictOnce(order, k, u[k - 1]), last, sync)
    BY <2>1, EvictOnceFacts
  <2> QED  BY <1>0, <1>7, <2>2
<1>10. n \in T
  <2>1. \A k \in 0 .. n : k \in T
    <3> HIDE DEF T
    <3> QED  BY <1>0, <1>8, <1>9, UpToInduction
  <2> QED  BY <1>0, <2>1
<1>11. u[n] \in Rounds /\ Round(order, n, u[n], last, sync)
  BY <1>10
<1> QED  BY <1>1, <1>11 DEF Round, Rounds, Good

----------------------------------------------------------------------------
(***************************************************************************)
(* The loop of Pending                                                     *)
(***************************************************************************)

\* A copy of the heap, with whatever heapIndex fields.
Copies == UNION {[1 .. m -> Entry] : m \in Sizes}

CopyOrdered(copy) == \A i \in DOMAIN copy : i > 1 => ~(copy[i].tx.price > copy[i \div 2].tx.price)

Calls == [n : Requests, copy : Copies, txs : Seq(Tx), since : [Sender -> Nat]]

\* At nonces now, t needs no place in txs: it has not been ready all the time since then.
Covered(t, txs, since, now) ==
  \/ t \in Range(txs)
  \/ t.nonce # since[t.from] \/ t.nonce # now[t.from]
  \/ \E u \in Range(txs) : u.from = t.from /\ u.price >= t.price

\* Transactions of the pool, once ready, one for each sender, from the highest price down.
Picked(txs, pool, since, now) ==
  /\ \A i \in 1 .. Len(txs) :
       /\ txs[i] \in {e.tx : e \in pool}
       /\ since[txs[i].from] <= txs[i].nonce /\ txs[i].nonce <= now[txs[i].from]
  /\ \A i, j \in 1 .. Len(txs) : i < j => txs[i].from # txs[j].from /\ txs[i].price >= txs[j].price

\* Call p of Pending has served the entries of the pool that are no longer in its copy.
Serves(p, pool, now) ==
  /\ p \in Calls
  /\ CopyOrdered(p.copy) /\ Range(p.copy) \subseteq pool
  /\ Len(p.txs) <= p.n
  /\ \A s \in Sender : p.since[s] <= now[s]
  /\ Picked(p.txs, pool, p.since, now)
  /\ \A e \in Range(p.copy) : \A i \in 1 .. Len(p.txs) : p.txs[i].price >= e.tx.price
  /\ \A e \in pool : e \in Range(p.copy) \/ Covered(e.tx, p.txs, p.since, now)

LEMMA RangeSeq ==
  ASSUME NEW S, NEW t \in Seq(S)
  PROVE  \A x : x \in Range(t) <=> \E i \in 1 .. Len(t) : x = t[i]
<1>1. DOMAIN t = 1 .. Len(t)
  OBVIOUS
<1> QED  BY <1>1, InRange

LEMMA RangeWithin ==
  ASSUME NEW S, NEW T, NEW f \in [S -> T]
  PROVE  Range(f) \subseteq T
BY DEF Range

LEMMA CallType ==
  ASSUME NEW p \in Calls
  PROVE  /\ p.n \in Requests /\ p.n \in Nat \ {0} /\ p.since \in [Sender -> Nat]
         /\ p.txs \in Seq(Tx) /\ Len(p.txs) \in Nat
         /\ p.copy \in Copies /\ p = [n |-> p.n, copy |-> p.copy, txs |-> p.txs, since |-> p.since]
<1>1. p.n \in Requests /\ p.copy \in Copies /\ p.txs \in Seq(Tx) /\ p.since \in [Sender -> Nat]
  BY DEF Calls
<1>2. p.n \in Nat \ {0}
  BY <1>1, SizeAssumption
<1>4. Len(p.txs) \in Nat
  <2>1. \A t \in Seq(Tx) : Len(t) \in Nat
    OBVIOUS
  <2> QED  BY <1>1, <2>1
<1>3. p = [n |-> p.n, copy |-> p.copy, txs |-> p.txs, since |-> p.since]
  BY DEF Calls
<1> QED  BY <1>1, <1>2, <1>3, <1>4

\* The copy of a call and the heapIndex fields are a heap.
LEMMA CopyHeap ==
  ASSUME NEW copy \in Copies, CopyOrdered(copy), NEW pos \in [Id -> 0 .. MaxSize],
         NEW h, h = [arr |-> copy, pos |-> pos]
  PROVE  \E m \in Sizes : h \in Heaps(m) /\ HeapOrdered(h) /\ Len(copy) = m /\ DOMAIN copy = 1 .. m
<1>1. PICK m \in Sizes : copy \in [1 .. m -> Entry]
  BY DEF Copies
<1>2. m \in Nat
  BY SizeAssumption DEF Sizes
<1>3. h \in Heaps(m) /\ h.arr = copy
  BY <1>1 DEF Heaps
<1>4. Len(copy) = m /\ DOMAIN copy = 1 .. m
  BY <1>2, <1>3, HeapType
<1>5. HeapOrdered(h)
  BY <1>3 DEF HeapOrdered, Less, CopyOrdered
<1> QED  BY <1>3, <1>4, <1>5

\* And a heap of the pool's size makes a copy.
LEMMA HeapCopy ==
  ASSUME NEW m \in Sizes, NEW h \in Heaps(m), HeapOrdered(h)
  PROVE  h.arr \in Copies /\ CopyOrdered(h.arr)
<1>1. h.arr \in [1 .. m -> Entry]
  BY DEF Heaps
<1>2. h.arr \in Copies
  BY <1>1 DEF Copies
<1>3. CopyOrdered(h.arr)
  BY DEF HeapOrdered, Less, CopyOrdered
<1> QED  BY <1>2, <1>3

\* The chain moves on under a call: what was not ready all the time is not so now.
LEMMA ServesStill ==
  ASSUME NEW pool, pool \subseteq Entry, NEW now \in [Sender -> Nat], NEW later \in [Sender -> Nat],
         \A s \in Sender : now[s] <= later[s], NEW p, Serves(p, pool, now)
  PROVE  Serves(p, pool, later)
<1>1. p.since \in [Sender -> Nat] /\ \A s \in Sender : p.since[s] <= now[s]
  BY CallType DEF Serves
<1>2. \A e \in pool : e.tx.from \in Sender /\ e.tx.nonce \in Nat
  BY EntryType
<1>3. \A s \in Sender : /\ p.since[s] \in Nat /\ now[s] \in Nat /\ later[s] \in Nat
                        /\ p.since[s] <= later[s]
  BY <1>1
<1>4. Picked(p.txs, pool, p.since, later)
  <2>1. Picked(p.txs, pool, p.since, now)
    BY DEF Serves
  <2>2. ASSUME NEW i \in 1 .. Len(p.txs) PROVE p.txs[i].nonce <= later[p.txs[i].from]
    <3>1. p.txs[i] \in {e.tx : e \in pool} /\ p.txs[i].nonce <= now[p.txs[i].from]
      BY <2>1 DEF Picked
    <3>2. p.txs[i].from \in Sender /\ p.txs[i].nonce \in Nat
      BY <1>2, <3>1
    <3> QED  BY <1>3, <3>1, <3>2
  <2> QED  BY <2>1, <2>2 DEF Picked
<1>5. ASSUME NEW e \in pool, Covered(e.tx, p.txs, p.since, now)
      PROVE  Covered(e.tx, p.txs, p.since, later)
  <2>1. CASE e.tx.nonce # p.since[e.tx.from] \/ e.tx.nonce # now[e.tx.from]
    <3>1. e.tx.nonce # p.since[e.tx.from] \/ e.tx.nonce # later[e.tx.from]
      BY <1>1, <1>2, <1>3, <2>1
    <3> QED  BY <3>1 DEF Covered
  <2>2. CASE e.tx \in Range(p.txs) \/ \E u \in Range(p.txs) : u.from = e.tx.from /\ u.price >= e.tx.price
    BY <2>2 DEF Covered
  <2> QED  BY <1>5, <2>1, <2>2 DEF Covered
<1>6. /\ p \in Calls /\ CopyOrdered(p.copy) /\ Range(p.copy) \subseteq pool /\ Len(p.txs) <= p.n
      /\ \A e \in Range(p.copy) : \A i \in 1 .. Len(p.txs) : p.txs[i].price >= e.tx.price
      /\ \A e \in pool : e \in Range(p.copy) \/ Covered(e.tx, p.txs, p.since, now)
  BY DEF Serves
<1> QED  BY <1>3, <1>4, <1>5, <1>6 DEF Serves

\* A call that begins has everything in its copy.
LEMMA ServesFirst ==
  ASSUME NEW m \in Sizes, NEW h \in Heaps(m), HeapOrdered(h), NEW now \in [Sender -> Nat],
         NEW n \in Requests, NEW p, p = [n |-> n, copy |-> h.arr, txs |-> <<>>, since |-> now]
  PROVE  Serves(p, Range(h.arr), now)
<1>1. h.arr \in Copies /\ CopyOrdered(h.arr)
  BY HeapCopy
<1>2. <<>> \in Seq(Tx) /\ Len(<<>>) = 0 /\ 0 <= n
  BY SizeAssumption
<1>3. p \in Calls /\ p.copy = h.arr /\ p.txs = <<>> /\ p.since = now /\ p.n = n
  BY <1>1, <1>2 DEF Calls
<1>4. Picked(<<>>, Range(h.arr), now, now)
  BY <1>2 DEF Picked
<1>5. \A s \in Sender : now[s] <= now[s]
  OBVIOUS
<1> QED  BY <1>1, <1>2, <1>3, <1>4, <1>5 DEF Serves

\* t may come after txs: it is ready, at no higher a price and of another sender.
Follows(t, txs) ==
  /\ IsReady(t) /\ \A u \in Range(txs) : u.from # t.from
  /\ \A i \in 1 .. Len(txs) : txs[i].price >= t.price

\* next is txs with t at its end.
Lengthened(txs, t, next, pool, since) ==
  /\ next \in Seq(Tx) /\ Len(next) = Len(txs) + 1 /\ Picked(next, pool, since, chainNonce)
  /\ Range(next) = Range(txs) \cup {t}
  /\ \A i \in 1 .. Len(txs) : next[i] = txs[i]
  /\ next[Len(txs) + 1] = t

LEMMA PickNext ==
  ASSUME NEW txs \in Seq(Tx), NEW pool, NEW since \in [Sender -> Nat],
         Picked(txs, pool, since, chainNonce), chainNonce \in [Sender -> Nat],
         \A s \in Sender : since[s] <= chainNonce[s], NEW e \in pool, e \in Entry,
         Follows(e.tx, txs), NEW next, next = Append(txs, e.tx)
  PROVE  Lengthened(txs, e.tx, next, pool, since)
<1> DEFINE m == Len(txs)
<1>0. e.tx \in Tx /\ m \in Nat /\ e.tx.from \in Sender /\ e.tx.nonce = chainNonce[e.tx.from]
  BY EntryType DEF Follows, IsReady
<1>1. next \in Seq(Tx) /\ Len(next) = m + 1 /\ next[m + 1] = e.tx
  BY <1>0
<1>2. \A i \in 1 .. m : next[i] = txs[i]
  BY <1>0
<1>3. \A i \in 1 .. Len(next) : i \in 1 .. m \/ i = m + 1
  BY <1>0, <1>1
<1>7. \A i \in 1 .. m : txs[i] \in Range(txs)
  BY RangeSeq
<1>8. since[e.tx.from] <= e.tx.nonce /\ e.tx.nonce <= chainNonce[e.tx.from]
  BY <1>0
<1> HIDE DEF m
<1>4. \A i \in 1 .. Len(next) :
        /\ next[i] \in {f.tx : f \in pool}
        /\ since[next[i].from] <= next[i].nonce /\ next[i].nonce <= chainNonce[next[i].from]
  BY <1>1, <1>2, <1>3, <1>8 DEF Picked, m
<1>5. ASSUME NEW i \in 1 .. Len(next), NEW j \in 1 .. Len(next), i < j
      PROVE  next[i].from # next[j].from /\ next[i].price >= next[j].price
  <2>1. i \in 1 .. m
    BY <1>0, <1>1, <1>5
  <2>2. CASE j \in 1 .. m
    BY <1>2, <1>5, <2>1, <2>2 DEF Picked, m
  <2>3. CASE j = m + 1
    BY <1>1, <1>2, <1>7, <2>1, <2>3 DEF Follows, m
  <2> QED  BY <1>3, <2>2, <2>3
<1>6. Range(next) = Range(txs) \cup {e.tx}
  <2>0. DOMAIN next = 1 .. m + 1
    BY <1>0, <1>1
  <2>1. \A x : x \in Range(next) <=> \E i \in 1 .. m + 1 : x = next[i]
    BY <2>0, InRange
  <2>2. \A x : x \in Range(txs) <=> \E i \in 1 .. m : x = txs[i]
    BY RangeSeq DEF m
  <2>3. m + 1 \in 1 .. m + 1 /\ \A i \in 1 .. m : i \in 1 .. m + 1
    BY <1>0
  <2> QED  BY <1>1, <1>2, <1>3, <2>1, <2>2, <2>3
<1> QED  BY <1>1, <1>2, <1>4, <1>5, <1>6 DEF Lengthened, Picked, m

\* The call p after a pop that leaves the copy rest.
Turned(p, rest) ==
  [n |-> p.n, copy |-> rest, since |-> p.since,
   txs |-> IF IsChosen(p, p.copy[1].tx) THEN Append(p.txs, p.copy[1].tx) ELSE p.txs]

\* One turn of the loop, which also leaves heapIndex fields of the right type.
LEMMA TurnServes ==
  ASSUME NEW pool, pool \subseteq Entry, chainNonce \in [Sender -> Nat],
         NEW p, Serves(p, pool, chainNonce), ~IsDone(p), NEW pos \in [Id -> 0 .. MaxSize],
         NEW d, d = Pop([arr |-> p.copy, pos |-> pos])
  PROVE  Serves(Turned(p, d.arr), pool, chainNonce) /\ d.pos \in [Id -> 0 .. MaxSize]
<1> DEFINE c == [arr |-> p.copy, pos |-> pos]
           e == c.arr[1]
           txs == IF IsChosen(p, e.tx) THEN Append(p.txs, e.tx) ELSE p.txs
           r == Turned(p, d.arr)
<1>0. /\ p \in Calls /\ CopyOrdered(p.copy) /\ Range(p.copy) \subseteq pool
      /\ Picked(p.txs, pool, p.since, chainNonce) /\ \A s \in Sender : p.since[s] <= chainNonce[s]
      /\ \A f \in Range(p.copy) : \A i \in 1 .. Len(p.txs) : p.txs[i].price >= f.tx.price
      /\ \A f \in pool : f \in Range(p.copy) \/ Covered(f.tx, p.txs, p.since, chainNonce)
  BY DEF Serves
<1>1. /\ p.n \in Requests /\ p.n \in Nat \ {0} /\ p.since \in [Sender -> Nat]
      /\ p.txs \in Seq(Tx) /\ Len(p.txs) \in Nat /\ p.copy \in Copies
  BY <1>0, CallType
<1>2. Len(p.txs) < p.n /\ p.copy # <<>>
  BY <1>1 DEF IsDone
<1>3. c.arr = p.copy /\ c.pos = pos /\ d = Pop(c) /\ e = p.copy[1]
  OBVIOUS
<1>4. /\ txs = IF IsChosen(p, e.tx) THEN Append(p.txs, e.tx) ELSE p.txs
      /\ r = [n |-> p.n, copy |-> d.arr, since |-> p.since, txs |-> txs]
  BY DEF Turned
<1>5. PICK m \in Sizes : c \in Heaps(m) /\ HeapOrdered(c) /\ Len(p.copy) = m /\ DOMAIN p.copy = 1 .. m
  BY <1>0, <1>1, CopyHeap
<1> HIDE DEF c, e, txs, r
<1>6. m \in 1 .. MaxSize /\ m \in Nat /\ m - 1 \in Sizes /\ 1 \in 1 .. m /\ m \in 0 .. MaxSize
  <2>1. m \in Nat /\ m \in 0 .. MaxSize
    BY SizeAssumption DEF Sizes
  <2>2. m # 0
    <3>1. SUFFICES ASSUME m = 0 PROVE FALSE
      OBVIOUS
    <3>2. p.copy \in [1 .. 0 -> Entry]
      BY <1>3, <1>5, <3>1 DEF Heaps
    <3>3. p.copy = <<>>
      BY <3>2
    <3> QED  BY <1>2, <3>3
  <2> QED  BY <2>1, <2>2, SizeAssumption DEF Sizes
<1>7. Removed(c, d, m, e)
  <2>1. Removed(c, d, m, c.arr[1])
    BY <1>3, <1>5, <1>6, PopFacts
  <2> QED  BY <1>3, <2>1
<1>8. c.arr \in [1 .. m -> Entry] /\ DOMAIN c.arr = 1 .. m
  BY <1>5, <1>6, HeapType
<1>9. e \in Entry /\ e \in Range(p.copy) /\ e \in pool
  <2>1. e \in Range(p.copy)
    BY <1>3, <1>5, <1>6, InRange
  <2> QED  BY <1>0, <2>1
<1>10. ASSUME NEW f \in Range(p.copy) PROVE e.tx.price >= f.tx.price
  <2>0. PICK i \in DOMAIN p.copy : f = p.copy[i]
    BY InRange
  <2>1. i \in 1 .. m /\ f = c.arr[i]
    BY <1>3, <1>5, <2>0
  <2>2. f.tx.price <= e.tx.price
    BY <1>3, <1>5, <1>6, <2>1, FirstIsBest
  <2>3. f.tx.price \in Nat /\ e.tx.price \in Nat
    BY <1>0, <1>9, EntryType
  <2> QED  BY <2>2, <2>3
<1>11. \A i \in 1 .. Len(p.txs) : p.txs[i].price >= e.tx.price
  BY <1>0, <1>9
<1>12. d \in Heaps(m - 1) /\ HeapOrdered(d) /\ Range(d.arr) \subseteq Range(p.copy)
       /\ Range(p.copy) \subseteq Range(d.arr) \cup {e}
  BY <1>3, <1>5, <1>7 DEF Removed
<1>13. d.arr \in Copies /\ CopyOrdered(d.arr) /\ d.pos \in [Id -> 0 .. MaxSize]
  <2>1. d.pos \in [Id -> 0 .. MaxSize]
    BY <1>12 DEF Heaps
  <2> QED  BY <1>6, <1>12, <2>1, HeapCopy
<1>14. /\ txs \in Seq(Tx) /\ Len(txs) <= p.n /\ Picked(txs, pool, p.since, chainNonce)
       /\ \A f \in Range(d.arr) : \A i \in 1 .. Len(txs) : txs[i].price >= f.tx.price
       /\ \A f \in pool : f \in Range(d.arr) \/ Covered(f.tx, txs, p.since, chainNonce)
  <2>1. CASE IsChosen(p, e.tx)
    <3>1. IsReady(e.tx) /\ \A t \in Range(p.txs) : t.from # e.tx.from
      BY <2>1 DEF IsChosen
    <3>2. txs = Append(p.txs, e.tx)
      BY <1>4, <2>1
    <3>3. /\ txs \in Seq(Tx) /\ Len(txs) = Len(p.txs) + 1 /\ Picked(txs, pool, p.since, chainNonce)
          /\ Range(txs) = Range(p.txs) \cup {e.tx}
          /\ \A i \in 1 .. Len(p.txs) : txs[i] = p.txs[i]
          /\ txs[Len(p.txs) + 1] = e.tx
      <4>1. Follows(e.tx, p.txs)
        BY <1>11, <3>1 DEF Follows
      <4>2. Lengthened(p.txs, e.tx, txs, pool, p.since)
        BY <1>0, <1>1, <1>9, <3>2, <4>1, PickNext
      <4> QED  BY <4>2 DEF Lengthened
    <3>4. ASSUME NEW f \in Range(d.arr), NEW i \in 1 .. Len(txs)
          PROVE  txs[i].price >= f.tx.price
      <4>1. f \in Range(p.copy)
        BY <1>12, <3>4
      <4>2. i \in 1 .. Len(p.txs) \/ i = Len(p.txs) + 1
        BY <1>1, <3>3
      <4> QED  BY <1>0, <1>10, <3>3, <4>1, <4>2
    <3>5. ASSUME NEW f \in pool PROVE f \in Range(d.arr) \/ Covered(f.tx, txs, p.since, chainNonce)
      <4>1. CASE f \in Range(p.copy)
        BY <1>12, <3>3, <4>1 DEF Covered
      <4>2. CASE Covered(f.tx, p.txs, p.since, chainNonce)
        BY <3>3, <4>2 DEF Covered
      <4> QED  BY <1>0, <4>1, <4>2
    <3>6. Len(txs) <= p.n
      BY <1>1, <1>2, <3>3
    <3> QED  BY <3>3, <3>4, <3>5, <3>6
  <2>2. CASE ~IsChosen(p, e.tx)
    <3>1. txs = p.txs
      BY <1>4, <2>2
    <3>2. Covered(e.tx, p.txs, p.since, chainNonce)
      <4>1. CASE ~IsReady(e.tx)
        BY <4>1 DEF Covered, IsReady
      <4>2. CASE IsReady(e.tx)
        <5>1. PICK t \in Range(p.txs) : t.from = e.tx.from
          BY <2>2, <4>2 DEF IsChosen
        <5>2. PICK i \in 1 .. Len(p.txs) : t = p.txs[i]
          BY <1>1, RangeSeq
        <5>3. t.price >= e.tx.price
          BY <1>11, <5>2
        <5> QED  BY <5>1, <5>3 DEF Covered
      <4> QED  BY <4>1, <4>2
    <3>3. \A f \in pool : f \in Range(d.arr) \/ Covered(f.tx, p.txs, p.since, chainNonce)
      BY <1>0, <1>12, <3>2
    <3>4. \A f \in Range(d.arr) : \A i \in 1 .. Len(p.txs) : p.txs[i].price >= f.tx.price
      BY <1>0, <1>12
    <3> QED  BY <1>0, <1>1, <1>2, <3>1, <3>3, <3>4
  <2> QED  BY <2>1, <2>2
<1>15. r.n = p.n /\ r.copy = d.arr /\ r.since = p.since /\ r.txs = txs
  BY <1>4
<1>16. r \in Calls
  BY <1>1, <1>4, <1>13, <1>14 DEF Calls
<1>17. Range(d.arr) \subseteq pool
  BY <1>0, <1>12
<1>18. Serves(r, pool, chainNonce)
  BY <1>0, <1>13, <1>14, <1>15, <1>16, <1>17 DEF Serves
<1> QED  BY <1>13, <1>18 DEF r

\* A call at the end of its loop has the best of the transactions that stayed ready.
LEMMA DoneIsBest ==
  ASSUME PoolOK(Pool), NEW p, Serves(p, Range(heap.arr), chainNonce), IsDone(p),
         chainNonce \in [Sender -> Nat]
  PROVE  IsBest(p.txs, p.n, p.since)
<1> DEFINE txs == p.txs
           pool == Range(heap.arr)
<1>1. PICK N \in Sizes : Len(heap.arr) = N /\ DOMAIN heap.arr = 1 .. N /\ heap.arr \in [1 .. N -> Entry]
  BY PoolHeap, PoolFields
<1>2. /\ p.n \in Nat /\ txs \in Seq(Tx) /\ Len(txs) \in Nat /\ DOMAIN txs = 1 .. Len(txs)
      /\ p.since \in [Sender -> Nat] /\ Len(txs) <= p.n
  <2>1. p \in Calls /\ Len(p.txs) <= p.n
    BY DEF Serves
  <2> QED  BY <2>1, CallType
<1>3. Picked(txs, pool, p.since, chainNonce)
  BY DEF Serves
<1>4. \A t : t \in {e.tx : e \in pool} <=> \E j \in DOMAIN heap.arr : heap.arr[j].tx = t
  BY InRange
<1>5. \A e \in pool : e \in Entry
  BY <1>1, InRange
<1>6. ASSUME NEW t \in StayedReady(p.since) \ Range(txs)
      PROVE  \/ \E u \in Range(txs) : u.from = t.from /\ u.price >= t.price
             \/ Len(txs) = p.n /\ \A u \in Range(txs) : u.price >= t.price
  <2>1. t \notin Range(txs) /\ t.nonce = p.since[t.from] /\ t.nonce = chainNonce[t.from]
    BY <1>6 DEF StayedReady
  <2>2. PICK e \in pool : t = e.tx
    BY <1>4, <1>6 DEF StayedReady
  <2>3. CASE Covered(t, txs, p.since, chainNonce)
    BY <2>1, <2>3 DEF Covered
  <2>4. CASE e \in Range(p.copy)
    <3>1. Len(txs) = p.n
      <4>1. p.copy # <<>>
        <5>1. PICK k \in DOMAIN p.copy : e = p.copy[k]
          BY <2>4, InRange
        <5>2. DOMAIN <<>> = {}
          OBVIOUS
        <5> QED  BY <5>1, <5>2
      <4> QED  BY <1>2, <4>1 DEF IsDone
    <3>2. \A i \in 1 .. Len(txs) : txs[i].price >= t.price
      BY <2>2, <2>4 DEF Serves
    <3>3. \A u \in Range(txs) : u.price >= t.price
      BY <1>2, <3>2, RangeSeq
    <3> QED  BY <3>1, <3>3
  <2> QED  BY <2>2, <2>3, <2>4 DEF Serves
<1>7. ASSUME NEW i \in DOMAIN txs
      PROVE  /\ \E j \in DOMAIN heap.arr : heap.arr[j].tx = txs[i]
             /\ txs[i].nonce \in p.since[txs[i].from] .. chainNonce[txs[i].from]
  <2>1. /\ txs[i] \in {e.tx : e \in pool}
        /\ p.since[txs[i].from] <= txs[i].nonce /\ txs[i].nonce <= chainNonce[txs[i].from]
    BY <1>2, <1>3 DEF Picked
  <2>2. PICK e \in pool : txs[i] = e.tx
    BY <2>1
  <2>3. txs[i].from \in Sender /\ txs[i].nonce \in Nat
    BY <1>5, <2>2, EntryType
  <2>4. p.since[txs[i].from] \in Nat /\ chainNonce[txs[i].from] \in Nat
    BY <1>2, <2>3
  <2>5. txs[i].nonce \in p.since[txs[i].from] .. chainNonce[txs[i].from]
    BY <2>1, <2>3, <2>4
  <2>6. \E j \in DOMAIN heap.arr : heap.arr[j].tx = txs[i]
    BY <1>4, <2>1
  <2> QED  BY <2>5, <2>6
<1>8. \A i, j \in DOMAIN txs : i < j => txs[i].from # txs[j].from /\ txs[i].price >= txs[j].price
  BY <1>2, <1>3 DEF Picked
<1> QED  BY Zenon, <1>2, <1>6, <1>7, <1>8 DEF IsBest

----------------------------------------------------------------------------
(***************************************************************************)
(* Every step                                                              *)
(***************************************************************************)

\* Every call of Pending has served what it has popped.
CallsServe ==
  /\ call = [c \in Callers |-> call[c]]
  /\ \A c \in Callers : call[c] = NoCall \/ Serves(call[c], Range(heap.arr), chainNonce)

IInv ==
  /\ Good(Pool, entries, ~popped)
  /\ chainNonce \in [Sender -> Nat] /\ SumFunction(chainNonce) <= MaxBlocks
  /\ entries \in 0 .. MaxEntries
  /\ CallsServe
  /\ popped \in BOOLEAN /\ panicked \in BOOLEAN
  /\ ~popped => ~panicked

LEMMA UnlockedStays ==
  ASSUME CallsServe, IsUnlocked, UNCHANGED call
  PROVE  CallsServe'
BY DEF CallsServe, IsUnlocked

LEMMA FirstInIndex ==
  ASSUME PoolOK(Pool), Synced(Pool), IsFull
  PROVE  heap.arr[1] \in Range(index)
<1>1. PICK n \in Sizes : Len(heap.arr) = n /\ DOMAIN heap.arr = 1 .. n
  BY PoolHeap, PoolFields
<1>2. 1 \in 1 .. n
  BY <1>1, SizeAssumption DEF IsFull, Sizes
<1>3. heap.arr[1] \in Range(heap.arr)
  BY <1>1, <1>2, InRange
<1> QED  BY <1>3, PoolFields DEF Synced

LEMMA PanicKeeps ==
  ASSUME IInv, popped, IsUnlocked, Panic
  PROVE  IInv'
<1>1. Pool'.heap = Pool.heap /\ Pool'.index = Pool.index /\ Pool'.bySender = Pool.bySender
  BY DEF Panic, Pool
<1>2. Good(Pool', entries, ~popped)
  <2>1. Good(Pool, entries, ~popped)
    BY DEF IInv
  <2> QED  BY <1>1, <2>1, GoodFields
<1>3. /\ entries' = entries /\ popped' = popped /\ chainNonce' = chainNonce /\ panicked' = TRUE
      /\ call' = call
  BY DEF Panic
<1>4. CallsServe'
  BY <1>3, UnlockedStays DEF IInv
<1> QED  BY <1>2, <1>3, <1>4 DEF IInv

LEMMA AddKeeps ==
  ASSUME IInv, NEW t \in Tx, Add(t)
  PROVE  IInv'
<1>1. Good(Pool, entries, ~popped) /\ entries \in 0 .. MaxEntries
  BY DEF IInv
<1>2. Good(Pool', entries', ~popped)
  BY <1>1, AddGood
<1>3. /\ entries' = entries + 1 /\ entries < MaxEntries
      /\ UNCHANGED <<chainNonce, call, popped, panicked>> /\ IsUnlocked
  BY DEF Add
<1>4. entries' \in 0 .. MaxEntries
  BY <1>1, <1>3, SizeAssumption
<1>5. CallsServe'
  BY <1>3, UnlockedStays DEF IInv
<1> QED  BY <1>2, <1>3, <1>4, <1>5 DEF IInv

LEMMA AddPanicsKeeps ==
  ASSUME IInv, NEW t \in Tx, AddPanics(t)
  PROVE  IInv'
<1>1. IsFull /\ ~CanEvict(Pool, heap.arr[1]) /\ Panic /\ IsUnlocked
  BY DEF AddPanics
<1>2. popped
  <2>1. SUFFICES ASSUME ~popped PROVE FALSE
    OBVIOUS
  <2>2. PoolOK(Pool) /\ Synced(Pool)
    BY <2>1 DEF IInv, Good
  <2>3. heap.arr[1] \in Range(Pool.index)
    BY <1>1, <2>2, FirstInIndex, PoolFields
  <2> QED  BY <1>1, <2>2, <2>3, SyncedCanEvict
<1> QED  BY <1>1, <1>2, PanicKeeps

LEMMA IndexRange ==
  ASSUME PoolOK(Pool), NEW h \in DOMAIN index
  PROVE  index[h] \in Entry /\ index[h] \in Range(Pool.index)
<1>1. index[h] \in Entry
  BY PoolFields DEF PoolOK
<1>2. index[h] \in Range(index)
  BY InRange
<1> QED  BY <1>1, <1>2, PoolFields

LEMMA RemoveTxKeeps ==
  ASSUME IInv, NEW h \in Hash, RemoveTx(h)
  PROVE  IInv'
<1> DEFINE q == Evict(Pool, index[h])
<1>1. /\ h \in DOMAIN index /\ CanEvict(Pool, index[h]) /\ Pooled(q)
      /\ UNCHANGED <<chainNonce, entries, call, popped, panicked>> /\ IsUnlocked
  BY DEF RemoveTx
<1>2. Good(Pool, entries, ~popped) /\ PoolOK(Pool)
  BY DEF IInv, Good
<1>3. Good(q, entries, ~popped)
  BY <1>1, <1>2, IndexRange, EvictGood
<1>4. Pool'.heap = q.heap /\ Pool'.index = q.index /\ Pool'.bySender = q.bySender
  BY <1>1 DEF Pool, Pooled
<1> HIDE DEF q
<1>5. Good(Pool', entries, ~popped)
  BY <1>3, <1>4, GoodFields
<1>6. CallsServe'
  BY <1>1, UnlockedStays DEF IInv
<1> QED  BY <1>1, <1>5, <1>6 DEF IInv

LEMMA RemovePanicsKeeps ==
  ASSUME IInv, NEW h \in Hash, RemovePanics(h)
  PROVE  IInv'
<1>1. h \in DOMAIN index /\ ~CanEvict(Pool, index[h]) /\ Panic /\ IsUnlocked
  BY DEF RemovePanics
<1>2. popped
  <2>1. SUFFICES ASSUME ~popped PROVE FALSE
    OBVIOUS
  <2>2. PoolOK(Pool) /\ Synced(Pool)
    BY <2>1 DEF IInv, Good
  <2> QED  BY <1>1, <2>2, IndexRange, SyncedCanEvict
<1> QED  BY <1>1, <1>2, PanicKeeps

\* A change of call c alone, and of the heapIndex fields.
LEMMA OneCall ==
  ASSUME IInv, NEW c \in Callers, NEW p, call' = [call EXCEPT ![c] = p], chainNonce' = chainNonce,
         heap'.arr = heap.arr, p = NoCall \/ Serves(p, Range(heap.arr), chainNonce)
  PROVE  CallsServe'
<1>1. CallsServe
  BY DEF IInv
<1>2. call' = [d \in Callers |-> call'[d]] /\ call'[c] = p /\ \A d \in Callers \ {c} : call'[d] = call[d]
  BY <1>1 DEF CallsServe
<1>3. \A d \in Callers : call'[d] = NoCall \/ Serves(call'[d], Range(heap.arr), chainNonce)
  BY <1>1, <1>2 DEF CallsServe
<1> QED  BY <1>2, <1>3 DEF CallsServe

LEMMA PendingBeginKeeps ==
  ASSUME IInv, NEW c \in Callers, NEW n \in Requests, PendingBegin(c, n)
  PROVE  IInv'
<1> DEFINE p == [n |-> n, copy |-> heap.arr, txs |-> <<>>, since |-> chainNonce]
<1>1. /\ call' = [call EXCEPT ![c] = p]
      /\ UNCHANGED <<heap, index, bySender, chainNonce, entries, popped, panicked>>
  BY DEF PendingBegin
<1>2. PICK m \in Sizes : heap \in Heaps(m) /\ HeapOrdered(heap)
  BY PoolFields DEF IInv, Good, PoolOK
<1>3. chainNonce \in [Sender -> Nat]
  BY DEF IInv
<1>4. Serves(p, Range(heap.arr), chainNonce)
  BY <1>2, <1>3, ServesFirst
<1> HIDE DEF p
<1>5. CallsServe'
  BY <1>1, <1>4, OneCall
<1>6. Good(Pool', entries, ~popped)
  <2>1. Pool'.heap = Pool.heap /\ Pool'.index = Pool.index /\ Pool'.bySender = Pool.bySender
    BY <1>1 DEF Pool
  <2>2. Good(Pool, entries, ~popped)
    BY DEF IInv
  <2> QED  BY <2>1, <2>2, GoodFields
<1> QED  BY <1>1, <1>5, <1>6 DEF IInv

LEMMA PendingReturnKeeps ==
  ASSUME IInv, NEW c \in Callers, PendingReturn(c)
  PROVE  IInv'
<1>1. /\ call' = [call EXCEPT ![c] = NoCall]
      /\ UNCHANGED <<heap, index, bySender, chainNonce, entries, popped, panicked>>
  BY DEF PendingReturn
<1>2. CallsServe'
  BY <1>1, OneCall
<1>3. Good(Pool', entries, ~popped)
  <2>1. Pool'.heap = Pool.heap /\ Pool'.index = Pool.index /\ Pool'.bySender = Pool.bySender
    BY <1>1 DEF Pool
  <2>2. Good(Pool, entries, ~popped)
    BY DEF IInv
  <2> QED  BY <2>1, <2>2, GoodFields
<1> QED  BY <1>1, <1>2, <1>3 DEF IInv

\* Other heapIndex fields do not matter once Pending has popped an entry.
LEMMA PosKeeps ==
  ASSUME IInv, NEW pos \in [Id -> 0 .. MaxSize], heap' = [heap EXCEPT !.pos = pos],
         UNCHANGED <<index, bySender>>
  PROVE  Good(Pool', entries, FALSE) /\ heap'.arr = heap.arr
<1> DEFINE g == [heap EXCEPT !.pos = pos]
<1>1. heap' = g
  OBVIOUS
<1>2. PoolOK(Pool) /\ Young(Pool, entries)
  BY DEF IInv, Good
<1>4. PICK m \in Sizes : heap \in Heaps(m)
  BY <1>2, PoolFields DEF PoolOK
<1>5. g \in Heaps(m) /\ g.arr = heap.arr
  BY <1>4 DEF Heaps
<1> HIDE DEF g
<1>6. HeapOrdered(g)
  <2>1. HeapOrdered(heap)
    BY <1>2, PoolFields DEF PoolOK
  <2> QED  BY <1>5, <2>1 DEF HeapOrdered, Less
<1> DEFINE q == [heap |-> g, index |-> index, bySender |-> bySender]
<1>7. q.heap = g /\ q.index = Pool.index /\ q.bySender = Pool.bySender
  BY PoolFields
<1> HIDE DEF q
<1>8. PoolOK(q)
  BY <1>2, <1>4, <1>5, <1>6, <1>7 DEF PoolOK
<1>9. Young(q, entries)
  BY <1>2, <1>5, <1>7, PoolFields DEF Young
<1>10. Good(q, entries, FALSE)
  BY <1>8, <1>9 DEF Good
<1>11. Pool'.heap = q.heap /\ Pool'.index = q.index /\ Pool'.bySender = q.bySender
  BY <1>1 DEF Pool, q
<1>12. Good(Pool', entries, FALSE)
  BY <1>10, <1>11, GoodFields
<1> QED  BY <1>1, <1>5, <1>12

\* A call with its copy and its transactions replaced.
LEMMA CallExcept ==
  ASSUME NEW n, NEW copy, NEW txs, NEW since, NEW v, NEW w,
         NEW p, p = [n |-> n, copy |-> copy, txs |-> txs, since |-> since],
         NEW r, r = [p EXCEPT !.copy = v, !.txs = w]
  PROVE  r = [n |-> n, copy |-> v, since |-> since, txs |-> w]
<1> DEFINE q == [p EXCEPT !.copy = v]
<1>1. q = [n |-> n, copy |-> v, since |-> since, txs |-> txs]
  OBVIOUS
<1>2. r = [q EXCEPT !.txs = w]
  OBVIOUS
<1> HIDE DEF q
<1>3. [q EXCEPT !.txs = w] = [n |-> n, copy |-> v, since |-> since, txs |-> w]
  BY <1>1
<1> QED  BY <1>2, <1>3

LEMMA PendingPopKeeps ==
  ASSUME IInv, NEW c \in Callers, PendingPop(c)
  PROVE  IInv'
<1> DEFINE p == call[c]
           d == Pop([arr |-> p.copy, pos |-> heap.pos])
           r == [p EXCEPT !.copy = d.arr,
                          !.txs = IF IsChosen(p, p.copy[1].tx) THEN Append(@, p.copy[1].tx) ELSE @]
<1>1. /\ p # NoCall /\ ~IsDone(p) /\ popped' = TRUE
      /\ \E late : heap' = [heap EXCEPT !.pos = Raced(d.pos, late)]
      /\ UNCHANGED <<index, bySender, chainNonce, entries, panicked>>
  BY DEF PendingPop
<1>2. call' = [call EXCEPT ![c] = r]
  BY DEF PendingPop, IInv, CallsServe
<1>3. PICK late : heap' = [heap EXCEPT !.pos = Raced(d.pos, late)]
  BY <1>1
<1>4. Serves(p, Range(heap.arr), chainNonce) /\ chainNonce \in [Sender -> Nat]
  BY <1>1 DEF IInv, CallsServe
<1>5. heap.pos \in [Id -> 0 .. MaxSize] /\ Range(heap.arr) \subseteq Entry
  <2>0. PoolOK(Pool)
    BY DEF IInv, Good
  <2>1. PICK N \in Sizes : /\ heap.arr \in [1 .. N -> Entry] /\ DOMAIN heap.arr = 1 .. N
                           /\ heap.pos \in [Id -> 0 .. MaxSize]
    BY <2>0, PoolHeap, PoolFields
  <2>2. \A e \in Range(heap.arr) : e \in Entry
    BY <2>1, RangeWithin
  <2> QED  BY <2>1, <2>2
<1>6. r = Turned(p, d.arr)
  <2>1. p = [n |-> p.n, copy |-> p.copy, txs |-> p.txs, since |-> p.since]
    BY <1>4, CallType DEF Serves
  <2>2. r = [p EXCEPT !.copy = d.arr,
                      !.txs = IF IsChosen(p, p.copy[1].tx) THEN Append(p.txs, p.copy[1].tx) ELSE p.txs]
    OBVIOUS
  <2> HIDE DEF p, d, r
  <2> DEFINE v == d.arr
             w == IF IsChosen(p, p.copy[1].tx) THEN Append(p.txs, p.copy[1].tx) ELSE p.txs
  <2>3. r = [p EXCEPT !.copy = v, !.txs = w]
    BY <2>2
  <2> HIDE DEF v, w
  <2>4. r = [n |-> p.n, copy |-> v, since |-> p.since, txs |-> w]
    BY <2>1, <2>3, CallExcept
  <2> QED  BY <2>4 DEF Turned, v, w
<1>7. d = Pop([arr |-> p.copy, pos |-> heap.pos])
  OBVIOUS
<1> HIDE DEF p, d, r
<1>8. Serves(r, Range(heap.arr), chainNonce) /\ d.pos \in [Id -> 0 .. MaxSize]
  BY <1>1, <1>4, <1>5, <1>6, <1>7, TurnServes
<1>9. Raced(d.pos, late) \in [Id -> 0 .. MaxSize]
  BY <1>5, <1>8 DEF Raced
<1>10. Good(Pool', entries, FALSE) /\ heap'.arr = heap.arr
  BY <1>1, <1>3, <1>9, PosKeeps
<1>11. CallsServe'
  BY <1>1, <1>2, <1>8, <1>10, OneCall
<1> QED  BY <1>1, <1>10, <1>11 DEF IInv

LEMMA ExpireKeeps ==
  ASSUME IInv, NEW i \in Deadlines, Expire(i)
  PROVE  IInv'
<1>1. /\ ~panicked /\ IsUnlocked /\ UNCHANGED <<chainNonce, entries, call, popped>>
      /\ \E order \in Orderings(Old(i)) : /\ Pooled(EvictAll(order).pool)
                                          /\ panicked' = EvictAll(order).panic
  BY DEF Expire
<1>2. PICK order \in Orderings(Old(i)) : /\ Pooled(EvictAll(order).pool)
                                         /\ panicked' = EvictAll(order).panic
  BY <1>1
<1>3. Good(Pool, entries, ~popped) /\ PoolOK(Pool)
  BY DEF IInv, Good
<1>4. IsFiniteSet(Old(i)) /\ Old(i) \subseteq Range(index) /\ Old(i) \subseteq Entry
  <2>1. IsFiniteSet(DOMAIN index) /\ \A h \in DOMAIN index : index[h] \in Entry
    BY <1>3, PoolFields DEF PoolOK
  <2>2. IsFiniteSet({index[h] : h \in DOMAIN index})
    <3> DEFINE T == {index[h] : h \in DOMAIN index}
    <3>1. index = [h \in DOMAIN index |-> index[h]]
      BY <1>3, PoolFields DEF PoolOK
    <3>2. index \in Surjection(DOMAIN index, T)
      BY <3>1 DEF Surjection
    <3> HIDE DEF T
    <3>3. IsFiniteSet(T)
      BY <2>1, <3>2, FS_Surjection
    <3> QED  BY <3>3 DEF T
  <2>3. Old(i) \subseteq {index[h] : h \in DOMAIN index}
    BY DEF Old, Range
  <2>4. IsFiniteSet(Old(i))
    BY <2>2, <2>3, FS_Subset
  <2> QED  BY <2>1, <2>3, <2>4 DEF Range
<1> DEFINE n == Cardinality(Old(i))
<1>5. n \in Nat
  BY <1>4, FS_CardinalityType
<1>6. order \in [1 .. n -> Old(i)] /\ \A j, k \in DOMAIN order : order[j] = order[k] => j = k
  BY DEF Orderings
<1> HIDE DEF n
<1>7. Len(order) = n /\ order \in Seq(Entry) /\ DOMAIN order = 1 .. n
  BY <1>4, <1>5, <1>6
<1>8. Ordering(order) /\ \A j \in 1 .. Len(order) : order[j] \in Range(index)
  BY <1>4, <1>6, <1>7 DEF Ordering
<1> DEFINE q == EvictAll(order).pool
<1>9. /\ Good(q, entries, ~popped) /\ EvictAll(order).panic \in BOOLEAN
      /\ ~popped => ~EvictAll(order).panic
  BY <1>3, <1>8, EvictAllGood
<1>10. Pool'.heap = q.heap /\ Pool'.index = q.index /\ Pool'.bySender = q.bySender
  BY <1>2 DEF Pool, Pooled
<1> HIDE DEF q
<1>11. Good(Pool', entries, ~popped)
  BY <1>9, <1>10, GoodFields
<1>12. CallsServe'
  BY <1>1, UnlockedStays DEF IInv
<1> QED  BY <1>1, <1>2, <1>9, <1>11, <1>12 DEF IInv

LEMMA SumOfNonces ==
  ASSUME NEW f \in [Sender -> Nat]
  PROVE  SumFunction(f) = SumFunctionOnSet(f, Sender) /\ SumFunction(f) \in Nat
<1>1. DOMAIN f = Sender /\ \A s \in Sender : f[s] \in Nat
  OBVIOUS
<1> QED  BY <1>1, SenderAssumption, SumNat DEF SumFunction

\* No sender's nonce is above the sum of them all.
LEMMA NonceBelowSum ==
  ASSUME NEW f \in [Sender -> Nat], NEW s \in Sender
  PROVE  f[s] <= SumFunction(f)
<1> DEFINE g == [f EXCEPT ![s] = 0]
<1>1. g \in [Sender -> Nat] /\ g[s] = 0 /\ \A x \in Sender \ {s} : g[x] = f[x]
  OBVIOUS
<1> HIDE DEF g
<1>2. \A x \in Sender : f[x] \in Int /\ g[x] \in Int
  BY <1>1
<1>3. SumFunctionOnSet(g, Sender) = SumFunctionOnSet(f, Sender) + (g[s] - f[s])
  BY <1>1, <1>2, SenderAssumption, SumChange
<1>4. SumFunctionOnSet(g, Sender) \in Nat /\ SumFunctionOnSet(f, Sender) \in Nat
      /\ SumFunction(f) = SumFunctionOnSet(f, Sender)
  BY <1>1, SumOfNonces
<1> QED  BY <1>1, <1>3, <1>4

LEMMA ChainAdvancesKeeps ==
  ASSUME IInv, NEW s \in Sender, ChainAdvances(s)
  PROVE  IInv'
<1> DEFINE g == [chainNonce EXCEPT ![s] = @ + 1]
<1>1. /\ SumFunction(chainNonce) < MaxBlocks /\ chainNonce' = g
      /\ UNCHANGED <<heap, index, bySender, entries, call, popped, panicked>>
  BY DEF ChainAdvances
<1>2. chainNonce \in [Sender -> Nat]
  BY DEF IInv
<1>3. g \in [Sender -> Nat] /\ g[s] = chainNonce[s] + 1 /\ \A x \in Sender \ {s} : g[x] = chainNonce[x]
  BY <1>2
<1> HIDE DEF g
<1>4. SumFunction(g) <= MaxBlocks
  <2>1. \A x \in Sender : chainNonce[x] \in Int /\ g[x] \in Int
    BY <1>2, <1>3
  <2>2. SumFunctionOnSet(g, Sender) = SumFunctionOnSet(chainNonce, Sender) + (g[s] - chainNonce[s])
    BY <1>3, <2>1, SenderAssumption, SumChange
  <2>3. g[s] - chainNonce[s] = 1
    BY <1>3, <2>1
  <2>4. /\ SumFunction(chainNonce) = SumFunctionOnSet(chainNonce, Sender) /\ SumFunction(chainNonce) \in Nat
        /\ SumFunction(g) = SumFunctionOnSet(g, Sender)
    BY <1>2, <1>3, SumOfNonces
  <2> QED  BY <1>1, <2>2, <2>3, <2>4, SizeAssumption
<1>5. Pool'.heap = Pool.heap /\ Pool'.index = Pool.index /\ Pool'.bySender = Pool.bySender
  BY <1>1 DEF Pool
<1>6. Good(Pool', entries, ~popped)
  <2>1. Good(Pool, entries, ~popped)
    BY DEF IInv
  <2> QED  BY <1>5, <2>1, GoodFields
<1>7. CallsServe'
  <2>1. CallsServe /\ PoolOK(Pool)
    BY DEF IInv, Good
  <2>2. PICK N \in Sizes : heap.arr \in [1 .. N -> Entry] /\ DOMAIN heap.arr = 1 .. N
    <3>1. PICK N \in Sizes : /\ Pool.heap.arr \in [1 .. N -> Entry]
                             /\ DOMAIN Pool.heap.arr = 1 .. N
      BY <2>1, PoolHeap
    <3>2. Pool.heap = heap
      BY PoolFields
    <3> QED  BY <3>1, <3>2
  <2>3. Range(heap.arr) \subseteq Entry
    BY <2>2, RangeWithin
  <2>4. \A x \in Sender : chainNonce[x] <= g[x]
    BY <1>2, <1>3
  <2>5. ASSUME NEW c \in Callers PROVE call[c] = NoCall \/ Serves(call[c], Range(heap.arr), g)
    <3>1. CASE call[c] = NoCall
      BY <3>1
    <3>2. CASE Serves(call[c], Range(heap.arr), chainNonce)
      BY <1>2, <1>3, <2>3, <2>4, <3>2, ServesStill
    <3> QED  BY <2>1, <3>1, <3>2 DEF CallsServe
  <2> QED  BY <1>1, <2>1, <2>5 DEF CallsServe
<1> QED  BY <1>1, <1>3, <1>4, <1>6, <1>7 DEF IInv

LEMMA InitIInv == Init => IInv
<1> SUFFICES ASSUME Init PROVE IInv
  OBVIOUS
<1>1. Good(Pool, entries, ~popped)
  BY InitGood
<1>2. chainNonce \in [Sender -> Nat] /\ \A s \in Sender : chainNonce[s] = 0
  BY DEF Init
<1>3. SumFunction(chainNonce) = 0
  <2>1. SumFunctionOnSet(chainNonce, Sender) = 0
    BY <1>2, SenderAssumption, SumZero
  <2> QED  BY <1>2, <2>1, SumOfNonces
<1>4. entries = 0 /\ popped = FALSE /\ panicked = FALSE
  BY DEF Init
<1>5. entries \in 0 .. MaxEntries /\ SumFunction(chainNonce) <= MaxBlocks
  BY <1>3, <1>4, SizeAssumption
<1>6. CallsServe
  BY DEF Init, CallsServe
<1> QED  BY <1>1, <1>2, <1>4, <1>5, <1>6 DEF IInv

LEMMA StepIInv == IInv /\ [Next]_vars => IInv'
<1> SUFFICES ASSUME IInv, [Next]_vars PROVE IInv'
  OBVIOUS
<1>1. ASSUME NEW t \in Tx, Add(t) \/ AddPanics(t) PROVE IInv'
  BY <1>1, AddKeeps, AddPanicsKeeps
<1>2. ASSUME NEW h \in Hash, RemoveTx(h) \/ RemovePanics(h) PROVE IInv'
  BY <1>2, RemoveTxKeeps, RemovePanicsKeeps
<1>3. ASSUME NEW c \in Callers, PendingPop(c) \/ PendingReturn(c) PROVE IInv'
  BY <1>3, PendingPopKeeps, PendingReturnKeeps
<1>7. ASSUME NEW c \in Callers, NEW n \in Requests, PendingBegin(c, n) PROVE IInv'
  BY <1>7, PendingBeginKeeps
<1>4. ASSUME NEW i \in Deadlines, Expire(i) PROVE IInv'
  BY <1>4, ExpireKeeps
<1>5. ASSUME NEW s \in Sender, ChainAdvances(s) PROVE IInv'
  BY <1>5, ChainAdvancesKeeps
<1>6. ASSUME UNCHANGED vars PROVE IInv'
  <2>1. Pool'.heap = Pool.heap /\ Pool'.index = Pool.index /\ Pool'.bySender = Pool.bySender
    BY <1>6 DEF vars, Pool
  <2>2. Good(Pool, entries, ~popped)
    BY DEF IInv
  <2>3. Good(Pool', entries, ~popped)
    BY <2>1, <2>2, GoodFields
  <2>4. CallsServe'
    BY <1>6 DEF vars, IInv, CallsServe
  <2> QED  BY <1>6, <2>3, <2>4 DEF vars, IInv
<1> QED  BY <1>1, <1>2, <1>3, <1>4, <1>5, <1>6, <1>7 DEF Next

\* Mempool: the pool keeps its inductive invariant, whatever is added, removed, evicted, expired
\* and handed out: a heap in order, an index by hash, sorted queues within their
\* limits, and until Pending pops an entry, heap and index in step and no panic.
THEOREM InvariantHolds == Spec => []IInv
<1>1. Init => IInv
  BY InitIInv
<1>2. IInv /\ [Next]_vars => IInv'
  BY StepIInv
<1> QED  BY <1>1, <1>2, PTL DEF Spec

LEMMA TypeHolds == IInv => TypeOK
<1> SUFFICES ASSUME IInv PROVE TypeOK
  OBVIOUS
<1>1. PoolOK(Pool)
  BY DEF IInv, Good
<1>2. PICK n \in Sizes : /\ Len(heap.arr) = n /\ DOMAIN heap.arr = 1 .. n
                         /\ heap.arr \in [1 .. n -> Entry] /\ heap.pos \in [Id -> 0 .. MaxSize]
  BY <1>1, PoolHeap, PoolFields
<1>3. Len(heap.arr) <= MaxSize
  BY <1>2, SizeAssumption DEF Sizes
<1>4. Range(heap.arr) \subseteq Entry
  <2>1. ASSUME NEW e \in Range(heap.arr) PROVE e \in Entry
    <3>1. PICK i \in 1 .. n : e = heap.arr[i]
      BY <1>2, <2>1, InRange
    <3> QED  BY <1>2, <3>1
  <2> QED  BY <2>1
<1>5. /\ DOMAIN index \subseteq Hash
      /\ \A h \in DOMAIN index : index[h] \in Entry /\ index[h].tx.hash = h
      /\ \A s \in Sender : Queue(bySender[s], s)
  BY <1>1, PoolFields DEF PoolOK
<1>6. \A s \in Sender : /\ Len(bySender[s]) <= MaxPerAddr
                        /\ Range(bySender[s]) \subseteq {e \in Entry : e.tx.from = s}
  BY <1>5 DEF Queue
<1>7. chainNonce \in [Sender -> 0 .. MaxBlocks]
  <2>1. chainNonce \in [Sender -> Nat] /\ SumFunction(chainNonce) <= MaxBlocks
    BY DEF IInv
  <2>2. ASSUME NEW s \in Sender PROVE chainNonce[s] \in 0 .. MaxBlocks
    <3>1. chainNonce[s] <= SumFunction(chainNonce) /\ SumFunction(chainNonce) \in Nat
      BY <2>1, NonceBelowSum, SumOfNonces
    <3> QED  BY <2>1, <3>1, SizeAssumption
  <2> QED  BY <2>1, <2>2
<1>8. entries \in 0 .. MaxEntries /\ popped \in BOOLEAN /\ panicked \in BOOLEAN
  BY DEF IInv
<1>9. ASSUME NEW c \in Callers
      PROVE  /\ call[c].n \in Requests \cup {0}
             /\ Range(call[c].copy) \subseteq Entry /\ Range(call[c].txs) \subseteq Tx
  <2>1. CASE call[c] = NoCall
    <3>1. Range(<<>>) = {}
      BY DEF Range
    <3> QED  BY <2>1, <3>1 DEF NoCall
  <2>2. CASE Serves(call[c], Range(heap.arr), chainNonce)
    <3>1. /\ call[c].n \in Requests /\ call[c].txs \in Seq(Tx)
          /\ Range(call[c].copy) \subseteq Range(heap.arr)
      BY <2>2, CallType DEF Serves
    <3>2. \A t \in Range(call[c].txs) : t \in Tx
      BY <3>1, RangeSeq
    <3> QED  BY <1>4, <3>1, <3>2
  <2> QED  BY <2>1, <2>2 DEF IInv, CallsServe
<1> QED  BY <1>2, <1>3, <1>4, <1>5, <1>6, <1>7, <1>8, <1>9 DEF TypeOK

\* Mempool: neither the heap nor a sender's queue is ever above its limit, and every variable
\* keeps its type.
THEOREM TypesHold == Spec => []TypeOK
BY InvariantHolds, TypeHolds, PTL

\* Mempool: a transaction that the pool knows by its hash stands in its sender's queue, and
\* every queue is in the order of the nonces.
THEOREM QueuesAreKept == Spec => []QueuesHold
<1>1. IInv => QueuesHold
  <2> SUFFICES ASSUME IInv PROVE QueuesHold
    OBVIOUS
  <2>1. /\ \A h \in DOMAIN index : index[h] \in Range(bySender[index[h].tx.from])
        /\ \A s \in Sender : Queue(bySender[s], s)
    BY PoolFields DEF IInv, Good, PoolOK
  <2> QED  BY <2>1 DEF QueuesHold, Queue, Sorted
<1> QED  BY <1>1, InvariantHolds, PTL

\* Mempool: until Pending pops an entry, every heapIndex is where the entry stands, heap and
\* index hold the same entries and no method panics, through any Adds,
\* evictions, removals and rounds of expireLoop.
THEOREM HeapIsTracked == Spec => []HeapTracksIndex
<1>1. IInv => HeapTracksIndex
  <2> SUFFICES ASSUME IInv, ~popped PROVE HeapTracksIndex
    BY DEF HeapTracksIndex
  <2>1. Synced(Pool) /\ ~panicked
    BY DEF IInv, Good
  <2> QED  BY <2>1, PoolFields DEF HeapTracksIndex, Synced, Tracked
<1> QED  BY <1>1, InvariantHolds, PTL

\* Mempool: whatever the calls before did to the heapIndex fields, however many calls run at
\* once and however the chain moves on between a call's reads of the nonces, Pending
\* returns the best transactions that were ready throughout the call, one for each sender
\* and from the highest price down, and none that was not ready at some moment of it.
THEOREM PendingReturnsBest == Spec => []PendingIsBest
<1>1. IInv => PendingIsBest
  <2> SUFFICES ASSUME IInv, NEW c \in Callers, call[c] # NoCall, IsDone(call[c])
               PROVE  IsBest(call[c].txs, call[c].n, call[c].since)
    BY DEF PendingIsBest
  <2>1. PoolOK(Pool) /\ chainNonce \in [Sender -> Nat]
    BY DEF IInv, Good
  <2>2. Serves(call[c], Range(heap.arr), chainNonce)
    BY DEF IInv, CallsServe
  <2> QED  BY <2>1, <2>2, DoneIsBest
<1> QED  BY <1>1, InvariantHolds, PTL

=============================================================================

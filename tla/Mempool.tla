------------------------------ MODULE Mempool -------------------------------
(***************************************************************************)
(* mempool.Mempool: the pool of pending transactions, bounded in size and  *)
(* per sender.  Add, Remove and a round of expireLoop hold m.mu, so each   *)
(* is one step.  Pending holds it for reading only: other calls of Pending *)
(* may run at the same time, and the chain moves on between its reads of   *)
(* the nonces.  It is one step per entry that it pops.                     *)
(*                                                                         *)
(* An entry is a fresh object of every successful Add: entries is how many *)
(* there have been, and the entries of one transaction differ in their id. *)
(* A transaction keeps its hash, from, nonce and price (gas price).  A     *)
(* call that returns an error changes nothing and is a stuttering step.    *)
(* chainNonce is what the getNonce callback returns: it grows as blocks    *)
(* are applied, whatever the pool does.                                    *)
(***************************************************************************)
EXTENDS TxHeap, Functions, FiniteSets

CONSTANTS Sender,      \* senders
          Hash,        \* transaction hashes
          Tx,          \* the transactions anyone may add
          MaxSize,     \* DefaultMaxSize
          MaxPerAddr,  \* DefaultMaxPerAddr
          MaxEntries,  \* bound on the number of successful Adds
          Deadlines,   \* the youngest entries a round of expireLoop may evict
          Callers,     \* the goroutines that call Pending
          Requests,    \* the arguments of Pending to consider
          MaxBlocks    \* bound on the transactions the chain applies

ASSUME TxAssumption ==
  /\ Tx \subseteq [hash: Hash, from: Sender, nonce: Nat, price: Nat]
  /\ \A t, u \in Tx : t.hash = u.hash => t = u

ASSUME SenderAssumption == IsFiniteSet(Sender)

ASSUME SizeAssumption ==
  /\ MaxSize \in Nat \ {0} /\ MaxPerAddr \in Nat \ {0}
  /\ MaxEntries \in Nat /\ MaxBlocks \in Nat
  /\ Requests \subseteq Nat \ {0} /\ Deadlines \subseteq Nat

VARIABLES
  heap,        \* m.pending, with the heapIndex of every entry
  index,       \* m.index: hash -> entry
  bySender,    \* m.bySender: sender -> entries in the order of their nonces
  chainNonce,  \* what getNonce returns for each sender
  entries,     \* the number of entries made so far
  call,        \* what each caller is doing: the Pending it is in, or nothing
  popped,      \* Pending has popped an entry off its copy of the heap
  panicked     \* a method panicked, and the process with it

vars == <<heap, index, bySender, chainNonce, entries, call, popped, panicked>>

Id == 1 .. MaxEntries
Entry == [id: Id, tx: Tx]

\* A call of Pending: its argument, its copy of the heap, its result so far, and
\* (history) the nonces of the chain when it got the lock.
NoCall == [n |-> 0, copy |-> <<>>, txs |-> <<>>, since |-> <<>>]

Init ==
  /\ heap = [arr |-> <<>>, pos |-> [i \in Id |-> 0]]
  /\ index = <<>>
  /\ bySender = [s \in Sender |-> <<>>]
  /\ chainNonce \in [Sender -> {0}]
  /\ entries = 0
  /\ call = [c \in Callers |-> NoCall]
  /\ popped = FALSE
  /\ panicked = FALSE

----------------------------------------------------------------------------

\* Mutant of IsUnlocked: Pending does not hold the lock.
IsNeverLocked == TRUE

\* No Pending holds m.mu for reading.
IsUnlocked == \A c \in Callers : call[c] = NoCall

Pool == [heap |-> heap, index |-> index, bySender |-> bySender]

Pooled(p) == heap' = p.heap /\ index' = p.index /\ bySender' = p.bySender

Without(f, k) == [x \in DOMAIN f \ {k} |-> f[x]]

\* The entries es with e before the first of a higher nonce.
InsertSorted(es, e) ==
  LET later == {i \in DOMAIN es : e.tx.nonce < es[i].tx.nonce}
      at == IF later = {} THEN Len(es) + 1
            ELSE CHOOSE i \in later : \A j \in later : i <= j
  IN  SubSeq(es, 1, at - 1) \o <<e>> \o SubSeq(es, at, Len(es))

\* Mutant of Unqueue: only the first entry of the sender's queue is dropped.
UnqueueFirst(es, e) == Tail(es)

\* The sender's entries but those of e's transaction.
Unqueue(es, e) ==
  LET updated[i \in 0 .. Len(es)] ==
        IF i = 0 THEN <<>>
        ELSE IF es[i].tx.hash # e.tx.hash THEN Append(updated[i - 1], es[i]) ELSE updated[i - 1]
  IN  updated[Len(es)]

\* evict panics when the entry's heapIndex is no position of the heap.
CanEvict(p, e) == CanHeapRemove(p.heap, p.heap.pos[e.id])

\* The pool after evict(e): what stands at e's heapIndex leaves the heap, and
\* e's transaction the two maps.
Evict(p, e) ==
  [heap |-> HeapRemove(p.heap, p.heap.pos[e.id]),
   index |-> Without(p.index, e.tx.hash),
   bySender |-> [p.bySender EXCEPT ![e.tx.from] = Unqueue(@, e)]]

Panic ==
  /\ panicked' = TRUE
  /\ UNCHANGED <<heap, index, bySender, chainNonce, entries, call, popped>>

IsFull == Len(heap.arr) >= MaxSize

\* Mutant of Admits: the sender's count is checked one too late.
AdmitsOneMore(t) ==
  /\ t.hash \notin DOMAIN index
  /\ t.nonce >= chainNonce[t.from]
  /\ Len(bySender[t.from]) <= MaxPerAddr
  /\ IsFull => heap.arr[1].tx.price < t.price

\* Add's checks: unknown, no stale nonce, room in the sender's queue, and in a
\* full pool a price above that of the heap's first entry.
Admits(t) ==
  /\ t.hash \notin DOMAIN index
  /\ t.nonce >= chainNonce[t.from]
  /\ Len(bySender[t.from]) < MaxPerAddr
  /\ IsFull => heap.arr[1].tx.price < t.price

\* The pool after the eviction of the heap's first entry, if it is full.
MakeRoom == IF IsFull THEN Evict(Pool, heap.arr[1]) ELSE Pool

\* Add with room for the transaction, made if need be.  The sender's queue is
\* the one read before the eviction.
Add(t) ==
  /\ ~panicked /\ IsUnlocked /\ entries < MaxEntries
  /\ Admits(t)
  /\ IsFull => CanEvict(Pool, heap.arr[1])
  /\ entries' = entries + 1
  /\ LET e == [id |-> entries + 1, tx |-> t] IN
       Pooled([heap |-> Push(MakeRoom.heap, e),
               index |-> [h \in DOMAIN MakeRoom.index \cup {t.hash} |->
                            IF h = t.hash THEN e ELSE MakeRoom.index[h]],
               bySender |-> [MakeRoom.bySender EXCEPT
                               ![t.from] = InsertSorted(bySender[t.from], e)]])
  /\ UNCHANGED <<chainNonce, call, popped, panicked>>

AddPanics(t) ==
  /\ ~panicked /\ IsUnlocked /\ entries < MaxEntries
  /\ Admits(t) /\ IsFull /\ ~CanEvict(Pool, heap.arr[1])
  /\ Panic

RemoveTx(h) ==
  /\ ~panicked /\ IsUnlocked /\ h \in DOMAIN index
  /\ CanEvict(Pool, index[h])
  /\ Pooled(Evict(Pool, index[h]))
  /\ UNCHANGED <<chainNonce, entries, call, popped, panicked>>

RemovePanics(h) ==
  /\ ~panicked /\ IsUnlocked /\ h \in DOMAIN index
  /\ ~CanEvict(Pool, index[h])
  /\ Panic

----------------------------------------------------------------------------

\* The sender's next transaction, by the chain's nonce.
IsReady(tx) == tx.nonce = chainNonce[tx.from]

PendingBegin(c, n) ==
  /\ ~panicked /\ call[c] = NoCall
  /\ call' = [call EXCEPT ![c] = [n |-> n, copy |-> heap.arr, txs |-> <<>>, since |-> chainNonce]]
  /\ UNCHANGED <<heap, index, bySender, chainNonce, entries, popped, panicked>>

\* The loop of a call is at its end: n transactions, or an empty copy.
IsDone(p) == Len(p.txs) >= p.n \/ p.copy = <<>>

\* The first of the copy is ready by the nonce that getNonce returns now, and the first
\* of its sender that is.
IsChosen(p, tx) == IsReady(tx) /\ \A t \in Range(p.txs) : t.from # tx.from

\* The heapIndex fields after a pop that writes pos.  They are the pool's own entries',
\* and where another call is popping too, which of two writes comes last is a race.
Raced(pos, late) == [i \in Id |-> IF i \in late THEN heap.pos[i] ELSE pos[i]]

\* One turn of the loop: a pop of the copy, and the nonce of its sender.
PendingPop(c) ==
  /\ ~panicked /\ call[c] # NoCall /\ ~IsDone(call[c])
  /\ LET p == call[c]
         tx == p.copy[1].tx
         rest == Pop([arr |-> p.copy, pos |-> heap.pos])
     IN  /\ call' = [call EXCEPT ![c].copy = rest.arr,
                                 ![c].txs = IF IsChosen(p, tx) THEN Append(@, tx) ELSE @]
         /\ \E late \in IF \E d \in Callers \ {c} : call[d] # NoCall THEN SUBSET Id ELSE {{}} :
              heap' = [heap EXCEPT !.pos = Raced(rest.pos, late)]
  /\ popped' = TRUE
  /\ UNCHANGED <<index, bySender, chainNonce, entries, panicked>>

PendingReturn(c) ==
  /\ ~panicked /\ call[c] # NoCall /\ IsDone(call[c])
  /\ call' = [call EXCEPT ![c] = NoCall]
  /\ UNCHANGED <<heap, index, bySender, chainNonce, entries, popped, panicked>>

----------------------------------------------------------------------------

\* The entries of the index that are older than the TTL when entry i is the
\* youngest that is.
Old(i) == {e \in Range(index) : e.id <= i}

Orderings(S) ==
  {s \in [1 .. Cardinality(S) -> S] : \A i, j \in DOMAIN s : s[i] = s[j] => i = j}

\* The states of the pool while the entries of order are evicted in turn, up to
\* the first one whose eviction panics.
EvictAll(order) ==
  LET after[k \in 0 .. Len(order)] ==
        IF k = 0 THEN [pool |-> Pool, panic |-> FALSE]
        ELSE LET s == after[k - 1]
             IN  IF s.panic \/ ~CanEvict(s.pool, order[k])
                 THEN [s EXCEPT !.panic = TRUE]
                 ELSE [s EXCEPT !.pool = Evict(@, order[k])]
  IN  after[Len(order)]

\* One round of expireLoop, over the index in any order.
Expire(i) ==
  /\ ~panicked /\ IsUnlocked /\ Old(i) # {}
  /\ \E order \in Orderings(Old(i)) :
       /\ Pooled(EvictAll(order).pool)
       /\ panicked' = EvictAll(order).panic
  /\ UNCHANGED <<chainNonce, entries, call, popped>>

\* A block with a transaction of the sender is applied to the chain.
ChainAdvances(s) ==
  /\ ~panicked /\ SumFunction(chainNonce) < MaxBlocks
  /\ chainNonce' = [chainNonce EXCEPT ![s] = @ + 1]
  /\ UNCHANGED <<heap, index, bySender, entries, call, popped, panicked>>

Next ==
  \/ \E t \in Tx : Add(t) \/ AddPanics(t)
  \/ \E h \in Hash : RemoveTx(h) \/ RemovePanics(h)
  \/ \E c \in Callers : \/ \E n \in Requests : PendingBegin(c, n)
                        \/ PendingPop(c)
                        \/ PendingReturn(c)
  \/ \E i \in Deadlines : Expire(i)
  \/ \E s \in Sender : ChainAdvances(s)

Spec == Init /\ [][Next]_vars

----------------------------------------------------------------------------
(***************************************************************************)
(* Properties                                                              *)
(***************************************************************************)

\* Every variable holds what the Go types allow, and neither the pool nor a queue is
\* above its limit, whatever was added, evicted, expired and handed out before.
TypeOK ==
  /\ Len(heap.arr) <= MaxSize
  /\ \A s \in Sender : Len(bySender[s]) <= MaxPerAddr
  /\ Range(heap.arr) \subseteq Entry
  /\ heap.pos \in [Id -> 0 .. MaxSize]
  /\ DOMAIN index \subseteq Hash
  /\ \A h \in DOMAIN index : index[h] \in Entry /\ index[h].tx.hash = h
  /\ \A s \in Sender : Range(bySender[s]) \subseteq {e \in Entry : e.tx.from = s}
  /\ chainNonce \in [Sender -> 0 .. MaxBlocks]
  /\ entries \in 0 .. MaxEntries
  /\ \A c \in Callers : /\ call[c].n \in Requests \cup {0}
                        /\ Range(call[c].copy) \subseteq Entry /\ Range(call[c].txs) \subseteq Tx
  /\ popped \in BOOLEAN /\ panicked \in BOOLEAN

\* A transaction the pool knows by its hash stands in its sender's queue, and
\* every queue is in the order of the nonces.
QueuesHold ==
  /\ \A h \in DOMAIN index : index[h] \in Range(bySender[index[h].tx.from])
  /\ \A s \in Sender : \A i, j \in DOMAIN bySender[s] :
       i < j => bySender[s][i].tx.nonce <= bySender[s][j].tx.nonce

\* Until Pending pops an entry, heapIndex is where the entry stands, and heap
\* and index hold the same entries: evict removes what it is told to.
HeapTracksIndex ==
  ~popped =>
    /\ \A i \in DOMAIN heap.arr : heap.pos[heap.arr[i].id] = i
    /\ Range(heap.arr) = Range(index)
    /\ ~panicked

\* The transactions of the pool that have been ready all the time since then.
StayedReady(since) ==
  {t \in {heap.arr[i].tx : i \in DOMAIN heap.arr} :
     t.nonce = since[t.from] /\ t.nonce = chainNonce[t.from]}

\* txs are at most n of the pool's transactions: each was ready at some moment since
\* then, there is one for each sender, from the highest price down, and each that was ready
\* all the time but is left out has a sender served at no lower a price, or comes
\* after all n.
IsBest(txs, n, since) ==
  /\ Len(txs) <= n
  /\ \A i \in DOMAIN txs :
       /\ \E j \in DOMAIN heap.arr : heap.arr[j].tx = txs[i]
       /\ txs[i].nonce \in since[txs[i].from] .. chainNonce[txs[i].from]
  /\ \A i, j \in DOMAIN txs :
       i < j => txs[i].from # txs[j].from /\ txs[i].price >= txs[j].price
  /\ \A t \in StayedReady(since) \ Range(txs) :
       \/ \E u \in Range(txs) : u.from = t.from /\ u.price >= t.price
       \/ Len(txs) = n /\ \A u \in Range(txs) : u.price >= t.price

\* Whatever state the heap is in, and however the chain moves on between its reads of
\* the nonces, Pending returns the best transactions that were ready throughout the
\* call, and no transaction that was not ready at some moment of it.
PendingIsBest ==
  \A c \in Callers :
    call[c] # NoCall /\ IsDone(call[c]) => IsBest(call[c].txs, call[c].n, call[c].since)

\* Remove's comment, of a transaction that a block included: it is deleted from
\* the pool.  Nothing is left in the heap that the index does not know.
RemovedIsGone ==
  /\ \A i \in DOMAIN heap.arr : heap.arr[i].tx.hash \in DOMAIN index
  /\ ~panicked
=============================================================================

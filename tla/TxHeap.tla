------------------------------- MODULE TxHeap -------------------------------
(***************************************************************************)
(* mempool's txHeap and the operations of Go's container/heap on it.       *)
(*                                                                         *)
(* A heap is its array arr of entries and pos, the heapIndex field of      *)
(* every entry, in the array or not.  The entry is a pointer in the code,  *)
(* so every copy of the array writes the same heapIndex fields: pos is     *)
(* shared by all of them.  Positions count from 1 here; 0 stands for the   *)
(* code's -1.  An entry is its identity id and its transaction tx.         *)
(***************************************************************************)
EXTENDS Integers, Sequences

\* Higher gas prices first.
Less(h, i, j) == h.arr[i].tx.price > h.arr[j].tx.price

\* Mutant of Swap: the entries change places but keep their heapIndex.
SwapEntries(h, i, j) ==
  [h EXCEPT !.arr = [@ EXCEPT ![i] = h.arr[j], ![j] = h.arr[i]]]

Swap(h, i, j) ==
  [arr |-> [h.arr EXCEPT ![i] = h.arr[j], ![j] = h.arr[i]],
   pos |-> [h.pos EXCEPT ![h.arr[j].id] = i, ![h.arr[i].id] = j]]

PushLast(h, e) ==
  [arr |-> Append(h.arr, e), pos |-> [h.pos EXCEPT ![e.id] = Len(h.arr) + 1]]

PopLast(h) ==
  [arr |-> SubSeq(h.arr, 1, Len(h.arr) - 1),
   pos |-> [h.pos EXCEPT ![h.arr[Len(h.arr)].id] = 0]]

----------------------------------------------------------------------------
(***************************************************************************)
(* container/heap                                                          *)
(***************************************************************************)

\* heap.up: the entry at j rises while it is less than its parent.
Up(h, j) ==
  LET rise[k \in 0 .. Len(h.arr)] ==
        IF k = 0 THEN [heap |-> h, at |-> j]
        ELSE LET s == rise[k - 1]
                 parent == s.at \div 2
             IN  IF parent >= 1 /\ Less(s.heap, s.at, parent)
                 THEN [heap |-> Swap(s.heap, parent, s.at), at |-> parent]
                 ELSE s
  IN  rise[Len(h.arr)].heap

\* The child of i, among the first n entries, that comes before the other.
LeastChild(h, i, n) ==
  LET left == 2 * i  right == left + 1
  IN  IF right <= n /\ Less(h, right, left) THEN right ELSE left

\* heap.down on the first n entries: the entry at i sinks while a child of it
\* is less than it.
Down(h, i, n) ==
  LET sink[k \in 0 .. Len(h.arr)] ==
        IF k = 0 THEN [heap |-> h, at |-> i]
        ELSE LET s == sink[k - 1]
                 child == LeastChild(s.heap, s.at, n)
             IN  IF child <= n /\ Less(s.heap, child, s.at)
                 THEN [heap |-> Swap(s.heap, s.at, child), at |-> child]
                 ELSE s
  IN  sink[Len(h.arr)]

Push(h, e) == Up(PushLast(h, e), Len(h.arr) + 1)

\* The heap after heap.Pop; what it returns is the first entry of h.
Pop(h) ==
  LET n == Len(h.arr) IN PopLast(Down(Swap(h, 1, n), 1, n - 1).heap)

\* heap.Remove(h, i) swaps the entry at i with the last one: it panics when i is
\* no position of the array.
CanHeapRemove(h, i) == i \in DOMAIN h.arr

HeapRemove(h, i) ==
  LET n == Len(h.arr)
      swapped == Swap(h, i, n)
      sunk == Down(swapped, i, n - 1)
  IN  IF i = n THEN PopLast(h)
      ELSE PopLast(IF sunk.at > i THEN sunk.heap ELSE Up(swapped, i))

HeapOrdered(h) ==
  \A i \in DOMAIN h.arr : i > 1 => ~Less(h, i, i \div 2)
=============================================================================

----------------------------- MODULE QueueProofs -----------------------------
(* Theorems about Queue, for every set of elements and of capacities: the  *)
(* ring stays consistent and implements the queue of module Fifo.          *)
EXTENDS Queue, LibraryLemmas

-----------------------------------------------------------------------------
(* The ring.                                                               *)

\* The cell of element k of the queue q, the oldest being element 1.
Cell(q, k) == (q.head + k - 1) % q.capacity

\* A queue_t whose indices agree and whose cells in use were all written.
WellFormed(q) ==
    /\ q \in QueueT(q.capacity) /\ q.capacity \in Capacities
    /\ q.capacity > 0 =>
         /\ q.head < q.capacity
         /\ q.tail = (q.head + q.count) % q.capacity
    /\ \A k \in 1 .. q.count : q.buffer[Cell(q, k)] \in Elements

Returns == [call : {"create", "enqueue", "dequeue", "peek"}, ok : BOOLEAN,
            value : Elements \union {NoValue}]

QueueInv ==
    /\ queue # NULL => WellFormed(queue)
    /\ ret \in Returns

\* The numbers of a queue.
LEMMA QueueNumbers ==
    ASSUME NEW q, WellFormed(q)
    PROVE  /\ q.capacity \in Nat /\ q.head \in Nat /\ q.tail \in Nat /\ q.count \in 0 .. q.capacity
           /\ q.buffer \in [0 .. q.capacity - 1 -> Elements \union {Junk}]
           /\ q = [capacity |-> q.capacity, buffer |-> q.buffer,
                   head |-> q.head, tail |-> q.tail, count |-> q.count]
BY QueueAssumption DEF WellFormed, QueueT

\* A queue with something in it has its indices inside the buffer.
LEMMA IndicesInside ==
    ASSUME NEW q, WellFormed(q), q.capacity > 0
    PROVE  /\ q.head \in 0 .. q.capacity - 1
           /\ q.tail \in 0 .. q.capacity - 1
           /\ q.tail = IF q.head + q.count < q.capacity THEN q.head + q.count
                       ELSE q.head + q.count - q.capacity
           /\ \A k \in 1 .. q.capacity :
                 Cell(q, k) = IF q.head + k - 1 < q.capacity THEN q.head + k - 1
                              ELSE q.head + k - 1 - q.capacity
<1> DEFINE c == q.capacity
           h == q.head
<1>1. c \in Nat \ {0} /\ h \in 0 .. c - 1 /\ q.count \in 0 .. c  BY QueueNumbers DEF WellFormed
<1>2. q.tail = (h + q.count) % c  BY DEF WellFormed
<1>3. c \in Nat \ {0} /\ h \in 0 .. c - 1 /\ q.count \in 0 .. c  BY <1>1
<1>4. q.tail = IF h + q.count < c THEN h + q.count ELSE h + q.count - c
  <2>1. (h + q.count) % c = IF h + q.count < c THEN h + q.count ELSE h + q.count - c
    BY ONLY <1>3
  <2> QED  BY <1>2, <2>1, Zenon
<1>5. ASSUME NEW k \in 1 .. c
      PROVE  Cell(q, k) = IF h + k - 1 < c THEN h + k - 1 ELSE h + k - 1 - c
  <2>1. k \in 1 .. c  OBVIOUS
  <2>2. (h + k - 1) % c = IF h + k - 1 < c THEN h + k - 1 ELSE h + k - 1 - c
    BY ONLY <1>3, <2>1
  <2> QED  BY <2>2, Zenon DEF Cell
<1>6. q.tail \in 0 .. c - 1  BY <1>1, <1>4
<1> QED  BY <1>1, <1>4, <1>5, <1>6

\* queue_create() sets up a well-formed queue, of any capacity.
LEMMA CreatedQueue ==
    ASSUME NEW c \in Capacities, NEW q,
           q = [capacity |-> c, buffer |-> [i \in 0 .. c - 1 |-> Junk],
                head |-> 0, tail |-> 0, count |-> 0]
    PROVE  WellFormed(q)
<1>1. c \in Nat  BY QueueAssumption
<1>2. q \in QueueT(c) /\ q.capacity = c /\ q.count = 0 /\ q.head = 0 /\ q.tail = 0
  BY <1>1 DEF QueueT
<1>3. c > 0 => (0 + 0) % c = 0  BY <1>1
<1>4. \A k \in 1 .. q.count : FALSE  BY <1>2
<1> QED  BY <1>1, <1>2, <1>3, <1>4 DEF WellFormed

\* The queue after queue_enqueue(), and after queue_dequeue().
Enqueued(q, e) ==
    [q EXCEPT !.buffer[q.tail] = e, !.tail = (q.tail + 1) % q.capacity, !.count = q.count + 1]

Dequeued(q) == [q EXCEPT !.head = (q.head + 1) % q.capacity, !.count = q.count - 1]

\* queue_enqueue() writes the cell behind the last one in use, and no cell in use.
LEMMA EnqueuedQueue ==
    ASSUME NEW q, WellFormed(q), q.count # q.capacity, NEW e \in Elements
    PROVE  /\ WellFormed(Enqueued(q, e))
           /\ Enqueued(q, e).capacity = q.capacity /\ Enqueued(q, e).count = q.count + 1
           /\ \A k \in 1 .. q.count :
                 Enqueued(q, e).buffer[Cell(Enqueued(q, e), k)] = q.buffer[Cell(q, k)]
           /\ Enqueued(q, e).buffer[Cell(Enqueued(q, e), q.count + 1)] = e
<1> DEFINE r == Enqueued(q, e)
           c == q.capacity
           n == q.count
           h == q.head
           t == q.tail
           b == q.buffer
           next == (t + 1) % c
           end == (h + (n + 1)) % c
           at(k) == IF h + k - 1 < c THEN h + k - 1 ELSE h + k - 1 - c
<1>1. /\ c \in Nat \ {0} /\ n \in 0 .. c - 1
      /\ b \in [0 .. c - 1 -> Elements \union {Junk}]
  BY QueueNumbers
<1>2. /\ h \in 0 .. c - 1 /\ t \in 0 .. c - 1
      /\ t = IF h + n < c THEN h + n ELSE h + n - c
      /\ \A k \in 1 .. c : Cell(q, k) = at(k)
  <2>1. q.capacity > 0  BY <1>1
  <2> QED  BY <2>1, IndicesInside, Zenon
<1>3. /\ r = [capacity |-> c, buffer |-> [b EXCEPT ![t] = e], head |-> h, tail |-> next, count |-> n + 1]
      /\ r.capacity = c /\ r.head = h /\ r.tail = next /\ r.count = n + 1
      /\ r.buffer = [b EXCEPT ![t] = e]
  <2>1. q = [capacity |-> c, buffer |-> b, head |-> h, tail |-> t, count |-> n]  BY QueueNumbers
  <2>2. r = [q EXCEPT !.buffer[t] = e, !.tail = next, !.count = n + 1]  BY Zenon DEF Enqueued
  <2> HIDE DEF c, b, h, t, n, next, r
  <2> QED  BY <2>1, <2>2
<1>4. c \in Capacities /\ \A k \in 1 .. n : b[Cell(q, k)] \in Elements  BY DEF WellFormed
<1> HIDE DEF c, n, h, t, b, r
<1>5. c \in Nat \ {0} /\ t \in 0 .. c - 1 /\ h \in 0 .. c - 1 /\ n \in 0 .. c - 1
      /\ t = IF h + n < c THEN h + n ELSE h + n - c
  BY <1>1, <1>2
<1>6. next = IF t + 1 < c THEN t + 1 ELSE t + 1 - c
  BY ONLY <1>5
<1>7. end = IF h + (n + 1) < c THEN h + (n + 1) ELSE h + (n + 1) - c
  BY ONLY <1>5
<1> HIDE DEF next, end
<1>8. next = end /\ next \in 0 .. c - 1  BY ONLY <1>5, <1>6, <1>7
<1>9. \A k : Cell(r, k) = Cell(q, k)
  <2>1. r.capacity = q.capacity /\ r.head = q.head  BY <1>3 DEF c, h
  <2> QED  BY <2>1 DEF Cell
<1>10. n + 1 \in 1 .. c /\ at(n + 1) = t  BY <1>1, <1>2
<1>11. Cell(q, n + 1) = t /\ [b EXCEPT ![t] = e][t] = e  BY <1>1, <1>2, <1>10
<1>12. ASSUME NEW k \in 1 .. n PROVE [b EXCEPT ![t] = e][Cell(q, k)] = b[Cell(q, k)]
  <2>1. k \in 1 .. c /\ at(k) \in 0 .. c - 1 /\ at(k) # t
    <3>1. k \in 1 .. n  OBVIOUS
    <3> QED  BY ONLY <1>5, <3>1
  <2>2. Cell(q, k) \in 0 .. c - 1 /\ Cell(q, k) # t  BY <1>2, <2>1
  <2> QED  BY <1>1, <2>2
<1>13. ASSUME NEW k \in 1 .. n + 1 PROVE r.buffer[Cell(r, k)] \in Elements
  <2>1. k = n + 1 \/ k \in 1 .. n  BY <1>1
  <2> QED  BY <2>1, <1>3, <1>4, <1>9, <1>11, <1>12
<1>14. r \in QueueT(c)
  <2>1. [b EXCEPT ![t] = e] \in [0 .. c - 1 -> Elements \union {Junk}]  BY <1>1, <1>2
  <2>2. h \in 0 .. c /\ next \in 0 .. c /\ n + 1 \in 0 .. c  BY <1>1, <1>2, <1>8
  <2> QED  BY <1>3, <2>1, <2>2 DEF QueueT
<1>15. h < c /\ next = (h + (n + 1)) % c  BY <1>1, <1>2, <1>8 DEF end
<1>16. WellFormed(r)
  BY <1>3, <1>4, <1>13, <1>14, <1>15 DEF WellFormed
<1>17. \A k \in 1 .. n : r.buffer[Cell(r, k)] = b[Cell(q, k)]  BY <1>3, <1>9, <1>12
<1>18. r.buffer[Cell(r, n + 1)] = e  BY <1>3, <1>9, <1>11
<1> QED  BY <1>3, <1>16, <1>17, <1>18 DEF c, n, b, r

\* queue_dequeue() shifts every remaining element by one place.
LEMMA DequeuedQueue ==
    ASSUME NEW q, WellFormed(q), q.count # 0
    PROVE  /\ WellFormed(Dequeued(q))
           /\ Dequeued(q).capacity = q.capacity /\ Dequeued(q).count = q.count - 1
           /\ \A k \in 1 .. q.count - 1 :
                 Dequeued(q).buffer[Cell(Dequeued(q), k)] = q.buffer[Cell(q, k + 1)]
           /\ q.buffer[q.head] = q.buffer[Cell(q, 1)]
<1> DEFINE r == Dequeued(q)
           c == q.capacity
           n == q.count
           h == q.head
           t == q.tail
           b == q.buffer
           g == (h + 1) % c
           end == (g + (n - 1)) % c
           at(k) == IF h + k - 1 < c THEN h + k - 1 ELSE h + k - 1 - c
<1>1. /\ c \in Nat \ {0} /\ n \in 1 .. c
      /\ b \in [0 .. c - 1 -> Elements \union {Junk}]
  BY QueueNumbers
<1>2. /\ h \in 0 .. c - 1 /\ t \in 0 .. c - 1
      /\ t = IF h + n < c THEN h + n ELSE h + n - c
      /\ \A k \in 1 .. c : Cell(q, k) = at(k)
  <2>1. q.capacity > 0  BY <1>1
  <2> QED  BY <2>1, IndicesInside, Zenon
<1>3. /\ r = [capacity |-> c, buffer |-> b, head |-> g, tail |-> t, count |-> n - 1]
      /\ r.capacity = c /\ r.head = g /\ r.tail = t /\ r.count = n - 1 /\ r.buffer = b
  <2>1. q = [capacity |-> c, buffer |-> b, head |-> h, tail |-> t, count |-> n]  BY QueueNumbers
  <2>2. r = [q EXCEPT !.head = g, !.count = n - 1]  BY Zenon DEF Dequeued
  <2> HIDE DEF c, b, h, t, n, g, r
  <2> QED  BY <2>1, <2>2
<1>4. c \in Capacities /\ \A k \in 1 .. n : b[Cell(q, k)] \in Elements  BY DEF WellFormed
<1> HIDE DEF c, n, h, t, b, r
<1>5. c \in Nat \ {0} /\ h \in 0 .. c - 1 /\ n \in 1 .. c  BY <1>1, <1>2
<1>6. g = IF h + 1 < c THEN h + 1 ELSE h + 1 - c
  BY ONLY <1>5
<1> HIDE DEF g
<1>7. g \in 0 .. c - 1  BY ONLY <1>5, <1>6
<1>8. end = IF g + (n - 1) < c THEN g + (n - 1) ELSE g + (n - 1) - c
  BY ONLY <1>5, <1>7
<1> HIDE DEF end
<1>9. t = end  BY <1>1, <1>2, <1>6, <1>8
<1>10. ASSUME NEW k \in 1 .. n - 1 PROVE Cell(r, k) = Cell(q, k + 1)
  <2> DEFINE x == (g + k - 1) % c
  <2>1. x = IF g + k - 1 < c THEN g + k - 1 ELSE g + k - 1 - c
    <3>1. k \in 1 .. n - 1  OBVIOUS
    <3> QED  BY ONLY <1>5, <1>7, <3>1
  <2>2. Cell(r, k) = x  BY <1>3, Zenon DEF Cell
  <2> HIDE DEF x
  <2>3. k + 1 \in 1 .. c /\ at(k + 1) = x
    <3>1. k \in 1 .. n - 1  OBVIOUS
    <3> QED  BY ONLY <1>5, <1>6, <2>1, <3>1
  <2> QED  BY <1>2, <2>2, <2>3
<1>11. ASSUME NEW k \in 1 .. n - 1 PROVE r.buffer[Cell(r, k)] \in Elements
  <2>1. k + 1 \in 1 .. n  BY <1>1
  <2> QED  BY <2>1, <1>3, <1>4, <1>10
<1>12. r \in QueueT(c)
  <2>1. g \in 0 .. c /\ t \in 0 .. c /\ n - 1 \in 0 .. c  BY <1>1, <1>2, <1>7
  <2> QED  BY <1>1, <1>3, <2>1 DEF QueueT
<1>13. g < c /\ t = (g + (n - 1)) % c  BY <1>1, <1>7, <1>9 DEF end
<1>14. WellFormed(r)  BY <1>3, <1>4, <1>11, <1>12, <1>13 DEF WellFormed
<1>15. Cell(q, 1) = h
  <2>1. 1 \in 1 .. c /\ at(1) = h  BY <1>1, <1>2
  <2> QED  BY <1>2, <2>1
<1>16. \A k \in 1 .. n - 1 : r.buffer[Cell(r, k)] = b[Cell(q, k + 1)]  BY <1>3, <1>10
<1> QED  BY <1>3, <1>14, <1>15, <1>16 DEF c, n, h, b, r

\* queue_clear() leaves a well-formed empty queue, whatever the buffer holds.
LEMMA ClearedQueue ==
    ASSUME NEW q, WellFormed(q), NEW r, r = [q EXCEPT !.head = 0, !.tail = 0, !.count = 0]
    PROVE  WellFormed(r) /\ r.count = 0 /\ r.capacity = q.capacity
<1> DEFINE c == q.capacity
           b == q.buffer
<1>1. c \in Nat /\ b \in [0 .. c - 1 -> Elements \union {Junk}]  BY QueueNumbers
<1>2. /\ r = [capacity |-> c, buffer |-> b, head |-> 0, tail |-> 0, count |-> 0]
      /\ r.capacity = c /\ r.head = 0 /\ r.tail = 0 /\ r.count = 0 /\ r.buffer = b
  <2>1. q = [capacity |-> c, buffer |-> b, head |-> q.head, tail |-> q.tail, count |-> q.count]
    BY QueueNumbers
  <2> DEFINE h == q.head
             t == q.tail
             n == q.count
  <2>2. q = [capacity |-> c, buffer |-> b, head |-> h, tail |-> t, count |-> n]  BY <2>1
  <2> HIDE DEF c, b, h, t, n
  <2> QED  BY <2>2
<1>3. c \in Capacities  BY DEF WellFormed
<1> HIDE DEF c, b
<1>4. r \in QueueT(c)  BY <1>1, <1>2 DEF QueueT
<1>5. c > 0 => 0 < c /\ 0 = (0 + 0) % c  BY <1>1
<1>6. \A k \in 1 .. r.count : FALSE  BY <1>2
<1> QED  BY <1>2, <1>3, <1>4, <1>5, <1>6 DEF WellFormed, c

-----------------------------------------------------------------------------
(* The invariant.                                                          *)

\* No queue is the pointer to none.
LEMMA QueueIsNotNull ==
    ASSUME NEW q, WellFormed(q)
    PROVE  q # NULL
BY QueueAssumption DEF WellFormed

\* What a call returns.
LEMMA ReturnType ==
    ASSUME NEW call \in {"create", "enqueue", "dequeue", "peek"}, NEW value \in Elements \union {NoValue}
    PROVE  Result(call, TRUE, value) \in Returns /\ Result(call, FALSE, value) \in Returns
BY DEF Result, Returns

\* What is delivered was once put in.
LEMMA OldestIsElement ==
    ASSUME WellFormed(queue), ~IsEmpty
    PROVE  Oldest \in Elements
<1>1. queue.count \in Nat /\ queue.count # 0 /\ queue.capacity > 0
  BY QueueNumbers DEF IsEmpty
<1>2. 1 \in 1 .. queue.count /\ 1 \in 1 .. queue.capacity  BY <1>1, QueueNumbers
<1>3. Cell(queue, 1) = queue.head
  <2>1. queue.head \in 0 .. queue.capacity - 1 /\ queue.capacity \in Nat
        /\ Cell(queue, 1) = IF queue.head + 1 - 1 < queue.capacity THEN queue.head + 1 - 1
                            ELSE queue.head + 1 - 1 - queue.capacity
    BY <1>1, <1>2, IndicesInside, QueueNumbers
  <2> QED  BY ONLY <2>1
<1> QED  BY <1>2, <1>3 DEF WellFormed, Oldest

\* Every step keeps QueueInv.
LEMMA StepQueueInv == QueueInv /\ [Next]_vars => QueueInv'
<1> SUFFICES ASSUME QueueInv, [Next]_vars PROVE QueueInv'  OBVIOUS
<1>0. ret \in Returns /\ (queue # NULL => WellFormed(queue))  BY DEF QueueInv
<1>1. ASSUME NEW c \in Capacities, Create(c) PROVE QueueInv'
  <2>1. ret' \in Returns
    <3>1. ret' = Result("create", TRUE, NoValue) \/ ret' = Result("create", FALSE, NoValue)
      BY <1>1, Zenon DEF Create
    <3> QED  BY <3>1, ReturnType
  <2>2. CASE queue' = [capacity |-> c, buffer |-> [i \in 0 .. c - 1 |-> Junk],
                       head |-> 0, tail |-> 0, count |-> 0]
    <3>1. WellFormed(queue')  BY <2>2, CreatedQueue
    <3> QED  BY <2>1, <3>1 DEF QueueInv, WellFormed, QueueT, Cell
  <2>3. CASE queue' = queue
    BY <1>0, <2>1, <2>3 DEF QueueInv, WellFormed, QueueT, Cell
  <2> QED  BY <1>1, <2>2, <2>3 DEF Create
<1>2. ASSUME NEW e \in Elements, Enqueue(e) PROVE QueueInv'
  <2>1. ret' \in Returns
    <3>1. ret' = Result("enqueue", TRUE, NoValue) \/ ret' = Result("enqueue", FALSE, NoValue)
      BY <1>2, Zenon DEF Enqueue, Refused
    <3> QED  BY <3>1, ReturnType
  <2>2. CASE queue # NULL /\ ~IsFull
             /\ queue' = [queue EXCEPT !.buffer[queue.tail] = e, !.tail = Advance(@), !.count = @ + 1]
    <3>2. queue' = Enqueued(queue, e)  BY <2>2, Zenon DEF Advance, Enqueued
    <3>1. WellFormed(queue')  BY <1>0, <2>2, <3>2, EnqueuedQueue DEF IsFull
    <3> QED  BY <2>1, <3>1 DEF QueueInv, WellFormed, QueueT, Cell
  <2>3. CASE queue' = queue
    BY <1>0, <2>1, <2>3 DEF QueueInv, WellFormed, QueueT, Cell
  <2> QED  BY <1>2, <2>2, <2>3 DEF Enqueue, Refused
<1>3. CASE Dequeue
  <2>1. CASE queue # NULL /\ ~IsEmpty
             /\ queue' = [queue EXCEPT !.head = Advance(@), !.count = @ - 1]
             /\ ret' = Result("dequeue", TRUE, Oldest)
    <3>4. queue' = Dequeued(queue)  BY <2>1, Zenon DEF Advance, Dequeued
    <3>1. WellFormed(queue')  BY <1>0, <2>1, <3>4, DequeuedQueue DEF IsEmpty
    <3>2. Oldest \in Elements  BY <1>0, <2>1, OldestIsElement
    <3>3. ret' \in Returns  BY <2>1, <3>2, ReturnType
    <3> QED  BY <3>1, <3>3 DEF QueueInv, WellFormed, QueueT, Cell
  <2>2. CASE Refused("dequeue")
    <3>1. ret' \in Returns /\ queue' = queue  BY <2>2, ReturnType DEF Refused
    <3> QED  BY <1>0, <3>1 DEF QueueInv, WellFormed, QueueT, Cell
  <2> QED  BY <1>3, <2>1, <2>2 DEF Dequeue
<1>4. CASE Peek
  <2>1. queue' = queue  BY <1>4 DEF Peek, Refused
  <2>2. ret' \in Returns
    <3>1. CASE queue # NULL /\ ~IsEmpty /\ ret' = Result("peek", TRUE, Oldest)
      <4>1. Oldest \in Elements  BY <1>0, <3>1, OldestIsElement
      <4> QED  BY <3>1, <4>1, ReturnType
    <3>2. CASE Refused("peek")  BY <3>2, ReturnType DEF Refused
    <3> QED  BY <1>4, <3>1, <3>2 DEF Peek
  <2> QED  BY <1>0, <2>1, <2>2 DEF QueueInv, WellFormed, QueueT, Cell
<1>5. CASE Clear
  <2>1. WellFormed(queue')  BY <1>0, <1>5, ClearedQueue DEF Clear, Cleared
  <2> QED  BY <1>0, <1>5, <2>1 DEF Clear, QueueInv, WellFormed, QueueT, Cell
<1>6. CASE Destroy
  BY <1>0, <1>6 DEF Destroy, QueueInv, WellFormed, QueueT, Cell
<1>7. CASE UNCHANGED vars
  BY <1>0, <1>7 DEF vars, QueueInv, WellFormed, QueueT, Cell
<1> QED  BY <1>1, <1>2, <1>3, <1>4, <1>5, <1>6, <1>7 DEF Next

\* There is no queue at first.
LEMMA InitQueueInv == Init => QueueInv
BY ReturnType DEF Init, QueueInv

\* The ring is well formed and no call delivers a cell that was never written, for any
\* capacity, 0 included, and any series of calls, failed allocations included.
THEOREM TypeCorrect == Spec => []TypeOK
<1>1. QueueInv => TypeOK  BY DEF QueueInv, TypeOK, WellFormed, Returns
<1> QED  BY InitQueueInv, StepQueueInv, <1>1, PTL DEF Spec

\* Head, tail and count always agree, and the indices stay inside the buffer.
THEOREM RingIsConsistent == Spec => []RingConsistent
<1>1. QueueInv => RingConsistent  BY DEF QueueInv, RingConsistent, WellFormed
<1> QED  BY InitQueueInv, StepQueueInv, <1>1, PTL DEF Spec

-----------------------------------------------------------------------------
(* The ring implements the queue of Fifo.                                  *)

\* The elements of a queue, oldest first.
Items(q) == [k \in 1 .. q.count |-> q.buffer[Cell(q, k)]]

LEMMA ItemsOf ==
    ASSUME NEW q, WellFormed(q)
    PROVE  /\ Items(q) \in Seq(Elements) /\ Len(Items(q)) = q.count
           /\ \A k \in 1 .. q.count : Items(q)[k] = q.buffer[Cell(q, k)]
<1>1. q.count \in Nat  BY QueueNumbers
<1>2. \A k \in 1 .. q.count : q.buffer[Cell(q, k)] \in Elements  BY DEF WellFormed
<1>3. Items(q) \in [1 .. q.count -> Elements]  BY <1>2 DEF Items
<1>4. Items(q) \in Seq(Elements) /\ Len(Items(q)) = q.count  BY <1>1, <1>3, FunctionIsSeq
<1> QED  BY <1>4 DEF Items

\* The variables of Fifo are those of the ring.
LEMMA ContentsOf ==
    ASSUME QueueInv
    PROVE  /\ queue = NULL => Contents = <<>>
           /\ queue # NULL => Contents = Items(queue)
BY DEF Contents, Items, Cell

\* A sequence without elements.
LEMMA NoItems ==
    ASSUME NEW q, WellFormed(q), q.count = 0
    PROVE  Items(q) = <<>>
<1>1. Items(q) \in Seq(Elements) /\ Len(Items(q)) = 0  BY ItemsOf
<1> QED  BY <1>1, EmptySeq

\* The queue of Fifo at first.
LEMMA InitImplements == Init => F!Init
<1> SUFFICES ASSUME Init PROVE F!Init  OBVIOUS
<1>1. queue = NULL /\ ret = Result("create", FALSE, NoValue)  BY DEF Init
<1>2. (queue # NULL) = FALSE  BY <1>1, Zenon
<1>3. (IF queue = NULL THEN 0 ELSE queue.capacity) = 0  BY <1>1
<1>4. Contents = <<>>  BY <1>1 DEF Contents
<1> QED  BY <1>1, <1>2, <1>3, <1>4, Zenon DEF F!Init, F!Refusal, F!Result, Result

\* The room of Fifo.
Room == IF queue = NULL THEN 0 ELSE queue.capacity

\* queue_create() makes an empty queue, or fails and changes nothing.
LEMMA CreateImplements ==
    ASSUME QueueInv, QueueInv', NEW c \in Capacities, Create(c)
    PROVE  F!Create(c) \/ F!Refuse
<1>1. queue = NULL  BY DEF Create
<1>2. CASE /\ queue' = [capacity |-> c, buffer |-> [i \in 0 .. c - 1 |-> Junk],
                        head |-> 0, tail |-> 0, count |-> 0]
           /\ ret' = Result("create", TRUE, NoValue)
  <2>1. WellFormed(queue')  BY <1>2, CreatedQueue
  <2>2. queue' # NULL  BY <2>1, QueueIsNotNull
  <2>3. Contents' = <<>>
    <3>1. Contents' = Items(queue')  BY <2>2 DEF Contents, Items, Cell
    <3>2. queue'.count = 0  BY <1>2
    <3> QED  BY <2>1, <3>1, <3>2, NoItems
  <2>4. Room' = c  BY <1>2, <2>2 DEF Room
  <2>5. ~(queue # NULL) /\ (queue # NULL)' = TRUE  BY <1>1, <2>2, Zenon
  <2> QED  BY <1>2, <2>3, <2>4, <2>5, Zenon DEF F!Create, F!Result, Result, Room
<1>3. CASE queue' = queue /\ ret' = Result("create", FALSE, NoValue)
  <2>1. ret' \in {F!Refusal(call) : call \in {"create", "enqueue", "dequeue", "peek"}}
    BY <1>3 DEF F!Refusal, F!Result, Result
  <2>2. (queue # NULL)' = (queue # NULL) /\ Room' = Room /\ Contents' = Contents
    BY <1>3, Zenon DEF Room, Contents
  <2>3. ~(queue # NULL)  BY <1>1
  <2> QED  BY <2>1, <2>2, <2>3, Zenon DEF F!Refuse, Room
<1> QED  BY <1>2, <1>3 DEF Create

\* A call that changes no queue leaves the variables of Fifo alone.
LEMMA SameQueue ==
    ASSUME queue' = queue
    PROVE  (queue # NULL)' = (queue # NULL) /\ Room' = Room /\ Contents' = Contents
BY Zenon DEF Room, Contents

\* queue_enqueue() appends the element, or is refused because there is no queue or no room.
LEMMA EnqueueImplements ==
    ASSUME QueueInv, QueueInv', NEW e \in Elements, Enqueue(e)
    PROVE  F!Put(e) \/ F!Refuse
<1>1. CASE Refused("enqueue") /\ queue = NULL
  <2>1. ret' \in {F!Refusal(call) : call \in {"create", "enqueue", "dequeue", "peek"}}
    BY <1>1 DEF Refused, F!Refusal, F!Result, Result
  <2>2. ~(queue # NULL) /\ queue' = queue  BY <1>1 DEF Refused
  <2> QED  BY <2>1, <2>2, SameQueue, Zenon DEF F!Refuse, Room
<1>2. CASE Refused("enqueue") /\ queue # NULL /\ IsFull
  <2>1. ret' = F!Refusal("enqueue") /\ queue' = queue
    BY <1>2 DEF Refused, F!Refusal, F!Result, Result
  <2>2. Len(Contents) = Room
    BY <1>2, ItemsOf, ContentsOf DEF QueueInv, IsFull, Room
  <2> QED  BY <2>1, <2>2, SameQueue, Zenon DEF F!Refuse, Room
<1>3. CASE /\ queue # NULL /\ ~IsFull
           /\ queue' = [queue EXCEPT !.buffer[queue.tail] = e, !.tail = Advance(@), !.count = @ + 1]
           /\ ret' = Result("enqueue", TRUE, NoValue)
  <2>1. WellFormed(queue) /\ queue.count # queue.capacity  BY <1>3 DEF QueueInv, IsFull
  <2>2. /\ WellFormed(queue')
        /\ queue'.capacity = queue.capacity /\ queue'.count = queue.count + 1
        /\ \A k \in 1 .. queue.count : queue'.buffer[Cell(queue', k)] = queue.buffer[Cell(queue, k)]
        /\ queue'.buffer[Cell(queue', queue.count + 1)] = e
    <3>1. queue' = Enqueued(queue, e)  BY <1>3, Zenon DEF Advance, Enqueued
    <3> QED  BY <2>1, <3>1, EnqueuedQueue
  <2>3. queue' # NULL  BY <2>2, QueueIsNotNull
  <2>4. Contents = Items(queue) /\ Contents' = Items(queue')
    BY <1>3, <2>3 DEF Contents, Items, Cell
  <2>5. queue.count \in Nat /\ queue.capacity \in Nat /\ queue.count < queue.capacity
    BY <2>1, QueueNumbers
  <2>6. Items(queue') = Append(Items(queue), e)
    <3> DEFINE s == Items(queue)
               t == Items(queue')
               n == queue.count
    <3>1. /\ s \in Seq(Elements) /\ Len(s) = n
          /\ \A k \in 1 .. n : s[k] = queue.buffer[Cell(queue, k)]
      BY <2>1, ItemsOf
    <3>2. /\ t \in Seq(Elements) /\ Len(t) = n + 1
          /\ \A k \in 1 .. n + 1 : t[k] = queue'.buffer[Cell(queue', k)]
      BY <2>2, ItemsOf
    <3>3. \A k \in 1 .. Len(s) : t[k] = s[k]  BY <2>2, <2>5, <3>1, <3>2
    <3>4. t[Len(s) + 1] = e  BY <2>2, <2>5, <3>1, <3>2
    <3> HIDE DEF s, t
    <3>5. t = Append(s, e)  BY <3>1, <3>2, <3>3, <3>4, IsAppend
    <3> QED  BY <3>5 DEF s, t
  <2>7. Len(Contents) < Room  BY <1>3, <2>1, <2>4, <2>5, ItemsOf DEF Room
  <2>8. Room' = Room  BY <1>3, <2>2, <2>3 DEF Room
  <2>9. (queue # NULL) /\ (queue # NULL)' = (queue # NULL)  BY <1>3, <2>3, Zenon
  <2> QED  BY <1>3, <2>4, <2>6, <2>7, <2>8, <2>9, Zenon DEF F!Put, F!Result, Result, Room
<1> QED  BY <1>1, <1>2, <1>3 DEF Enqueue

\* A queue with an element: what Fifo calls its head is what the code copies out.
LEMMA OldestIsHead ==
    ASSUME QueueInv, queue # NULL, ~IsEmpty
    PROVE  Contents # <<>> /\ Oldest = Head(Contents)
<1>1. WellFormed(queue) /\ queue.count # 0  BY DEF QueueInv, IsEmpty
<1>2. queue.count \in Nat /\ 1 \in 1 .. queue.count  BY <1>1, QueueNumbers
<1>3. Contents = Items(queue)  BY ContentsOf
<1>4. /\ Contents \in Seq(Elements) /\ Len(Contents) = queue.count
      /\ Contents[1] = queue.buffer[Cell(queue, 1)]
  BY <1>1, <1>2, <1>3, ItemsOf
<1>5. queue.buffer[queue.head] = queue.buffer[Cell(queue, 1)]
  BY <1>1, DequeuedQueue
<1>6. Contents # <<>>  BY <1>1, <1>4, EmptySeq
<1> QED  BY <1>4, <1>5, <1>6, HeadTailProperties DEF Oldest

\* A call that finds nothing is refused for that reason.
LEMMA RefusedEmpty ==
    ASSUME QueueInv, NEW call \in {"dequeue", "peek"}, Refused(call),
           queue = NULL \/ (queue # NULL /\ IsEmpty)
    PROVE  F!Refuse
<1>1. ret' = F!Refusal(call) /\ queue' = queue
  BY DEF Refused, F!Refusal, F!Result, Result
<1>2. Contents = <<>>
  BY ContentsOf, NoItems DEF QueueInv, IsEmpty
<1>3. ret' \in {F!Refusal("dequeue"), F!Refusal("peek")}  BY <1>1
<1> QED  BY <1>1, <1>2, <1>3, SameQueue, Zenon DEF F!Refuse, Room

\* queue_dequeue() delivers and removes the oldest element.
LEMMA DequeueImplements ==
    ASSUME QueueInv, QueueInv', Dequeue
    PROVE  F!Get \/ F!Refuse
<1>1. CASE Refused("dequeue") /\ (queue = NULL \/ (queue # NULL /\ IsEmpty))
  BY <1>1, RefusedEmpty
<1>2. CASE /\ queue # NULL /\ ~IsEmpty
           /\ queue' = [queue EXCEPT !.head = Advance(@), !.count = @ - 1]
           /\ ret' = Result("dequeue", TRUE, Oldest)
  <2>1. WellFormed(queue) /\ queue.count # 0  BY <1>2 DEF QueueInv, IsEmpty
  <2>2. /\ WellFormed(queue')
        /\ queue'.capacity = queue.capacity /\ queue'.count = queue.count - 1
        /\ \A k \in 1 .. queue'.count : queue'.buffer[Cell(queue', k)] = queue.buffer[Cell(queue, k + 1)]
    <3>1. queue' = Dequeued(queue)  BY <1>2, Zenon DEF Advance, Dequeued
    <3> QED  BY <2>1, <3>1, DequeuedQueue
  <2>3. queue' # NULL  BY <2>2, QueueIsNotNull
  <2>4. Contents = Items(queue) /\ Contents' = Items(queue')
    BY <1>2, <2>3 DEF Contents, Items, Cell
  <2>5. Contents # <<>> /\ Oldest = Head(Contents)  BY <1>2, OldestIsHead
  <2>6. Items(queue') = Tail(Items(queue))
    <3> DEFINE s == Items(queue)
               t == Items(queue')
               n == queue.count
    <3>1. /\ s \in Seq(Elements) /\ Len(s) = n /\ n \in Nat \ {0}
          /\ \A k \in 1 .. n : s[k] = queue.buffer[Cell(queue, k)]
      BY <2>1, ItemsOf, QueueNumbers
    <3>2. /\ t \in Seq(Elements) /\ Len(t) = n - 1
          /\ \A k \in 1 .. n - 1 : t[k] = queue'.buffer[Cell(queue', k)]
      BY <2>2, ItemsOf
    <3>3. \A k \in 1 .. Len(t) : t[k] = s[k + 1]  BY <2>2, <3>1, <3>2
    <3>4. s # <<>>  BY <2>4, <2>5
    <3> HIDE DEF s, t
    <3>5. t = Tail(s)  BY <3>1, <3>2, <3>3, <3>4, IsTail
    <3> QED  BY <3>5 DEF s, t
  <2>7. Room' = Room  BY <1>2, <2>2, <2>3 DEF Room
  <2>8. (queue # NULL) /\ (queue # NULL)' = (queue # NULL)  BY <1>2, <2>3, Zenon
  <2> QED  BY <1>2, <2>4, <2>5, <2>6, <2>7, <2>8, Zenon DEF F!Get, F!Result, Result, Room
<1> QED  BY <1>1, <1>2 DEF Dequeue

\* queue_peek() delivers the oldest element and changes nothing.
LEMMA PeekImplements ==
    ASSUME QueueInv, Peek
    PROVE  F!Look \/ F!Refuse
<1>1. CASE Refused("peek") /\ (queue = NULL \/ (queue # NULL /\ IsEmpty))
  BY <1>1, RefusedEmpty
<1>2. CASE queue # NULL /\ ~IsEmpty /\ ret' = Result("peek", TRUE, Oldest) /\ queue' = queue
  BY <1>2, OldestIsHead, SameQueue, Zenon DEF F!Look, F!Result, Result, Room
<1> QED  BY <1>1, <1>2 DEF Peek

\* queue_clear() and queue_destroy().
LEMMA ClearImplements ==
    ASSUME QueueInv, Clear
    PROVE  F!Clear
<1>1. queue # NULL /\ WellFormed(queue) /\ queue' = Cleared /\ ret' = ret  BY DEF Clear, QueueInv
<1>2. WellFormed(queue') /\ queue'.count = 0 /\ queue'.capacity = queue.capacity
  BY <1>1, ClearedQueue DEF Cleared
<1>3. queue' # NULL  BY <1>2, QueueIsNotNull
<1>4. Contents' = Items(queue')  BY <1>3 DEF Contents, Items, Cell
<1>5. Contents' = <<>>  BY <1>2, <1>4, NoItems
<1>6. Room' = Room  BY <1>1, <1>2, <1>3 DEF Room
<1>7. (queue # NULL) /\ (queue # NULL)' = (queue # NULL)  BY <1>1, <1>3, Zenon
<1> QED  BY <1>1, <1>5, <1>6, <1>7, Zenon DEF F!Clear, Room

LEMMA DestroyImplements ==
    ASSUME Destroy
    PROVE  F!Destroy
<1>1. queue # NULL /\ queue' = NULL /\ ret' = ret  BY DEF Destroy
<1>2. Contents' = <<>> /\ Room' = 0  BY <1>1 DEF Contents, Room
<1>3. (queue # NULL) /\ (queue # NULL)' = FALSE  BY <1>1, Zenon
<1> QED  BY <1>1, <1>2, <1>3, Zenon DEF F!Destroy, Room

\* Every step of the ring is a step of Fifo.
LEMMA StepImplements == QueueInv /\ QueueInv' /\ [Next]_vars => [F!Next]_F!vars
<1> SUFFICES ASSUME QueueInv, QueueInv', [Next]_vars PROVE [F!Next]_F!vars  OBVIOUS
<1>1. ASSUME NEW c \in Capacities, Create(c) PROVE F!Next
  BY <1>1, CreateImplements, Zenon DEF F!Next
<1>2. ASSUME NEW e \in Elements, Enqueue(e) PROVE F!Next
  BY <1>2, EnqueueImplements, Zenon DEF F!Next
<1>3. CASE Dequeue  BY <1>3, DequeueImplements, Zenon DEF F!Next
<1>4. CASE Peek  BY <1>4, PeekImplements, Zenon DEF F!Next
<1>5. CASE Clear  BY <1>5, ClearImplements, Zenon DEF F!Next
<1>6. CASE Destroy  BY <1>6, DestroyImplements, Zenon DEF F!Next
<1>7. CASE UNCHANGED vars
  <2>1. queue' = queue /\ ret' = ret  BY <1>7 DEF vars
  <2> QED  BY <2>1, SameQueue, Zenon DEF F!vars, Room
<1> QED  BY <1>1, <1>2, <1>3, <1>4, <1>5, <1>6, <1>7 DEF Next

\* The ring buffer implements a first-in, first-out queue: elements leave in the order in
\* which they entered, none is lost, made up or delivered twice, and a call is refused only
\* for want of a queue, of room or of an element.
THEOREM RingImplementsFifo == Spec => ImplementsFifo
<1>1. QueueInv /\ [Next]_vars => [F!Next]_F!vars
  BY StepQueueInv, StepImplements
<1> QED  BY InitQueueInv, InitImplements, StepQueueInv, <1>1, PTL DEF Spec, ImplementsFifo, F!Spec
=============================================================================

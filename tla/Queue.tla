------------------------------- MODULE Queue -------------------------------
(***************************************************************************)
(* The bounded queue of src/kernel/queue.c: a ring of "capacity" cells with *)
(* the indices head and tail and a count of the cells in use.  A caller    *)
(* that destroys a queue drops its pointer, so that "queue" is then NULL.  *)
(* capacity * element_size, a product of two uint32_t, is taken not to     *)
(* wrap: the buffer has room for "capacity" elements.                      *)
(***************************************************************************)
EXTENDS Naturals, Sequences

CONSTANTS
    Elements,    \* the elements callers enqueue
    Capacities,  \* capacity arguments of queue_create()
    NULL,        \* the pointer to no queue
    Junk,        \* the content of a cell that malloc() left uninitialised
    NoValue      \* a call that copies no element out

QueueT(c) == [capacity : {c}, buffer : [0 .. c - 1 -> Elements \union {Junk}],
              head : 0 .. c, tail : 0 .. c, count : 0 .. c]

ASSUME QueueAssumption ==
    /\ Capacities \subseteq Nat
    /\ Junk \notin Elements /\ NoValue \notin Elements
    /\ \A c \in Capacities : NULL \notin QueueT(c)

VARIABLES
    queue,   \* the queue_t, or NULL
    ret      \* history: the last call, its return value, the element it copied out

vars == <<queue, ret>>

Result(call, ok, value) == [call |-> call, ok |-> ok, value |-> value]

Init == queue = NULL /\ ret = Result("create", FALSE, NoValue)

\* queue_create(); malloc() may fail.  Capacity 0 is accepted.  The size that malloc() is
\* asked for is that of "capacity" elements, as it is below 2^32 bytes.
Create(capacity) ==
    /\ queue = NULL
    /\ \/ /\ queue' = [capacity |-> capacity, buffer |-> [i \in 0 .. capacity - 1 |-> Junk],
                       head |-> 0, tail |-> 0, count |-> 0]
          /\ ret' = Result("create", TRUE, NoValue)
       \/ /\ ret' = Result("create", FALSE, NoValue)
          /\ UNCHANGED queue

\* queue_destroy().
Destroy ==
    /\ queue # NULL
    /\ queue' = NULL
    /\ UNCHANGED ret

\* queue_is_empty() and queue_is_full(), for a queue that is not NULL.
IsEmpty == queue.count = 0

IsFull == queue.count = queue.capacity

\* Mutant: the index never wraps.
Advance_NoWrap(index) == index + 1

\* The next index of the ring.
Advance(index) == (index + 1) % queue.capacity

\* A call that finds no queue, no room or no element returns false.
Refused(call) ==
    /\ ret' = Result(call, FALSE, NoValue)
    /\ UNCHANGED queue

\* queue_enqueue().
Enqueue(e) ==
    \/ /\ queue = NULL \/ (queue # NULL /\ IsFull)
       /\ Refused("enqueue")
    \/ /\ queue # NULL /\ ~IsFull
       /\ queue' = [queue EXCEPT !.buffer[queue.tail] = e, !.tail = Advance(@), !.count = @ + 1]
       /\ ret' = Result("enqueue", TRUE, NoValue)

\* Mutant: the cell is read after head has moved.
Oldest_AfterAdvance == queue.buffer[Advance(queue.head)]

Oldest == queue.buffer[queue.head]

\* queue_dequeue().
Dequeue ==
    \/ /\ queue = NULL \/ (queue # NULL /\ IsEmpty)
       /\ Refused("dequeue")
    \/ /\ queue # NULL /\ ~IsEmpty
       /\ queue' = [queue EXCEPT !.head = Advance(@), !.count = @ - 1]
       /\ ret' = Result("dequeue", TRUE, Oldest)

\* queue_peek().
Peek ==
    \/ /\ queue = NULL \/ (queue # NULL /\ IsEmpty)
       /\ Refused("peek")
    \/ /\ queue # NULL /\ ~IsEmpty
       /\ ret' = Result("peek", TRUE, Oldest)
       /\ UNCHANGED queue

\* Mutant: tail is forgotten.
Cleared_KeepsTail == [queue EXCEPT !.head = 0, !.count = 0]

Cleared == [queue EXCEPT !.head = 0, !.tail = 0, !.count = 0]

\* queue_clear(); the buffer keeps its content.
Clear ==
    /\ queue # NULL
    /\ queue' = Cleared
    /\ UNCHANGED ret

Next ==
    \/ \E capacity \in Capacities : Create(capacity)
    \/ \E e \in Elements : Enqueue(e)
    \/ Dequeue \/ Peek \/ Clear \/ Destroy

Spec == Init /\ [][Next]_vars

-----------------------------------------------------------------------------
(* Properties.                                                             *)

\* Type correctness.  No call delivers Junk, a cell that was never written: the buffer
\* of queue_create() is uninitialised.
TypeOK ==
    /\ queue = NULL \/ queue \in UNION {QueueT(c) : c \in Capacities}
    /\ ret \in [call : {"create", "enqueue", "dequeue", "peek"}, ok : BOOLEAN,
                value : Elements \union {NoValue}]

\* Head, tail and count agree, and both indices stay inside the buffer, through
\* any series of queue_enqueue(), queue_dequeue() and queue_clear().
RingConsistent ==
    queue # NULL /\ queue.capacity > 0 =>
        /\ queue.head < queue.capacity
        /\ queue.tail = (queue.head + queue.count) % queue.capacity

\* The elements in the queue, oldest first.
Contents ==
    IF queue = NULL THEN <<>>
    ELSE [k \in 1 .. queue.count |-> queue.buffer[(queue.head + k - 1) % queue.capacity]]

\* The ring implements a first-in, first-out queue that refuses only what it must.
F == INSTANCE Fifo WITH
        created <- queue # NULL,
        room    <- IF queue = NULL THEN 0 ELSE queue.capacity,
        items   <- Contents

ImplementsFifo == F!Spec
=============================================================================

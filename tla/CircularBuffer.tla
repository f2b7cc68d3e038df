--------------------------- MODULE CircularBuffer ---------------------------
(***************************************************************************)
(* The byte ring of src/utils/circular_buffer.c: block reads and writes, a *)
(* mode in which a write discards the oldest bytes, and direct access      *)
(* through a read pointer and a write pointer.                             *)
(*                                                                         *)
(* A producer and a consumer share the buffer, and a pointer is used after *)
(* the call that returned it: calls of the other side come in between.     *)
(* Each side drops its own pointer when it moves its own end, and both do  *)
(* when the buffer is cleared or destroyed.  A call that would compute     *)
(* "% capacity" on a destroyed buffer is undefined behaviour and is not    *)
(* made.                                                                   *)
(***************************************************************************)
EXTENDS Integers, Sequences

CONSTANTS
    Bytes,       \* byte values
    Junk,        \* the content of a byte that malloc() left uninitialised
    Capacities,  \* capacity arguments of circular_buffer_init()
    Data,        \* the byte sequences that are written, and the patterns
    Sizes,       \* size arguments of the other calls
    Sources      \* the buffers that circular_buffer_copy() reads from

Ring(c) == [buffer : [0 .. c - 1 -> Bytes \union {Junk}], capacity : {c},
            head : 0 .. c, tail : 0 .. c, count : 0 .. c, overwrite : BOOLEAN]

ASSUME CircularBufferAssumption ==
    /\ Junk \notin Bytes
    /\ Capacities \subseteq Nat \ {0} /\ Sizes \subseteq Nat
    /\ Data \subseteq Seq(Bytes) \ {<<>>}
    /\ \A src \in Sources : /\ src.capacity \in Nat \ {0} /\ src \in Ring(src.capacity)
                            /\ src.head < src.capacity

VARIABLES
    cb,       \* the circular_buffer_t; capacity 0 when destroyed
    ret,      \* the number that the last call returned, and the bytes it delivered
    reading,  \* what the consumer holds of circular_buffer_get_read_ptr()
    writing   \* what the producer holds of circular_buffer_get_write_ptr(), with
              \* the bytes that it has filled in since

vars == <<cb, ret, reading, writing>>

NoRead == [from |-> 0, len |-> 0]
NoWrite == [from |-> 0, len |-> 0, filled |-> <<>>]

Destroyed(b) == [b EXCEPT !.buffer = <<>>, !.capacity = 0, !.head = 0, !.tail = 0, !.count = 0]

Least(x, y) == IF x < y THEN x ELSE y

Returned(n, data) == ret' = [n |-> n, data |-> data]

Init ==
    /\ cb = [buffer |-> <<>>, capacity |-> 0, head |-> 0, tail |-> 0, count |-> 0,
             overwrite |-> FALSE]
    /\ ret = [n |-> 0, data |-> <<>>]
    /\ reading = NoRead /\ writing = NoWrite

-----------------------------------------------------------------------------
(* Bytes in the ring.                                                      *)

\* The n bytes from index "from" on, around the end of the array.
Region(b, from, n) == [k \in 1 .. n |-> b.buffer[(from + k - 1) % b.capacity]]

Contents(b) == Region(b, b.head, b.count)

\* memcpy() of data to index "from".
Stored(b, from, data) ==
    [x \in DOMAIN b.buffer |->
        IF from <= x /\ x < from + Len(data) THEN data[x - from + 1] ELSE b.buffer[x]]

Overflow(b, n) == IF b.count + n > b.capacity THEN b.count + n - b.capacity ELSE 0

\* Mutant: the mode is not looked at.
Blocked_Never(b, n) == FALSE

\* A block of n bytes that the buffer has no room for, and may not make room for.
Blocked(b, n) == Overflow(b, n) > 0 /\ ~b.overwrite

\* Mutant: the oldest bytes are overwritten, but head stays.
BlockWritten_KeepsHead(b, data) ==
    LET n == Len(data)
    IN  [b EXCEPT !.buffer = Stored(b, b.tail, data),
                  !.tail = (@ + n) % b.capacity,
                  !.count = @ - Overflow(b, n) + n]

\* Mutant: the count grows although bytes were discarded.
BlockWritten_Overcounts(b, data) ==
    LET n == Len(data)
    IN  [b EXCEPT !.buffer = Stored(b, b.tail, data),
                  !.head = (@ + Overflow(b, n)) % b.capacity,
                  !.tail = (@ + n) % b.capacity,
                  !.count = @ + n]

\* One round of the loop of circular_buffer_write(): a block that ends at the end
\* of the array at the latest.
BlockWritten(b, data) ==
    LET n == Len(data)
    IN  [b EXCEPT !.buffer = Stored(b, b.tail, data),
                  !.head = (@ + Overflow(b, n)) % b.capacity,
                  !.tail = (@ + n) % b.capacity,
                  !.count = @ - Overflow(b, n) + n]

\* The block of the next round: up to the end of the array at most.
NextBlock(data, s) ==
    SubSeq(data, s.written + 1,
           s.written + Least(Len(data) - s.written, s.ring.capacity - s.ring.tail))

WriteRound(data, s) ==
    LET block == NextBlock(data, s)
    IN  IF s.written = Len(data) \/ Blocked(s.ring, Len(block))
        THEN s
        ELSE [ring |-> BlockWritten(s.ring, block), written |-> s.written + Len(block)]

\* The loop: after[i] is the buffer, and the number of bytes written, after i
\* rounds.  Every round writes a byte at least.
WriteLoop(b, data) ==
    LET after[i \in 0 .. Len(data)] ==
            IF i = 0 THEN [ring |-> b, written |-> 0] ELSE WriteRound(data, after[i - 1])
    IN  after[Len(data)]

Written(b, data) ==
    IF b.count = b.capacity /\ ~b.overwrite
    THEN [ring |-> b, written |-> 0]
    ELSE WriteLoop(b, data)

\* The loop of circular_buffer_copy(), over the blocks of the source.
SourceBlock(src, size, s) ==
    LET from == (src.head + s.written) % src.capacity
    IN  Region(src, from, Least(size - s.written, src.capacity - from))

CopyRound(src, size, s) ==
    LET w == Written(s.ring, SourceBlock(src, size, s))
    IN  IF s.written = size THEN s
        ELSE [ring |-> w.ring, written |-> s.written + w.written]

CopyLoop(b, src, size) ==
    LET after[i \in 0 .. size] ==
            IF i = 0 THEN [ring |-> b, written |-> 0] ELSE CopyRound(src, size, after[i - 1])
    IN  after[size]

Consumed(b, n) == [b EXCEPT !.head = (@ + n) % b.capacity, !.count = @ - n]

-----------------------------------------------------------------------------
(* The operations.                                                         *)

\* circular_buffer_init(), which fails when malloc() does.
CircularBufferInit(capacity, overwrite) ==
    /\ cb.capacity = 0
    /\ \/ /\ cb' = [buffer |-> [x \in 0 .. capacity - 1 |-> Junk], capacity |-> capacity,
                    head |-> 0, tail |-> 0, count |-> 0, overwrite |-> overwrite]
          /\ Returned(1, <<>>)
       \/ /\ Returned(0, <<>>)
          /\ UNCHANGED cb
    /\ UNCHANGED <<reading, writing>>

\* circular_buffer_destroy().
Destroy ==
    /\ cb.capacity > 0
    /\ cb' = Destroyed(cb)
    /\ reading' = NoRead /\ writing' = NoWrite
    /\ UNCHANGED ret

\* circular_buffer_clear().
Clear ==
    /\ cb' = [cb EXCEPT !.head = 0, !.tail = 0, !.count = 0]
    /\ reading' = NoRead /\ writing' = NoWrite
    /\ UNCHANGED ret

\* circular_buffer_write().
Write(data) ==
    /\ cb.capacity > 0 \/ ~cb.overwrite
    /\ cb' = Written(cb, data).ring
    /\ Returned(Written(cb, data).written, <<>>)
    /\ writing' = NoWrite
    /\ UNCHANGED reading

\* circular_buffer_copy() into this buffer.
Copy(src, size) ==
    /\ cb.capacity > 0
    /\ LET wanted == Least(size, src.count)
           copied == IF wanted > cb.capacity - cb.count /\ ~cb.overwrite
                     THEN cb.capacity - cb.count ELSE wanted
       IN  /\ cb' = CopyLoop(cb, src, copied).ring
           /\ Returned(CopyLoop(cb, src, copied).written, <<>>)
    /\ writing' = NoWrite
    /\ UNCHANGED reading

\* circular_buffer_read().
Read(size) ==
    LET n == Least(size, cb.count)
    IN  /\ cb' = IF n = 0 THEN cb ELSE Consumed(cb, n)
        /\ Returned(n, Region(cb, cb.head, n))
        /\ reading' = NoRead
        /\ UNCHANGED writing

\* circular_buffer_peek().
Peek(size, offset) ==
    LET n == IF offset >= cb.count THEN 0 ELSE Least(size, cb.count - offset)
    IN  /\ Returned(n, Region(cb, cb.head + offset, n))
        /\ UNCHANGED <<cb, reading, writing>>

\* circular_buffer_find(): the first place where the pattern is, or -1.
Find(pattern) ==
    LET places == {i \in 0 .. cb.count - Len(pattern) :
                      Region(cb, cb.head + i, Len(pattern)) = pattern}
    IN  /\ Returned(IF places = {} THEN -1
                    ELSE CHOOSE i \in places : \A j \in places : i <= j, <<>>)
        /\ UNCHANGED <<cb, reading, writing>>

\* circular_buffer_get_read_ptr().
GetReadPtr ==
    LET available == Least(cb.count, cb.capacity - cb.head)
    IN  /\ Returned(available, Region(cb, cb.head, available))
        /\ reading' = IF available = 0 THEN NoRead ELSE [from |-> cb.head, len |-> available]
        /\ UNCHANGED <<cb, writing>>

\* circular_buffer_advance_read().
AdvanceRead(size) ==
    /\ cb.capacity > 0
    /\ cb' = Consumed(cb, Least(size, cb.count))
    /\ reading' = NoRead
    /\ UNCHANGED <<ret, writing>>

\* Mutant: all of the array behind tail is offered.
WriteRoom_ToEnd(b) == b.capacity - b.tail

WriteRoom(b) == Least(b.capacity - b.tail, b.capacity - b.count)

\* circular_buffer_get_write_ptr().
GetWritePtr ==
    /\ Returned(WriteRoom(cb), <<>>)
    /\ writing' = IF cb.count = cb.capacity THEN NoWrite
                  ELSE [from |-> cb.tail, len |-> WriteRoom(cb), filled |-> <<>>]
    /\ UNCHANGED <<cb, reading>>

\* The producer writes through the pointer.
Fill(data) ==
    /\ Len(data) <= writing.len
    /\ cb' = [cb EXCEPT !.buffer = Stored(cb, writing.from, data)]
    /\ writing' = [writing EXCEPT !.filled = data]
    /\ UNCHANGED <<ret, reading>>

\* circular_buffer_advance_write().
AdvanceWrite(size) ==
    /\ cb.capacity > 0
    /\ LET n == Least(size, cb.capacity - cb.count)
       IN  cb' = [cb EXCEPT !.tail = (@ + n) % cb.capacity, !.count = @ + n]
    /\ writing' = NoWrite
    /\ UNCHANGED <<ret, reading>>

Next ==
    \/ \E capacity \in Capacities, overwrite \in BOOLEAN : CircularBufferInit(capacity, overwrite)
    \/ Destroy \/ Clear
    \/ \E data \in Data : Write(data) \/ Fill(data) \/ Find(data)
    \/ \E src \in Sources, size \in Sizes : Copy(src, size)
    \/ \E size \in Sizes : Read(size) \/ AdvanceRead(size) \/ AdvanceWrite(size)
    \/ \E size, offset \in Sizes : Peek(size, offset)
    \/ GetReadPtr \/ GetWritePtr

Spec == Init /\ [][Next]_vars

-----------------------------------------------------------------------------
(* Properties.                                                             *)

\* Type correctness; the indices stay inside the array, and agree with the count.
TypeOK ==
    /\ cb \in UNION {Ring(c) : c \in Capacities \union {0}}
    /\ cb.capacity > 0 => /\ cb.head < cb.capacity
                          /\ cb.tail = (cb.head + cb.count) % cb.capacity
    /\ ret.n \in Int /\ ret.data \in Seq(Bytes \union {Junk})

\* A consumer may go on using circular_buffer_get_read_ptr() while the producer
\* writes, commits or copies: unless the buffer overwrites, the bytes under the
\* pointer stay the oldest ones.
ReadWindowStable ==
    ~cb.overwrite =>
        /\ reading.len <= cb.count
        /\ \A k \in 0 .. reading.len - 1 : cb.buffer[reading.from + k] = Contents(cb)[k + 1]

\* What a producer has put through circular_buffer_get_write_ptr() is what
\* circular_buffer_advance_write() is going to append, whatever the consumer has
\* read since; the window never overlaps bytes that are still to be read.
WriteWindowStable ==
    writing.len > 0 =>
        /\ writing.from = cb.tail
        /\ cb.count + writing.len <= cb.capacity
        /\ \A k \in 1 .. Len(writing.filled) : cb.buffer[cb.tail + k - 1] = writing.filled[k]

\* The ring implements a queue of bytes.
Q == INSTANCE ByteQueue WITH
        room      <- cb.capacity,
        overwrite <- cb.overwrite,
        items     <- Contents(cb)

ImplementsByteQueue == Q!Spec
=============================================================================

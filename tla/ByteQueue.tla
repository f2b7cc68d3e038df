----------------------------- MODULE ByteQueue ------------------------------
(***************************************************************************)
(* What src/utils/circular_buffer.h promises: a bounded queue of bytes.    *)
(* Without overwriting, a write takes all of its bytes when they fit and   *)
(* some first part of them when they do not; with overwriting it takes all *)
(* and the oldest bytes go.                                                *)
(***************************************************************************)
EXTENDS Integers, Sequences

CONSTANTS Bytes, Junk, Capacities, Data, Sizes, Sources

VARIABLES
    room,       \* the capacity, 0 when there is no buffer
    overwrite,  \* whether a write may discard the oldest bytes
    items,      \* the bytes in the queue, oldest first
    ret         \* the number that the last call returned, the bytes it delivered

vars == <<room, overwrite, items, ret>>

First(s, n) == SubSeq(s, 1, n)
Last(s, n) == IF Len(s) <= n THEN s ELSE SubSeq(s, Len(s) - n + 1, Len(s))
AtMost(n, limit) == IF n < limit THEN n ELSE limit

Returned(n, data) == ret' = [n |-> n, data |-> data]

Init ==
    /\ room = 0 /\ overwrite = FALSE /\ items = <<>>
    /\ ret = [n |-> 0, data |-> <<>>]

Create ==
    /\ room = 0
    /\ \/ /\ room' \in Capacities /\ overwrite' \in BOOLEAN /\ items' = <<>>
          /\ Returned(1, <<>>)
       \/ /\ Returned(0, <<>>)
          /\ UNCHANGED <<room, overwrite, items>>

Destroy == room > 0 /\ room' = 0 /\ items' = <<>> /\ UNCHANGED <<overwrite, ret>>

Clear == items' = <<>> /\ UNCHANGED <<room, overwrite, ret>>

\* The first n bytes of data enter.
Enter(data, n) ==
    /\ overwrite \/ Len(items) + n <= room
    /\ items' = Last(items \o First(data, n), room)
    /\ Returned(n, <<>>)
    /\ UNCHANGED <<room, overwrite>>

Write(data) ==
    \E n \in 0 .. Len(data) :
        /\ overwrite \/ Len(items) + Len(data) <= room => n = Len(data)
        /\ Enter(data, n)

\* Nothing is cut off that fits.
Copy(data) ==
    Enter(data, IF overwrite THEN Len(data) ELSE AtMost(Len(data), room - Len(items)))

Read(size) ==
    LET n == AtMost(size, Len(items))
    IN  /\ items' = SubSeq(items, n + 1, Len(items))
        /\ Returned(n, First(items, n))
        /\ UNCHANGED <<room, overwrite>>

\* The bytes from "offset" on.
Peek(size, offset) ==
    LET n == AtMost(size, AtMost(Len(items) - offset, Len(items)))
    IN  /\ \/ n > 0 /\ Returned(n, SubSeq(items, offset + 1, offset + n))
           \/ n <= 0 /\ Returned(0, <<>>)
        /\ UNCHANGED <<room, overwrite, items>>

OccursAt(pattern, i) ==
    i + Len(pattern) <= Len(items) /\ SubSeq(items, i + 1, i + Len(pattern)) = pattern

Find(pattern) ==
    /\ \/ \E i \in 0 .. Len(items) :
             /\ OccursAt(pattern, i) /\ \A j \in 0 .. i - 1 : ~OccursAt(pattern, j)
             /\ Returned(i, <<>>)
       \/ /\ \A i \in 0 .. Len(items) : ~OccursAt(pattern, i)
          /\ Returned(-1, <<>>)
    /\ UNCHANGED <<room, overwrite, items>>

\* Direct access: some of the oldest bytes, at least one if there is any; a
\* place for some bytes, at least one if there is room; leaving; entering.
LookAt ==
    /\ \E n \in 0 .. Len(items) : (n = 0 <=> items = <<>>) /\ Returned(n, First(items, n))
    /\ UNCHANGED <<room, overwrite, items>>

Reserve ==
    /\ \E n \in 0 .. room - Len(items) : (n = 0 <=> Len(items) = room) /\ Returned(n, <<>>)
    /\ UNCHANGED <<room, overwrite, items>>

Leave(size) ==
    /\ items' = SubSeq(items, AtMost(size, Len(items)) + 1, Len(items))
    /\ UNCHANGED <<room, overwrite, ret>>

Commit(size) ==
    LET n == AtMost(size, room - Len(items))
    IN  /\ \E bytes \in [1 .. n -> Bytes \union {Junk}] : items' = items \o bytes
        /\ UNCHANGED <<room, overwrite, ret>>

SourceBytes(src) == [k \in 1 .. src.count |-> src.buffer[(src.head + k - 1) % src.capacity]]

Next ==
    \/ Create \/ Destroy \/ Clear \/ LookAt \/ Reserve
    \/ \E data \in Data : Write(data) \/ Find(data)
    \/ \E src \in Sources, size \in Sizes : Copy(First(SourceBytes(src), AtMost(size, src.count)))
    \/ \E size \in Sizes : Read(size) \/ Leave(size) \/ Commit(size)
    \/ \E size, offset \in Sizes : Peek(size, offset)

Spec == Init /\ [][Next]_vars
=============================================================================

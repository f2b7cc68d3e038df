----------------------- MODULE CircularBufferProofs ------------------------
(* Theorems about CircularBuffer, for every set of capacities, bytes, data   *)
(* and sizes.                                                                *)
EXTENDS CircularBuffer, LibraryLemmas

Byte == Bytes \union {Junk}

-----------------------------------------------------------------------------
(* Indices.  No index that the code computes reaches twice the capacity, so  *)
(* "% capacity" subtracts the capacity once or not at all.                   *)

Wrap(x, c) == IF x < c THEN x ELSE x - c

\* The remainder of an index below twice the capacity.
LEMMA Around ==
    ASSUME NEW c \in Nat \ {0}, NEW x \in 0 .. c + c - 1
    PROVE  x % c = Wrap(x, c) /\ Wrap(x, c) \in 0 .. c - 1
<1>1. x % c = Wrap(x, c)
  BY ONLY c \in Nat \ {0}, x \in 0 .. c + c - 1 DEF Wrap
<1> QED  BY <1>1 DEF Wrap

\* The bytes that a ring of q bytes has to discard before it takes n more.
Over(q, n, c) == IF q + n > c THEN q + n - c ELSE 0

\* Where the bytes of a ring of capacity c, with q bytes from h on, are after a block of n
\* bytes was put behind them: byte k is the old one that was "over" places further on, or
\* one of the block.
LEMMA BlockIndices ==
    ASSUME NEW c \in Nat \ {0}, NEW h \in 0 .. c - 1, NEW q \in 0 .. c,
           NEW n \in 1 .. c - Wrap(h + q, c)
    PROVE  LET t    == Wrap(h + q, c)
               over == Over(q, n, c)
               h2   == Wrap(h + over, c)
               q2   == q - over + n
           IN  /\ over \in 0 .. q /\ q2 \in 1 .. c /\ h2 \in 0 .. c - 1 /\ t \in 0 .. c - 1
               /\ Wrap(t + n, c) = Wrap(h2 + q2, c)
               /\ \A k \in 1 .. q2 :
                     LET x == Wrap(h2 + k - 1, c)
                     IN  /\ over + k <= q => /\ x = Wrap(h + (over + k) - 1, c)
                                             /\ ~(t <= x /\ x < t + n)
                         /\ over + k > q => x - t + 1 = over + k - q /\ t <= x /\ x < t + n
<1> DEFINE t    == Wrap(h + q, c)
           over == Over(q, n, c)
           h2   == Wrap(h + over, c)
           q2   == q - over + n
<1>1. t \in 0 .. c - 1 /\ (t = h + q \/ t = h + q - c)  BY DEF Wrap
<1>2. n \in 1 .. c - t  OBVIOUS
<1>3. over \in 0 .. q /\ q2 \in 1 .. c
  <2> HIDE DEF t
  <2> QED  BY <1>1, <1>2 DEF Over
<1>4. h2 \in 0 .. c - 1 /\ (h2 = h + over \/ h2 = h + over - c)
  <2> HIDE DEF over
  <2> QED  BY <1>3 DEF Wrap
<1>5. (over = 0 /\ q + n <= c) \/ (over = q + n - c /\ q + n > c)
  <2> HIDE DEF t
  <2> QED  BY <1>1, <1>2 DEF Over
<1>6. /\ q2 = q - over + n
      /\ (t = h + q /\ h + q < c) \/ (t = h + q - c /\ h + q >= c)
      /\ (h2 = h + over /\ h + over < c) \/ (h2 = h + over - c /\ h + over >= c)
  <2> HIDE DEF over
  <2> QED  BY <1>3 DEF Wrap
<1> HIDE DEF t, over, h2, q2
<1>7. Wrap(t + n, c) = Wrap(h2 + q2, c)
  BY <1>1, <1>2, <1>3, <1>4, <1>5, <1>6 DEF Wrap
<1>8. ASSUME NEW k \in 1 .. q2
      PROVE  LET x == Wrap(h2 + k - 1, c)
             IN  /\ over + k <= q => /\ x = Wrap(h + (over + k) - 1, c)
                                     /\ ~(t <= x /\ x < t + n)
                 /\ over + k > q => x - t + 1 = over + k - q /\ t <= x /\ x < t + n
  BY <1>1, <1>2, <1>3, <1>4, <1>5, <1>6 DEF Wrap
<1> QED  BY <1>1, <1>3, <1>4, <1>7, <1>8 DEF t, over, h2, q2

-----------------------------------------------------------------------------
(* Rings.                                                                    *)

\* A circular_buffer_t that is not destroyed, with indices that agree with its count.
Sound(b) ==
    /\ b.capacity \in Nat \ {0} /\ b \in Ring(b.capacity)
    /\ b.head < b.capacity
    /\ b.tail = (b.head + b.count) % b.capacity

\* The fields of a sound ring.
LEMMA SoundFields ==
    ASSUME NEW b, Sound(b)
    PROVE  /\ b.capacity \in Nat \ {0} /\ b.head \in 0 .. b.capacity - 1
           /\ b.count \in 0 .. b.capacity /\ b.overwrite \in BOOLEAN
           /\ b.tail = Wrap(b.head + b.count, b.capacity) /\ b.tail \in 0 .. b.capacity - 1
           /\ b.buffer \in [0 .. b.capacity - 1 -> Byte]
           /\ b = [buffer |-> b.buffer, capacity |-> b.capacity, head |-> b.head,
                   tail |-> b.tail, count |-> b.count, overwrite |-> b.overwrite]
<1>1. /\ b.capacity \in Nat \ {0} /\ b.head \in 0 .. b.capacity /\ b.count \in 0 .. b.capacity
      /\ b.overwrite \in BOOLEAN /\ b.buffer \in [0 .. b.capacity - 1 -> Byte]
      /\ b = [buffer |-> b.buffer, capacity |-> b.capacity, head |-> b.head,
              tail |-> b.tail, count |-> b.count, overwrite |-> b.overwrite]
  BY DEF Sound, Ring, Byte
<1>2. b.head \in 0 .. b.capacity - 1 /\ b.tail = (b.head + b.count) % b.capacity
  BY <1>1 DEF Sound
<1> DEFINE x == b.head + b.count
           c == b.capacity
<1>3. x \in 0 .. c + c - 1 /\ c \in Nat \ {0}  BY <1>1, <1>2
<1> HIDE DEF x, c
<1>4. x % c = Wrap(x, c) /\ Wrap(x, c) \in 0 .. c - 1  BY <1>3, Around
<1> QED  BY <1>1, <1>2, <1>4 DEF x, c

\* What a record has to be to be a sound ring.
LEMMA IsSound ==
    ASSUME NEW c \in Nat \ {0}, NEW buffer \in [0 .. c - 1 -> Byte], NEW h \in 0 .. c - 1,
           NEW q \in 0 .. c, NEW overwrite \in BOOLEAN
    PROVE  Sound([buffer |-> buffer, capacity |-> c, head |-> h, tail |-> Wrap(h + q, c),
                  count |-> q, overwrite |-> overwrite])
<1> DEFINE x == h + q
           b == [buffer |-> buffer, capacity |-> c, head |-> h, tail |-> Wrap(x, c),
                 count |-> q, overwrite |-> overwrite]
<1>1. x \in 0 .. c + c - 1  OBVIOUS
<1>2. x % c = Wrap(x, c) /\ Wrap(x, c) \in 0 .. c - 1
  <2> HIDE DEF x
  <2> QED  BY <1>1, Around
<1>3. h \in 0 .. c /\ Wrap(x, c) \in 0 .. c /\ h < c
  <2> HIDE DEF x
  <2> QED  BY <1>2
<1>4. b \in Ring(c)
  <2> HIDE DEF x
  <2> QED  BY <1>3 DEF Ring, Byte
<1>5. b.tail = (b.head + b.count) % b.capacity  BY <1>2
<1> QED  BY <1>3, <1>4, <1>5 DEF Sound

\* A ring whose bytes can be read, whatever its indices are.
Readable(b) == b.capacity \in Nat \ {0} /\ b.buffer \in [0 .. b.capacity - 1 -> Byte]

\* The bytes of a ring from an index on.
LEMMA RegionIs ==
    ASSUME NEW b, Readable(b), NEW from \in Nat, NEW n \in Nat, from + n <= b.capacity + b.capacity
    PROVE  /\ Region(b, from, n) \in Seq(Byte) /\ Len(Region(b, from, n)) = n
           /\ \A k \in 1 .. n :
                 /\ Wrap(from + k - 1, b.capacity) \in 0 .. b.capacity - 1
                 /\ Region(b, from, n)[k] = b.buffer[Wrap(from + k - 1, b.capacity)]
                 /\ Region(b, from, n)[k] \in Byte
<1> DEFINE c == b.capacity
           r == Region(b, from, n)
<1>1. c \in Nat \ {0} /\ b.buffer \in [0 .. c - 1 -> Byte]  BY DEF Readable
<1>2. r = [k \in 1 .. n |-> b.buffer[(from + k - 1) % c]]  BY DEF Region
<1>3. ASSUME NEW k \in 1 .. n
      PROVE  /\ (from + k - 1) % c = Wrap(from + k - 1, c)
             /\ Wrap(from + k - 1, c) \in 0 .. c - 1
  <2> DEFINE x == from + k - 1
  <2>1. x \in 0 .. c + c - 1
    <3> HIDE DEF c
    <3>1. from + n <= c + c  BY DEF c
    <3> QED  BY <1>1, <3>1
  <2> HIDE DEF c, x
  <2>2. x % c = Wrap(x, c) /\ Wrap(x, c) \in 0 .. c - 1  BY <1>1, <2>1, Around
  <2> QED  BY <2>2 DEF x
<1> HIDE DEF r, c
<1>4. \A k \in 1 .. n : /\ Wrap(from + k - 1, c) \in 0 .. c - 1
                        /\ r[k] = b.buffer[Wrap(from + k - 1, c)] /\ r[k] \in Byte
  BY <1>1, <1>2, <1>3
<1>5. r \in [1 .. n -> Byte]  BY <1>2, <1>4
<1>6. r \in Seq(Byte) /\ Len(r) = n  BY <1>5, FunctionIsSeq
<1> QED  BY <1>4, <1>6 DEF r, c

\* The bytes to be read.
LEMMA ContentsIs ==
    ASSUME NEW b, Sound(b)
    PROVE  /\ Contents(b) \in Seq(Byte) /\ Len(Contents(b)) = b.count
           /\ \A k \in 1 .. b.count :
                 /\ Wrap(b.head + k - 1, b.capacity) \in 0 .. b.capacity - 1
                 /\ Contents(b)[k] = b.buffer[Wrap(b.head + k - 1, b.capacity)]
                 /\ Contents(b)[k] \in Byte
<1>1. /\ b.capacity \in Nat \ {0} /\ b.head \in 0 .. b.capacity - 1
      /\ b.count \in 0 .. b.capacity
  BY SoundFields
<1>2. b.head \in Nat /\ b.count \in Nat /\ b.head + b.count <= b.capacity + b.capacity
  BY <1>1
<1>3. Readable(b)  BY SoundFields DEF Readable
<1> QED  BY <1>2, <1>3, RegionIs, Zenon DEF Contents

\* The array after memcpy().
LEMMA StoredIs ==
    ASSUME NEW b, Sound(b), NEW data \in Seq(Byte), NEW from \in Nat,
           from + Len(data) <= b.capacity
    PROVE  /\ Stored(b, from, data) \in [0 .. b.capacity - 1 -> Byte]
           /\ \A x \in 0 .. b.capacity - 1 :
                 Stored(b, from, data)[x] =
                     IF from <= x /\ x < from + Len(data) THEN data[x - from + 1] ELSE b.buffer[x]
<1> DEFINE c == b.capacity
           s == Stored(b, from, data)
           n == Len(data)
<1>1. c \in Nat \ {0} /\ b.buffer \in [0 .. c - 1 -> Byte]  BY SoundFields
<1>2. n \in Nat /\ \A i \in 1 .. n : data[i] \in Byte  BY LenProperties, ElementOfSeq
<1>3. s = [x \in 0 .. c - 1 |->
              IF from <= x /\ x < from + n THEN data[x - from + 1] ELSE b.buffer[x]]
  BY <1>1 DEF Stored
<1> HIDE DEF s, c, n
<1>4. \A x \in 0 .. c - 1 : from <= x /\ x < from + n => x - from + 1 \in 1 .. n
  BY <1>1, <1>2
<1>5. s \in [0 .. c - 1 -> Byte]  BY <1>1, <1>2, <1>3, <1>4
<1> QED  BY <1>3, <1>5 DEF s, c, n

\* The bytes that a block of data pushes out of a ring.
Lost(b, data) == Over(b.count, Len(data), b.capacity)

\* One round of circular_buffer_write(): the block goes behind the bytes of the ring, and
\* the oldest ones go if they have to.
LEMMA BlockEffect ==
    ASSUME NEW b, Sound(b), NEW data \in Seq(Byte), Len(data) \in 1 .. b.capacity - b.tail
    PROVE  LET r == BlockWritten(b, data)
           IN  /\ Sound(r) /\ r.capacity = b.capacity /\ r.overwrite = b.overwrite
               /\ Lost(b, data) \in 0 .. b.count
               /\ Lost(b, data) = 0 => r.head = b.head
               /\ r.count = b.count - Lost(b, data) + Len(data)
               /\ \A k \in 1 .. r.count :
                     Contents(r)[k] = IF Lost(b, data) + k <= b.count
                                      THEN Contents(b)[Lost(b, data) + k]
                                      ELSE data[Lost(b, data) + k - b.count]
<1> DEFINE c == b.capacity
           h == b.head
           q == b.count
           n == Len(data)
           t == Wrap(h + q, c)
           over == Over(q, n, c)
           h2 == Wrap(h + over, c)
           q2 == q - over + n
           buffer == Stored(b, t, data)
           r == BlockWritten(b, data)
<1>1. /\ c \in Nat \ {0} /\ h \in 0 .. c - 1 /\ q \in 0 .. c /\ b.overwrite \in BOOLEAN
      /\ b.tail = t
      /\ b = [buffer |-> b.buffer, capacity |-> c, head |-> h, tail |-> t, count |-> q,
              overwrite |-> b.overwrite]
  BY SoundFields
<1>2. n \in 1 .. c - t  BY <1>1
<1>3. /\ over \in 0 .. q /\ q2 \in 1 .. c /\ h2 \in 0 .. c - 1 /\ t \in 0 .. c - 1
      /\ Wrap(t + n, c) = Wrap(h2 + q2, c)
      /\ \A k \in 1 .. q2 :
            LET x == Wrap(h2 + k - 1, c)
            IN  /\ over + k <= q => /\ x = Wrap(h + (over + k) - 1, c)
                                    /\ ~(t <= x /\ x < t + n)
                /\ over + k > q => x - t + 1 = over + k - q /\ t <= x /\ x < t + n
  <2> HIDE DEF c, h, q, n
  <2> QED  BY <1>1, <1>2, BlockIndices
<1>4. (h + over) % c = h2 /\ (t + n) % c = Wrap(t + n, c)
  <2> DEFINE x == h + over
             y == t + n
  <2>1. x \in 0 .. c + c - 1 /\ y \in 0 .. c + c - 1
    <3>1. /\ c \in Nat \ {0} /\ h \in 0 .. c - 1 /\ q \in 0 .. c /\ over \in 0 .. q
          /\ t \in 0 .. c - 1 /\ n \in 1 .. c - t
      <4> HIDE DEF t, over, n, c, h, q
      <4> QED  BY <1>1, <1>2, <1>3
    <3> HIDE DEF t, over, n, c, h, q
    <3> QED  BY <3>1
  <2> HIDE DEF x, y, c
  <2>2. x % c = Wrap(x, c) /\ y % c = Wrap(y, c)  BY <1>1, <2>1, Around
  <2> QED  BY <2>2 DEF x, y
<1>5. Overflow(b, n) = over  BY DEF Overflow, Over
<1>6. r = [buffer |-> buffer, capacity |-> c, head |-> h2, tail |-> Wrap(h2 + q2, c),
           count |-> q2, overwrite |-> b.overwrite]
  <2>1. r = [b EXCEPT !.buffer = buffer, !.head = h2, !.tail = Wrap(h2 + q2, c), !.count = q2]
    <3>1. r = [b EXCEPT !.buffer = Stored(b, b.tail, data), !.head = (b.head + over) % b.capacity,
                        !.tail = (b.tail + n) % b.capacity, !.count = b.count - over + n]
      <4> HIDE DEF over, n
      <4> QED  BY <1>5 DEF BlockWritten, n
    <3>2. /\ Stored(b, b.tail, data) = buffer /\ (b.head + over) % b.capacity = h2
          /\ (b.tail + n) % b.capacity = Wrap(h2 + q2, c) /\ b.count - over + n = q2
      <4> HIDE DEF over, n, t, h2
      <4> QED  BY <1>1, <1>3, <1>4
    <3> HIDE DEF over, n, t, h2, q2, buffer, r, c
    <3> QED  BY <3>1, <3>2
  <2> DEFINE w == Wrap(h2 + q2, c)
             a == b.buffer
             m == b.overwrite
  <2>2. r = [b EXCEPT !.buffer = buffer, !.head = h2, !.tail = w, !.count = q2]  BY <2>1
  <2>3. b = [buffer |-> a, capacity |-> c, head |-> h, tail |-> t, count |-> q, overwrite |-> m]
    BY <1>1
  <2> HIDE DEF r, buffer, h2, q2, over, n, t, c, h, q, w, a, m
  <2>4. r = [buffer |-> buffer, capacity |-> c, head |-> h2, tail |-> w, count |-> q2,
             overwrite |-> m]
    BY <2>2, <2>3
  <2> QED  BY <2>4 DEF w, m
<1>7. /\ t + n <= c /\ t \in Nat
  <2> HIDE DEF t, n, c
  <2> QED  BY <1>1, <1>2, <1>3, SMTT(30)
<1>8. /\ buffer \in [0 .. c - 1 -> Byte]
      /\ \A x \in 0 .. c - 1 :
            buffer[x] = IF t <= x /\ x < t + n THEN data[x - t + 1] ELSE b.buffer[x]
  <2> HIDE DEF t
  <2> QED  BY <1>7, StoredIs
<1> HIDE DEF c, h, q, n, t, over, h2, q2, buffer, r
<1>9. Sound(r)
  <2>1. q2 \in 0 .. c  BY <1>1, <1>3
  <2>2. Sound([buffer |-> buffer, capacity |-> c, head |-> h2, tail |-> Wrap(h2 + q2, c),
               count |-> q2, overwrite |-> b.overwrite])
    BY <1>1, <1>3, <1>8, <2>1, IsSound
  <2> QED  BY <1>6, <2>2
<1>10. /\ r.capacity = c /\ r.overwrite = b.overwrite /\ r.count = q2 /\ r.head = h2
       /\ r.buffer = buffer
  BY <1>6
<1>11. over = 0 => h2 = h
  BY <1>1 DEF h2, Wrap
<1>12. ASSUME NEW k \in 1 .. q2
       PROVE  Contents(r)[k] = IF over + k <= q THEN Contents(b)[over + k] ELSE data[over + k - q]
  <2> DEFINE x == Wrap(h2 + k - 1, c)
  <2>1. x \in 0 .. c - 1 /\ Contents(r)[k] = buffer[x]
    BY <1>9, <1>10, ContentsIs
  <2>2. CASE over + k <= q
    <3> DEFINE i == over + k
    <3>1. i \in 1 .. q  BY <1>1, <1>3, <2>2, SMTT(30)
    <3>2. x = Wrap(h + i - 1, c) /\ ~(t <= x /\ x < t + n)  BY <1>3, <2>2
    <3>3. buffer[x] = b.buffer[x]  BY <1>8, <2>1, <3>2
    <3> HIDE DEF i, x
    <3>4. Contents(b)[i] = b.buffer[Wrap(h + i - 1, c)]  BY <3>1, ContentsIs DEF h, q, c
    <3> QED  BY <2>1, <2>2, <3>2, <3>3, <3>4 DEF i
  <2>3. CASE over + k > q
    <3>1. x - t + 1 = over + k - q /\ t <= x /\ x < t + n  BY <1>3, <2>3
    <3> HIDE DEF x
    <3>2. buffer[x] = data[over + k - q]  BY <1>8, <2>1, <3>1
    <3>3. ~(over + k <= q)  BY <1>1, <1>3, <2>3
    <3> QED  BY <2>1, <3>2, <3>3
  <2>4. over + k <= q \/ over + k > q  BY <1>1, <1>3
  <2> QED  BY <2>2, <2>3, <2>4
<1> QED  BY <1>3, <1>9, <1>10, <1>11, <1>12 DEF Lost, c, h, q, n, over, h2, q2, r

-----------------------------------------------------------------------------
(* What a ring holds after bytes were put behind the ones that it had.       *)

\* Byte i of the bytes of a ring with data behind them.
Item(b, data, i) == IF i <= b.count THEN Contents(b)[i] ELSE data[i - b.count]

\* r is the ring b after the first w bytes of data were written to it: it keeps the last of
\* all the bytes, as many as there is room for, and all of them unless it overwrites.
Appended(b, data, w, r) ==
    /\ Sound(r) /\ r.capacity = b.capacity /\ r.overwrite = b.overwrite
    /\ r.count = Least(b.count + w, b.capacity)
    /\ \A k \in 1 .. r.count : Contents(r)[k] = Item(b, data, b.count + w - r.count + k)
    /\ ~b.overwrite => r.head = b.head /\ b.count + w <= b.capacity

\* block is what data has after its first w bytes.
IsPart(data, w, block) == \A i \in 1 .. Len(block) : block[i] = data[w + i]

LEMMA AppendedNothing ==
    ASSUME NEW b, Sound(b), NEW data PROVE Appended(b, data, 0, b)
<1>1. b.count \in 0 .. b.capacity /\ b.capacity \in Nat \ {0}  BY SoundFields
<1>2. b.count = Least(b.count + 0, b.capacity)
      /\ \A k \in 1 .. b.count : b.count + 0 - b.count + k = k /\ k <= b.count
  BY <1>1 DEF Least
<1>3. b.count + 0 <= b.capacity  BY <1>1
<1>4. \A k \in 1 .. b.count : Contents(b)[k] = Item(b, data, b.count + 0 - b.count + k)
  BY <1>2 DEF Item
<1> QED  BY <1>2, <1>3, <1>4 DEF Appended

\* Where byte k of a ring is among all that were written, when w bytes came after the first
\* q, and n more after these.
LEMMA AppendedIndices ==
    ASSUME NEW c \in Nat \ {0}, NEW q \in 0 .. c, NEW w \in Nat, NEW n \in Nat
    PROVE  LET q1 == Least(q + w, c)
               q2 == Least(q1 + n, c)
           IN  /\ q1 \in 0 .. c /\ q2 \in 0 .. c /\ q2 = Least(q + (w + n), c)
               /\ \A k \in 1 .. q2 :
                     LET j == q1 + n - q2 + k
                         i == q + (w + n) - q2 + k
                     IN  /\ j \in 1 .. q1 + n
                         /\ j <= q1 => j \in 1 .. q1 /\ q + w - q1 + j = i
                         /\ ~(j <= q1) => j - q1 \in 1 .. n /\ ~(i <= q) /\ i - q = w + (j - q1)
               /\ q1 + n <= c /\ q + w <= c => q + (w + n) <= c
<1> DEFINE q1 == Least(q + w, c)
           q2 == Least(q1 + n, c)
<1>1. (q1 = q + w /\ q + w < c) \/ (q1 = c /\ q + w >= c)  BY DEF Least
<1>2. q1 \in 0 .. c  BY DEF Least
<1>3. (q2 = q1 + n /\ q1 + n < c) \/ (q2 = c /\ q1 + n >= c)
  <2> HIDE DEF q1
  <2> QED  BY <1>2 DEF Least
<1> HIDE DEF q1, q2
<1>4. q2 \in 0 .. c /\ q2 = Least(q + (w + n), c)  BY <1>1, <1>2, <1>3 DEF Least
<1>5. ASSUME NEW k \in 1 .. q2
      PROVE  LET j == q1 + n - q2 + k
                 i == q + (w + n) - q2 + k
             IN  /\ j \in 1 .. q1 + n
                 /\ j <= q1 => j \in 1 .. q1 /\ q + w - q1 + j = i
                 /\ ~(j <= q1) => j - q1 \in 1 .. n /\ ~(i <= q) /\ i - q = w + (j - q1)
  BY <1>1, <1>2, <1>3, <1>4
<1>6. q1 + n <= c /\ q + w <= c => q + (w + n) <= c  BY <1>1
<1> QED  BY <1>2, <1>4, <1>5, <1>6 DEF q1, q2

\* What was written in two parts was written.
LEMMA AppendedTwice ==
    ASSUME NEW b, Sound(b), NEW data, NEW w \in Nat, NEW r, Appended(b, data, w, r),
           NEW block \in Seq(Byte), IsPart(data, w, block),
           NEW r2, Appended(r, block, Len(block), r2)
    PROVE  Appended(b, data, w + Len(block), r2)
<1> DEFINE c == b.capacity
           q == b.count
           n == Len(block)
           q1 == Least(q + w, c)
           q2 == Least(q1 + n, c)
<1>1. c \in Nat \ {0} /\ q \in 0 .. c /\ n \in Nat  BY SoundFields, LenProperties
<1>2. /\ Sound(r) /\ r.capacity = c /\ r.overwrite = b.overwrite /\ r.count = q1
      /\ \A k \in 1 .. q1 : Contents(r)[k] = Item(b, data, q + w - q1 + k)
      /\ ~b.overwrite => r.head = b.head /\ q + w <= c
  <2>1. r.count = q1  BY DEF Appended
  <2> HIDE DEF q1
  <2> QED  BY <2>1 DEF Appended
<1>3. /\ Sound(r2) /\ r2.capacity = c /\ r2.overwrite = b.overwrite /\ r2.count = q2
      /\ \A k \in 1 .. q2 : Contents(r2)[k] = Item(r, block, q1 + n - q2 + k)
      /\ ~b.overwrite => r2.head = r.head /\ q1 + n <= c
  <2> HIDE DEF q1
  <2>1. r2.count = q2  BY <1>2 DEF Appended
  <2> HIDE DEF q2
  <2> QED  BY <1>2, <2>1 DEF Appended
<1>4. /\ q1 \in 0 .. c /\ q2 \in 0 .. c /\ q2 = Least(q + (w + n), c)
      /\ \A k \in 1 .. q2 :
            LET j == q1 + n - q2 + k
                i == q + (w + n) - q2 + k
            IN  /\ j \in 1 .. q1 + n
                /\ j <= q1 => j \in 1 .. q1 /\ q + w - q1 + j = i
                /\ ~(j <= q1) => j - q1 \in 1 .. n /\ ~(i <= q) /\ i - q = w + (j - q1)
      /\ q1 + n <= c /\ q + w <= c => q + (w + n) <= c
  <2> HIDE DEF c, q, n
  <2> QED  BY <1>1, AppendedIndices
<1> HIDE DEF q1, q2
<1>5. ASSUME NEW k \in 1 .. q2
      PROVE  Contents(r2)[k] = Item(b, data, q + (w + n) - q2 + k)
  <2> DEFINE j == q1 + n - q2 + k
             i == q + (w + n) - q2 + k
  <2>1. Contents(r2)[k] = Item(r, block, j)  BY <1>3
  <2>2. CASE j <= q1
    <3>1. j \in 1 .. q1 /\ q + w - q1 + j = i  BY <1>4, <2>2
    <3> HIDE DEF j, i
    <3>2. Item(r, block, j) = Contents(r)[j]  BY <1>2, <2>2 DEF Item
    <3> QED  BY <1>2, <2>1, <3>1, <3>2 DEF i
  <2>3. CASE ~(j <= q1)
    <3>1. j - q1 \in 1 .. n /\ ~(i <= q) /\ i - q = w + (j - q1)  BY <1>4, <2>3
    <3> HIDE DEF j, i
    <3>2. Item(r, block, j) = block[j - q1] /\ Item(b, data, i) = data[i - q]
      BY <1>2, <2>3, <3>1 DEF Item
    <3>3. block[j - q1] = data[w + (j - q1)]  BY <3>1 DEF IsPart
    <3> QED  BY <2>1, <3>1, <3>2, <3>3 DEF i
  <2> QED  BY <2>2, <2>3
<1>6. ~b.overwrite => r2.head = b.head /\ q + (w + n) <= c  BY <1>2, <1>3, <1>4
<1>7. r2.count = Least(q + (w + n), c)  BY <1>3, <1>4
<1> QED  BY <1>3, <1>5, <1>6, <1>7 DEF Appended

\* A round of the loop of circular_buffer_write() appends its block.
LEMMA AppendedBlock ==
    ASSUME NEW b, Sound(b), NEW data \in Seq(Byte), Len(data) \in 1 .. b.capacity - b.tail,
           ~Blocked(b, Len(data))
    PROVE  Appended(b, data, Len(data), BlockWritten(b, data))
<1> DEFINE c == b.capacity
           q == b.count
           n == Len(data)
           over == Lost(b, data)
           r == BlockWritten(b, data)
<1>1. /\ c \in Nat \ {0} /\ q \in 0 .. c /\ b.overwrite \in BOOLEAN
      /\ b.tail \in 0 .. c - 1
  BY SoundFields
<1>2. n \in 1 .. c  BY <1>1
<1>3. /\ Sound(r) /\ r.capacity = c /\ r.overwrite = b.overwrite
      /\ over \in 0 .. q
      /\ over = 0 => r.head = b.head
      /\ r.count = q - over + n
      /\ \A k \in 1 .. r.count :
            Contents(r)[k] = IF over + k <= q THEN Contents(b)[over + k] ELSE data[over + k - q]
  BY BlockEffect
<1>4. over = Over(q, n, c) /\ (~b.overwrite => over = 0)
  <2>1. over = Over(q, n, c) /\ Overflow(b, n) = over  BY DEF Lost, Overflow, Over
  <2>2. ~(over > 0 /\ ~b.overwrite)
    <3> HIDE DEF over
    <3> QED  BY <2>1 DEF Blocked
  <2> HIDE DEF over, q, n, c
  <2> QED  BY <1>1, <1>3, <2>1, <2>2
<1> HIDE DEF over, n, q, c, r
<1>5. r.count = Least(q + n, c) /\ (~b.overwrite => q + n <= c)
  BY <1>1, <1>2, <1>3, <1>4 DEF Least, Over
<1>6. r.count \in Nat /\ \A k \in 1 .. r.count : q + n - r.count + k = over + k
  BY <1>1, <1>2, <1>3
<1>7. ASSUME NEW k \in 1 .. r.count
      PROVE  Contents(r)[k] = Item(b, data, q + n - r.count + k)
  <2>1. Contents(r)[k] = IF over + k <= q THEN Contents(b)[over + k] ELSE data[over + k - q]
    BY <1>3
  <2>2. q = b.count  BY DEF q
  <2>3. Contents(r)[k] = Item(b, data, over + k)
    <3>1. CASE over + k <= q  BY <1>1, <1>3, <2>1, <2>2, <3>1 DEF Item
    <3>2. CASE ~(over + k <= q)  BY <1>1, <1>3, <2>1, <2>2, <3>2 DEF Item
    <3> QED  BY <3>1, <3>2
  <2> QED  BY <1>6, <2>3
<1> QED  BY <1>3, <1>4, <1>5, <1>7 DEF Appended, c, q, n, r

-----------------------------------------------------------------------------
(* circular_buffer_write().                                                  *)

\* The states of the loop: the ring holds what was written so far.
WriteStates(b, data) ==
    {s \in [ring : Ring(b.capacity), written : 0 .. Len(data)] :
        Appended(b, data, s.written, s.ring)}

\* The loop is over.
Ends(data, s) == s.written = Len(data) \/ Blocked(s.ring, Len(NextBlock(data, s)))

\* The block of a round is not empty, and does not reach around the end of the array.
LEMMA BlockIs ==
    ASSUME NEW data \in Seq(Byte), NEW s, Sound(s.ring), s.written \in 0 .. Len(data),
           s.written # Len(data)
    PROVE  /\ NextBlock(data, s) \in Seq(Byte)
           /\ Len(NextBlock(data, s)) \in 1 .. s.ring.capacity - s.ring.tail
           /\ s.written + Len(NextBlock(data, s)) \in 1 .. Len(data)
           /\ IsPart(data, s.written, NextBlock(data, s))
<1> DEFINE w == s.written
           x == Len(data) - w
           y == s.ring.capacity - s.ring.tail
           m == Least(x, y)
<1>1. w \in Nat /\ x \in Nat \ {0} /\ y \in Nat \ {0} /\ w + x = Len(data)
  <2>1. s.ring.capacity \in Nat \ {0} /\ s.ring.tail \in 0 .. s.ring.capacity - 1
    BY SoundFields
  <2> DEFINE n == Len(data)
             c == s.ring.capacity
             t == s.ring.tail
  <2>2. n \in Nat /\ w \in 0 .. n /\ w # n  BY LenProperties
  <2>3. c \in Nat \ {0} /\ t \in 0 .. c - 1  BY <2>1
  <2> HIDE DEF n, c, t, w
  <2>4. w \in Nat /\ n - w \in Nat \ {0} /\ c - t \in Nat \ {0} /\ w + (n - w) = n
    BY <2>2, <2>3
  <2> QED  BY <2>4 DEF n, c, t
<1>2. m \in Nat \ {0} /\ m <= x /\ m <= y
  <2> HIDE DEF x, y
  <2> QED  BY <1>1 DEF Least
<1> HIDE DEF m, w, x, y
<1>3. m \in 1 .. y /\ m \in Nat /\ w + m \in 1 .. Len(data) /\ w + m <= Len(data)
  BY <1>1, <1>2
<1> DEFINE block == SubSeq(data, w + 1, w + m)
<1>4. /\ block \in Seq(Byte) /\ Len(block) = m
      /\ \A i \in 1 .. m : block[i] = data[w + i]
  BY <1>1, <1>3, PartOf
<1>5. NextBlock(data, s) = block  BY Zenon DEF NextBlock, block, m, w, x, y
<1> HIDE DEF block
<1> QED  BY <1>3, <1>4, <1>5 DEF IsPart, w, y

\* A round stays in these states, and the loop is over or the round writes something.
LEMMA RoundEffect ==
    ASSUME NEW b, Sound(b), NEW data \in Seq(Byte), NEW s \in WriteStates(b, data)
    PROVE  /\ WriteRound(data, s) \in WriteStates(b, data)
           /\ IF Ends(data, s) THEN WriteRound(data, s) = s
              ELSE WriteRound(data, s).written > s.written
<1> DEFINE block == NextBlock(data, s)
           r == BlockWritten(s.ring, block)
           n == s.written + Len(block)
<1>1. /\ s.written \in 0 .. Len(data) /\ Appended(b, data, s.written, s.ring)
      /\ Sound(s.ring) /\ s.ring.capacity = b.capacity
  BY DEF WriteStates, Appended
<1>2. CASE Ends(data, s)
  <2>1. WriteRound(data, s) = s  BY <1>2, Zenon DEF WriteRound, Ends
  <2> QED  BY <1>2, <2>1
<1>3. CASE ~Ends(data, s)
  <2>1. WriteRound(data, s) = [ring |-> r, written |-> n] /\ s.written # Len(data)
        /\ ~Blocked(s.ring, Len(block))
    BY <1>3, Zenon DEF WriteRound, Ends
  <2>2. /\ block \in Seq(Byte) /\ Len(block) \in 1 .. s.ring.capacity - s.ring.tail
        /\ n \in 1 .. Len(data) /\ IsPart(data, s.written, block)
    BY <1>1, <2>1, BlockIs
  <2>3. Appended(s.ring, block, Len(block), r)
    <3> HIDE DEF block
    <3> QED  BY <1>1, <2>1, <2>2, AppendedBlock
  <2>4. Appended(b, data, n, r)
    <3>1. s.written \in Nat  BY <1>1
    <3> DEFINE ring == s.ring
               w == s.written
    <3>2. w \in Nat /\ Appended(b, data, w, ring) /\ IsPart(data, w, block)
          /\ Appended(ring, block, Len(block), r)
      BY <1>1, <2>2, <2>3, <3>1
    <3> HIDE DEF r, block, ring, w
    <3>3. Appended(b, data, w + Len(block), r)  BY <2>2, <3>2, AppendedTwice
    <3> QED  BY <3>3 DEF w
  <2>5. n > s.written
    <3> HIDE DEF block
    <3> QED  BY <1>1, <2>2
  <2>6. r \in Ring(b.capacity)  BY <2>4 DEF Appended, Sound
  <2>7. n \in 0 .. Len(data)
    <3> HIDE DEF n
    <3> QED  BY <2>2
  <2> HIDE DEF r, n
  <2>8. [ring |-> r, written |-> n] \in WriteStates(b, data)
    BY <2>4, <2>6, <2>7 DEF WriteStates
  <2> QED  BY <1>3, <2>1, <2>5, <2>8
<1> QED  BY <1>2, <1>3

\* f[i] is the state of the loop after i rounds.
Rounds(f, b, data) ==
    /\ f \in [0 .. Len(data) -> WriteStates(b, data)]
    /\ \A i \in 1 .. Len(data) : f[i] = WriteRound(data, f[i - 1])

\* The recursion of WriteLoop is these rounds.
LEMMA WriteLoopRuns ==
    ASSUME NEW b, Sound(b), NEW data \in Seq(Byte)
    PROVE  \E f : Rounds(f, b, data) /\ WriteLoop(b, data) = f[Len(data)]
<1> DEFINE n == Len(data)
           S == WriteStates(b, data)
           z == [ring |-> b, written |-> 0]
           Rec(f) == f = [i \in 0 .. n |-> IF i = 0 THEN z ELSE WriteRound(data, f[i - 1])]
           Step == [p \in (1 .. n) \X S |-> WriteRound(data, p[2])]
<1>1. n \in Nat /\ 0 \in 0 .. n /\ \A i \in 1 .. n : i - 1 \in 0 .. n /\ i \in 0 .. n /\ i # 0
  BY LenProperties
<1>2. z \in S
  <2>1. Appended(b, data, 0, b) /\ b \in Ring(b.capacity)  BY AppendedNothing DEF Sound
  <2> QED  BY <1>1, <2>1 DEF WriteStates
<1>3. \A s \in S : WriteRound(data, s) \in S  BY RoundEffect
<1> HIDE DEF S, z, n
<1>4. Step \in [(1 .. n) \X S -> S]  BY <1>3
<1>5. PICK f : IsLoop(f, S, n, z, Step)
  <2> HIDE DEF Step
  <2> QED  BY <1>1, <1>2, <1>4, LoopExists
<1>6. f \in [0 .. n -> S] /\ f[0] = z /\ \A i \in 1 .. n : f[i] = WriteRound(data, f[i - 1])
  BY <1>1, <1>5 DEF IsLoop
<1>7. Rec(f)
  <2>1. \A i \in 0 .. n : i = 0 \/ i \in 1 .. n  BY <1>1
  <2> QED  BY <1>6, <2>1
<1> DEFINE after == CHOOSE g : Rec(g)
<1>8. Rec(after)  BY <1>7, Zenon
<1>9. WriteLoop(b, data) = after[n]  BY Zenon DEF WriteLoop, n, z
<1> HIDE DEF after
<1>10. Rounds(after, b, data)
  <2>1. after = [i \in 0 .. n |-> IF i = 0 THEN z ELSE WriteRound(data, after[i - 1])]
    BY <1>8
  <2>2. /\ DOMAIN after = 0 .. n /\ after = [i \in DOMAIN after |-> after[i]] /\ after[0] = z
        /\ \A i \in 1 .. n : after[i] = WriteRound(data, after[i - 1])
    BY <1>1, <2>1
  <2>3. \A i \in 1 .. n : after[i - 1] \in S => after[i] = Step[<<i, after[i - 1]>>]
    BY <2>2
  <2>4. IsLoop(after, S, n, z, Step)
    <3> HIDE DEF Step
    <3> QED  BY <1>1, <1>2, <1>4, <2>2, <2>3, IsTheLoop
  <2> QED  BY <2>2, <2>4 DEF IsLoop, Rounds, n, S
<1> QED  BY <1>9, <1>10 DEF n

\* What circular_buffer_write() does to a ring.
IsWritten(b, data, w) ==
    /\ w.written \in 0 .. Len(data)
    /\ Appended(b, data, w.written, w.ring)
    /\ b.overwrite \/ b.count + Len(data) <= b.capacity => w.written = Len(data)

\* A block that fits is not turned away: only a full buffer that may not overwrite, or one
\* that becomes full, ends the loop early.
LEMMA WhenOver ==
    ASSUME NEW b, Sound(b), NEW data \in Seq(Byte), NEW s \in WriteStates(b, data), Ends(data, s)
    PROVE  IsWritten(b, data, s)
<1> DEFINE n == Len(data)
           m == Len(NextBlock(data, s))
           w == s.written
           q == b.count
           c == b.capacity
<1>1. /\ w \in 0 .. n /\ Appended(b, data, w, s.ring)
      /\ Sound(s.ring) /\ s.ring.capacity = c /\ s.ring.overwrite = b.overwrite
      /\ s.ring.count = Least(q + w, c)
  BY DEF WriteStates, Appended
<1>2. c \in Nat \ {0} /\ q \in 0 .. c /\ n \in Nat  BY SoundFields, LenProperties
<1>3. ASSUME w # n, b.overwrite \/ q + n <= c PROVE FALSE
  <2>1. w + m \in 1 .. n /\ m \in Nat  BY <1>1, <1>3, BlockIs, LenProperties
  <2>2. Blocked(s.ring, m)  BY <1>3 DEF Ends
  <2>3. Overflow(s.ring, m) > 0 /\ ~b.overwrite  BY <1>1, <2>2 DEF Blocked
  <2> HIDE DEF m, n, w, q, c
  <2>4. q + n <= c  BY <1>3, <2>3
  <2>5. s.ring.count = q + w /\ q + w + m <= c  BY <1>1, <1>2, <2>1, <2>4 DEF Least
  <2>6. Overflow(s.ring, m) = 0  BY <1>1, <1>2, <2>1, <2>5 DEF Overflow
  <2> QED  BY <2>3, <2>6
<1> QED  BY <1>1, <1>3 DEF IsWritten

LEMMA WriteLoopEffect ==
    ASSUME NEW b, Sound(b), NEW data \in Seq(Byte)
    PROVE  IsWritten(b, data, WriteLoop(b, data))
<1> DEFINE n == Len(data)
<1>1. PICK f : Rounds(f, b, data) /\ WriteLoop(b, data) = f[n]  BY WriteLoopRuns
<1>2. /\ f \in [0 .. n -> WriteStates(b, data)]
      /\ \A i \in 1 .. n : f[i] = WriteRound(data, f[i - 1])
  BY <1>1 DEF Rounds
<1>3. n \in Nat /\ 0 \in 0 .. n /\ n \in 0 .. n  BY LenProperties
<1>4. \A i \in 0 .. n : f[i].written \in 0 .. n  BY <1>2 DEF WriteStates
<1> DEFINE N == {i \in Nat : i \in 0 .. n => Ends(data, f[i]) \/ f[i].written >= i}
<1>5. 0 \in N  BY <1>3, <1>4
<1>6. ASSUME NEW i \in 0 .. n - 1, i \in N PROVE i + 1 \in N
  <2> DEFINE j == i + 1
  <2>1. i \in 0 .. n /\ j \in 0 .. n /\ j \in 1 .. n /\ j - 1 = i /\ j \in Nat  BY <1>3
  <2>2. i \in 0 .. n => Ends(data, f[i]) \/ f[i].written >= i  BY <1>6
  <2> HIDE DEF j, n
  <2>3. f[j] = WriteRound(data, f[i]) /\ f[i] \in WriteStates(b, data)  BY <1>2, <2>1
  <2>4. IF Ends(data, f[i]) THEN f[j] = f[i] ELSE f[j].written > f[i].written
    BY <2>3, RoundEffect
  <2>5. CASE Ends(data, f[i])  BY <2>1, <2>4, <2>5
  <2>6. CASE ~Ends(data, f[i])
    <3>1. f[j].written > f[i].written /\ f[i].written >= i  BY <2>1, <2>2, <2>4, <2>6
    <3>2. f[i].written \in 0 .. n /\ f[j].written \in 0 .. n  BY <1>4, <2>1
    <3>3. f[j].written >= j  BY <2>1, <3>1, <3>2 DEF j
    <3> QED  BY <2>1, <3>3
  <2> QED  BY <2>5, <2>6 DEF j
<1>7. n \in N
  <2>1. N \in SUBSET Nat  OBVIOUS
  <2> HIDE DEF N, n
  <2> QED  BY <1>3, <1>5, <1>6, <2>1, InductionOn
<1>8. Ends(data, f[n])
  <2>1. Ends(data, f[n]) \/ f[n].written >= n  BY <1>3, <1>7
  <2>2. f[n].written >= n => f[n].written = n  BY <1>3, <1>4
  <2> QED  BY <2>1, <2>2 DEF Ends
<1>9. f[n] \in WriteStates(b, data)  BY <1>2, <1>3
<1> HIDE DEF n
<1> QED  BY <1>1, <1>8, <1>9, WhenOver

LEMMA WriteEffect ==
    ASSUME NEW b, Sound(b), NEW data \in Seq(Byte)
    PROVE  IsWritten(b, data, Written(b, data))
<1>1. CASE b.count = b.capacity /\ ~b.overwrite
  <2> DEFINE w == [ring |-> b, written |-> 0]
  <2>1. Written(b, data) = w  BY <1>1, Zenon DEF Written
  <2>2. Appended(b, data, 0, b)  BY AppendedNothing
  <2>3. Len(data) \in Nat /\ b.capacity \in Nat  BY SoundFields, LenProperties
  <2>4. b.count + Len(data) <= b.capacity => Len(data) = 0  BY <1>1, <2>3
  <2>5. IsWritten(b, data, w)  BY <1>1, <2>2, <2>3, <2>4 DEF IsWritten
  <2> QED  BY <2>1, <2>5
<1>2. CASE ~(b.count = b.capacity /\ ~b.overwrite)
  <2>1. Written(b, data) = WriteLoop(b, data)  BY <1>2, Zenon DEF Written
  <2> QED  BY <2>1, WriteLoopEffect
<1> QED  BY <1>1, <1>2

-----------------------------------------------------------------------------
(* circular_buffer_copy().                                                   *)

\* What is copied: the first bytes of the source.
Taken(src, size) == Region(src, src.head, size)

\* What the copying relies on: the source has the bytes, and the destination the room.
CanCopy(b, src, size) ==
    /\ src.capacity \in Nat \ {0} /\ Readable(src)
    /\ src.head \in 0 .. src.capacity - 1 /\ size \in 0 .. src.capacity
    /\ b.overwrite \/ b.count + size <= b.capacity

\* The states of the loop, and what a round does.
CopyStates(b, src, size) ==
    {s \in [ring : Ring(b.capacity), written : 0 .. size] :
        Appended(b, Taken(src, size), s.written, s.ring)}

LEMMA TakenIs ==
    ASSUME NEW b, NEW src, NEW size, CanCopy(b, src, size)
    PROVE  /\ Taken(src, size) \in Seq(Byte) /\ Len(Taken(src, size)) = size /\ size \in Nat
           /\ \A k \in 1 .. size :
                 Taken(src, size)[k] = src.buffer[Wrap(src.head + k - 1, src.capacity)]
<1> DEFINE h == src.head
           c == src.capacity
<1>1. h \in Nat /\ size \in Nat /\ h + size <= c + c /\ Readable(src)  BY DEF CanCopy
<1> HIDE DEF h, c
<1>2. /\ Region(src, h, size) \in Seq(Byte) /\ Len(Region(src, h, size)) = size
      /\ \A k \in 1 .. size :
            Region(src, h, size)[k] = src.buffer[Wrap(h + k - 1, src.capacity)]
  BY <1>1, RegionIs DEF c
<1> QED  BY <1>1, <1>2 DEF Taken, h, c

\* The block of a round is a part of what is copied.
LEMMA SourceBlockIs ==
    ASSUME NEW b, NEW src, NEW size, CanCopy(b, src, size), NEW s,
           s.written \in 0 .. size, s.written # size
    PROVE  /\ SourceBlock(src, size, s) \in Seq(Byte)
           /\ s.written + Len(SourceBlock(src, size, s)) \in 1 .. size
           /\ Len(SourceBlock(src, size, s)) \in 1 .. size
           /\ IsPart(Taken(src, size), s.written, SourceBlock(src, size, s))
<1> DEFINE w == s.written
           h == src.head
           c == src.capacity
           x == h + w
           from == Wrap(x, c)
           m == Least(size - w, c - from)
           block == Region(src, from, m)
<1>1. c \in Nat \ {0} /\ Readable(src) /\ h \in 0 .. c - 1 /\ size \in 0 .. c
  BY DEF CanCopy
<1>2. w \in 0 .. size - 1  BY <1>1
<1> HIDE DEF w, h, c
<1>3. x \in 0 .. c + c - 1  BY <1>1, <1>2
<1>4. x % c = from /\ from \in 0 .. c - 1
  <2> HIDE DEF x
  <2> QED  BY <1>1, <1>3, Around
<1>5. m \in 1 .. size /\ m \in 1 .. c - from /\ w + m \in 1 .. size
  <2> HIDE DEF from
  <2> QED  BY <1>1, <1>2, <1>4 DEF Least
<1>6. \A k \in 1 .. m : Wrap(from + k - 1, c) = Wrap(h + (w + k) - 1, c) /\ w + k \in 1 .. size
  <2> HIDE DEF m
  <2> QED  BY <1>1, <1>2, <1>4, <1>5 DEF Wrap
<1>7. from \in Nat /\ m \in Nat /\ from + m <= c + c
  <2> HIDE DEF m, from
  <2> QED  BY <1>1, <1>4, <1>5
<1>8. /\ block \in Seq(Byte) /\ Len(block) = m
      /\ \A k \in 1 .. m : block[k] = src.buffer[Wrap(from + k - 1, c)]
  <2> HIDE DEF from, m
  <2>1. from + m <= src.capacity + src.capacity  BY <1>7 DEF c
  <2>2. /\ Region(src, from, m) \in Seq(Byte) /\ Len(Region(src, from, m)) = m
        /\ \A k \in 1 .. m :
              /\ Wrap(from + k - 1, src.capacity) \in 0 .. src.capacity - 1
              /\ Region(src, from, m)[k] = src.buffer[Wrap(from + k - 1, src.capacity)]
              /\ Region(src, from, m)[k] \in Byte
    <3>1. Readable(src) /\ from \in Nat /\ m \in Nat  BY <1>1, <1>7
    <3> QED  BY <2>1, <3>1, RegionIs, Zenon
  <2> QED  BY <2>2, Zenon DEF c
<1>9. SourceBlock(src, size, s) = block
  <2>1. SourceBlock(src, size, s) = Region(src, x % c, Least(size - w, c - (x % c)))
    BY Zenon DEF SourceBlock, w, h, c
  <2> HIDE DEF x
  <2> QED  BY <1>4, <2>1, Zenon
<1> HIDE DEF block, m, from, x
<1>10. \A k \in 1 .. m : block[k] = Taken(src, size)[w + k]
  <2> SUFFICES ASSUME NEW k \in 1 .. m PROVE block[k] = Taken(src, size)[w + k]  OBVIOUS
  <2> DEFINE j == w + k
  <2>1. j \in 1 .. size /\ block[k] = src.buffer[Wrap(h + j - 1, c)]  BY <1>6, <1>8
  <2> HIDE DEF j
  <2>2. Taken(src, size)[j] = src.buffer[Wrap(h + j - 1, c)]  BY <2>1, TakenIs DEF h, c
  <2> QED  BY <2>1, <2>2 DEF j
<1> QED  BY <1>5, <1>8, <1>9, <1>10 DEF IsPart, w

\* A round stays in these states, and the loop is over or the round writes something.
LEMMA CopyRoundEffect ==
    ASSUME NEW b, Sound(b), NEW src, NEW size, CanCopy(b, src, size),
           NEW s \in CopyStates(b, src, size)
    PROVE  /\ CopyRound(src, size, s) \in CopyStates(b, src, size)
           /\ IF s.written = size THEN CopyRound(src, size, s) = s
              ELSE CopyRound(src, size, s).written > s.written
<1> DEFINE data == Taken(src, size)
           block == SourceBlock(src, size, s)
           v == Written(s.ring, block)
           w == s.written
           n == w + v.written
<1>1. /\ w \in 0 .. size /\ Appended(b, data, w, s.ring)
      /\ Sound(s.ring) /\ s.ring.capacity = b.capacity /\ s.ring.overwrite = b.overwrite
      /\ s.ring.count = Least(b.count + w, b.capacity)
  BY DEF CopyStates, Appended
<1>2. CASE w = size
  <2>1. CopyRound(src, size, s) = s  BY <1>2, Zenon DEF CopyRound
  <2> QED  BY <1>2, <2>1
<1>3. CASE w # size
  <2>1. CopyRound(src, size, s) = [ring |-> v.ring, written |-> n]
    BY <1>3, Zenon DEF CopyRound
  <2>2. /\ block \in Seq(Byte) /\ w + Len(block) \in 1 .. size /\ Len(block) \in 1 .. size
        /\ IsPart(data, w, block)
    BY <1>1, <1>3, SourceBlockIs
  <2>3. IsWritten(s.ring, block, v)
    <3> HIDE DEF block
    <3> QED  BY <1>1, <2>2, WriteEffect
  <2>4. s.ring.overwrite \/ s.ring.count + Len(block) <= s.ring.capacity
    <3>1. CASE b.overwrite  BY <1>1, <3>1
    <3>2. CASE ~b.overwrite
      <4>1. b.count + size <= b.capacity  BY <3>2 DEF CanCopy
      <4>2. b.capacity \in Nat \ {0} /\ b.count \in 0 .. b.capacity /\ size \in Nat
        BY SoundFields, TakenIs
      <4> HIDE DEF block, w
      <4>3. s.ring.count = b.count + w  BY <1>1, <4>1, <4>2 DEF Least
      <4> QED  BY <1>1, <2>2, <4>1, <4>2, <4>3
    <3> QED  BY <3>1, <3>2
  <2>5. v.written = Len(block) /\ Appended(s.ring, block, Len(block), v.ring)
    BY <2>3, <2>4 DEF IsWritten
  <2>6. Appended(b, data, n, v.ring)
    <3> DEFINE ring == s.ring
               ring2 == v.ring
    <3>1. w \in Nat /\ Appended(b, data, w, ring) /\ IsPart(data, w, block)
          /\ Appended(ring, block, Len(block), ring2)
      BY <1>1, <2>2, <2>5
    <3>2. block \in Seq(Byte)  BY <2>2
    <3> HIDE DEF data, block, ring, ring2, w
    <3>3. Appended(b, data, w + Len(block), ring2)  BY <3>1, <3>2, AppendedTwice
    <3> QED  BY <2>5, <3>3 DEF ring2
  <2>7. n \in 0 .. size /\ n > w
    <3> HIDE DEF block, v, w
    <3> QED  BY <1>1, <2>2, <2>5
  <2>8. v.ring \in Ring(b.capacity)  BY <2>6 DEF Appended, Sound
  <2> HIDE DEF v, n, data
  <2>9. [ring |-> v.ring, written |-> n] \in CopyStates(b, src, size)
    BY <2>6, <2>7, <2>8 DEF CopyStates, data
  <2> QED  BY <1>3, <2>1, <2>7, <2>9
<1> QED  BY <1>2, <1>3

\* f[i] is the state of the loop after i rounds.
CopyRounds(f, b, src, size) ==
    /\ f \in [0 .. size -> CopyStates(b, src, size)]
    /\ \A i \in 1 .. size : f[i] = CopyRound(src, size, f[i - 1])

\* The recursion of CopyLoop is these rounds.
LEMMA CopyLoopRuns ==
    ASSUME NEW b, Sound(b), NEW src, NEW size, CanCopy(b, src, size)
    PROVE  \E f : CopyRounds(f, b, src, size) /\ CopyLoop(b, src, size) = f[size]
<1> DEFINE S == CopyStates(b, src, size)
           z == [ring |-> b, written |-> 0]
           Rec(f) == f = [i \in 0 .. size |-> IF i = 0 THEN z ELSE CopyRound(src, size, f[i - 1])]
           Step == [p \in (1 .. size) \X S |-> CopyRound(src, size, p[2])]
<1>1. /\ size \in Nat /\ 0 \in 0 .. size
      /\ \A i \in 1 .. size : i - 1 \in 0 .. size /\ i \in 0 .. size /\ i # 0
  <2>1. size \in Nat  BY TakenIs
  <2> QED  BY <2>1
<1>2. z \in S
  <2>1. Appended(b, Taken(src, size), 0, b) /\ b \in Ring(b.capacity)
    BY AppendedNothing DEF Sound
  <2> QED  BY <1>1, <2>1 DEF CopyStates
<1>3. \A s \in S : CopyRound(src, size, s) \in S  BY CopyRoundEffect
<1> HIDE DEF S, z
<1>4. Step \in [(1 .. size) \X S -> S]  BY <1>3
<1>5. PICK f : IsLoop(f, S, size, z, Step)
  <2> HIDE DEF Step
  <2> QED  BY <1>1, <1>2, <1>4, LoopExists
<1>6. f \in [0 .. size -> S] /\ f[0] = z /\ \A i \in 1 .. size : f[i] = CopyRound(src, size, f[i - 1])
  BY <1>1, <1>5 DEF IsLoop
<1>7. Rec(f)
  <2>1. \A i \in 0 .. size : i = 0 \/ i \in 1 .. size  BY <1>1
  <2> QED  BY <1>6, <2>1
<1> DEFINE after == CHOOSE g : Rec(g)
<1>8. Rec(after)  BY <1>7, Zenon
<1>9. CopyLoop(b, src, size) = after[size]  BY Zenon DEF CopyLoop, z
<1> HIDE DEF after
<1>10. CopyRounds(after, b, src, size)
  <2>1. after = [i \in 0 .. size |-> IF i = 0 THEN z ELSE CopyRound(src, size, after[i - 1])]
    BY <1>8
  <2>2. /\ DOMAIN after = 0 .. size /\ after = [i \in DOMAIN after |-> after[i]] /\ after[0] = z
        /\ \A i \in 1 .. size : after[i] = CopyRound(src, size, after[i - 1])
    BY <1>1, <2>1
  <2>3. \A i \in 1 .. size : after[i - 1] \in S => after[i] = Step[<<i, after[i - 1]>>]
    BY <2>2
  <2>4. IsLoop(after, S, size, z, Step)
    <3> HIDE DEF Step
    <3> QED  BY <1>1, <1>2, <1>4, <2>2, <2>3, IsTheLoop
  <2> QED  BY <2>2, <2>4 DEF IsLoop, CopyRounds, S
<1> QED  BY <1>9, <1>10

\* What circular_buffer_copy() does to a ring: everything is appended.
LEMMA CopyEffect ==
    ASSUME NEW b, Sound(b), NEW src, NEW size, CanCopy(b, src, size)
    PROVE  /\ CopyLoop(b, src, size).written = size
           /\ Appended(b, Taken(src, size), size, CopyLoop(b, src, size).ring)
<1>1. PICK f : CopyRounds(f, b, src, size) /\ CopyLoop(b, src, size) = f[size]  BY CopyLoopRuns
<1>2. /\ f \in [0 .. size -> CopyStates(b, src, size)]
      /\ \A i \in 1 .. size : f[i] = CopyRound(src, size, f[i - 1])
  BY <1>1 DEF CopyRounds
<1>3. size \in Nat /\ 0 \in 0 .. size /\ size \in 0 .. size
  <2>1. size \in Nat  BY TakenIs
  <2> QED  BY <2>1
<1>4. \A i \in 0 .. size : f[i].written \in 0 .. size  BY <1>2 DEF CopyStates
<1> DEFINE N == {i \in Nat : i \in 0 .. size => f[i].written >= i}
<1>5. 0 \in N  BY <1>3, <1>4
<1>6. ASSUME NEW i \in 0 .. size - 1, i \in N PROVE i + 1 \in N
  <2> DEFINE j == i + 1
  <2>1. i \in 0 .. size /\ j \in 0 .. size /\ j \in 1 .. size /\ j - 1 = i /\ j \in Nat  BY <1>3
  <2>2. f[i].written >= i  BY <1>6, <2>1
  <2> HIDE DEF j
  <2>3. f[j] = CopyRound(src, size, f[i]) /\ f[i] \in CopyStates(b, src, size)  BY <1>2, <2>1
  <2>4. IF f[i].written = size THEN f[j] = f[i] ELSE f[j].written > f[i].written
    BY <2>3, CopyRoundEffect
  <2>5. f[i].written \in 0 .. size /\ f[j].written \in 0 .. size  BY <1>4, <2>1
  <2>6. f[j].written >= j
    <3>1. CASE f[i].written = size  BY <1>3, <2>1, <2>4, <3>1
    <3>2. CASE f[i].written # size  BY <2>1, <2>2, <2>4, <2>5, <3>2 DEF j
    <3> QED  BY <3>1, <3>2
  <2> QED  BY <2>1, <2>6 DEF j
<1>7. size \in N
  <2>1. N \in SUBSET Nat  OBVIOUS
  <2> HIDE DEF N
  <2> QED  BY <1>3, <1>5, <1>6, <2>1, InductionOn
<1>8. f[size].written = size  BY <1>3, <1>4, <1>7
<1>9. f[size] \in CopyStates(b, src, size)  BY <1>2, <1>3
<1> QED  BY <1>1, <1>8, <1>9 DEF CopyStates

-----------------------------------------------------------------------------
(* The operations that move one end.                                         *)

\* Where the bytes are after n were consumed, after n were committed, and that n bytes behind
\* the last one hit none of them.
LEMMA EndIndices ==
    ASSUME NEW c \in Nat \ {0}, NEW h \in 0 .. c - 1, NEW q \in 0 .. c, NEW n \in Nat
    PROVE  LET t  == Wrap(h + q, c)
               h2 == Wrap(h + n, c)
           IN  /\ n <= q =>
                     /\ h2 \in 0 .. c - 1 /\ q - n \in 0 .. c
                     /\ t = Wrap(h2 + (q - n), c)
                     /\ \A k \in 1 .. q - n : Wrap(h2 + k - 1, c) = Wrap(h + (n + k) - 1, c)
               /\ q + n <= c =>
                     /\ q + n \in 0 .. c
                     /\ t + n \in 0 .. c + c - 1
                     /\ Wrap(t + n, c) = Wrap(h + (q + n), c)
                     /\ t + n <= c => \A k \in 1 .. q :
                           LET x == Wrap(h + k - 1, c) IN ~(t <= x /\ x < t + n)
<1> DEFINE t  == Wrap(h + q, c)
           h2 == Wrap(h + n, c)
<1>1. (t = h + q /\ h + q < c) \/ (t = h + q - c /\ h + q >= c)  BY DEF Wrap
<1>2. (h2 = h + n /\ h + n < c) \/ (h2 = h + n - c /\ h + n >= c)  BY DEF Wrap
<1> HIDE DEF t, h2
<1>3. ASSUME n <= q
      PROVE  /\ h2 \in 0 .. c - 1 /\ q - n \in 0 .. c
             /\ t = Wrap(h2 + (q - n), c)
             /\ \A k \in 1 .. q - n : Wrap(h2 + k - 1, c) = Wrap(h + (n + k) - 1, c)
  BY <1>1, <1>2, <1>3 DEF Wrap
<1>4. ASSUME q + n <= c
      PROVE  /\ q + n \in 0 .. c /\ t + n \in 0 .. c + c - 1
             /\ Wrap(t + n, c) = Wrap(h + (q + n), c)
  BY <1>1, <1>4 DEF Wrap
<1>5. ASSUME q + n <= c, t + n <= c, NEW k \in 1 .. q
      PROVE  LET x == Wrap(h + k - 1, c) IN ~(t <= x /\ x < t + n)
  BY <1>1, <1>5 DEF Wrap
<1> QED  BY <1>3, <1>4, <1>5 DEF t, h2

\* circular_buffer_read() and circular_buffer_advance_read() take the first n bytes.
LEMMA ConsumedEffect ==
    ASSUME NEW b, Sound(b), NEW n \in 0 .. b.count
    PROVE  LET r == Consumed(b, n)
           IN  /\ Sound(r) /\ r.capacity = b.capacity /\ r.overwrite = b.overwrite
               /\ r.buffer = b.buffer /\ r.tail = b.tail /\ r.count = b.count - n
               /\ \A k \in 1 .. r.count : Contents(r)[k] = Contents(b)[n + k]
<1> DEFINE c == b.capacity
           h == b.head
           q == b.count
           t == b.tail
           h2 == Wrap(h + n, c)
           q2 == q - n
           r == Consumed(b, n)
           a == b.buffer
           m == b.overwrite
<1>1. /\ c \in Nat \ {0} /\ h \in 0 .. c - 1 /\ q \in 0 .. c /\ t = Wrap(h + q, c)
      /\ a \in [0 .. c - 1 -> Byte]
      /\ b = [buffer |-> a, capacity |-> c, head |-> h, tail |-> t, count |-> q, overwrite |-> m]
  BY SoundFields
<1>2. n \in Nat /\ n <= q  BY <1>1
<1>3. /\ h2 \in 0 .. c - 1 /\ q2 \in 0 .. c /\ Wrap(h + q, c) = Wrap(h2 + q2, c)
      /\ \A k \in 1 .. q2 : Wrap(h2 + k - 1, c) = Wrap(h + (n + k) - 1, c)
  <2> HIDE DEF c, h, q
  <2> QED  BY <1>1, <1>2, EndIndices
<1>4. (h + n) % c = h2
  <2> DEFINE x == h + n
  <2>1. x \in 0 .. c + c - 1
    <3> HIDE DEF c, h, q
    <3> QED  BY <1>1, <1>2
  <2> HIDE DEF x, c
  <2>2. x % c = Wrap(x, c)  BY <1>1, <2>1, Around
  <2> QED  BY <2>2 DEF x
<1>5. r = [buffer |-> a, capacity |-> c, head |-> h2, tail |-> t, count |-> q2, overwrite |-> m]
  <2>1. r = [b EXCEPT !.head = (h + n) % c, !.count = q2]  BY DEF Consumed
  <2>2. b = [buffer |-> a, capacity |-> c, head |-> h, tail |-> t, count |-> q, overwrite |-> m]
    BY <1>1
  <2> HIDE DEF r, h2, q2, c, h, q, t, a, m
  <2>3. r = [b EXCEPT !.head = h2, !.count = q2]  BY <1>4, <2>1
  <2> QED  BY <2>2, <2>3
<1>6. t = Wrap(h2 + q2, c)  BY <1>1, <1>3
<1>7. /\ Sound(r) /\ r.capacity = c /\ r.overwrite = b.overwrite
      /\ r.buffer = a /\ r.head = h2 /\ r.tail = t /\ r.count = q2
  <2>1. m \in BOOLEAN  BY SoundFields
  <2> HIDE DEF r, h2, q2, t, a, m, c
  <2>2. Sound([buffer |-> a, capacity |-> c, head |-> h2, tail |-> Wrap(h2 + q2, c),
               count |-> q2, overwrite |-> m])
    BY <1>1, <1>3, <2>1, IsSound
  <2> QED  BY <1>5, <1>6, <2>2 DEF m
<1> HIDE DEF r, h2, q2, t, c, h
<1>8. ASSUME NEW k \in 1 .. q2 PROVE Contents(r)[k] = Contents(b)[n + k]
  <2> DEFINE j == n + k
  <2>1. j \in 1 .. q /\ Wrap(h2 + k - 1, c) = Wrap(h + j - 1, c)
    BY <1>1, <1>2, <1>3, SMTT(30) DEF q2
  <2>2. Contents(r)[k] = r.buffer[Wrap(h2 + k - 1, c)]  BY <1>7, ContentsIs
  <2> HIDE DEF j
  <2>3. Contents(b)[j] = b.buffer[Wrap(h + j - 1, c)]  BY <2>1, ContentsIs DEF h, c
  <2> QED  BY <1>7, <2>1, <2>2, <2>3 DEF j
<1> QED  BY <1>7, <1>8 DEF r, q2, t, c

\* circular_buffer_advance_write() adds the n bytes behind the last one.
LEMMA CommittedEffect ==
    ASSUME NEW b, Sound(b), NEW n \in 0 .. b.capacity - b.count
    PROVE  LET r == [b EXCEPT !.tail = (@ + n) % b.capacity, !.count = @ + n]
           IN  /\ Sound(r) /\ r.capacity = b.capacity /\ r.overwrite = b.overwrite
               /\ r.buffer = b.buffer /\ r.head = b.head /\ r.count = b.count + n
               /\ \A k \in 1 .. b.count : Contents(r)[k] = Contents(b)[k]
<1> DEFINE c == b.capacity
           h == b.head
           q == b.count
           t == b.tail
           t2 == Wrap(h + (q + n), c)
           q2 == q + n
           r == [b EXCEPT !.tail = (@ + n) % b.capacity, !.count = @ + n]
           a == b.buffer
           m == b.overwrite
<1>1. /\ c \in Nat \ {0} /\ h \in 0 .. c - 1 /\ q \in 0 .. c /\ t = Wrap(h + q, c)
      /\ a \in [0 .. c - 1 -> Byte]
      /\ b = [buffer |-> a, capacity |-> c, head |-> h, tail |-> t, count |-> q, overwrite |-> m]
  BY SoundFields
<1>2. n \in Nat /\ q + n <= c  BY <1>1
<1>3. /\ q2 \in 0 .. c /\ Wrap(h + q, c) + n \in 0 .. c + c - 1
      /\ Wrap(Wrap(h + q, c) + n, c) = t2
  <2> HIDE DEF c, h, q
  <2> QED  BY <1>1, <1>2, EndIndices
<1>4. (t + n) % c = t2
  <2> DEFINE x == t + n
  <2>1. x \in 0 .. c + c - 1 /\ Wrap(x, c) = t2
    <3> HIDE DEF c, h, q, t, t2
    <3> QED  BY <1>1, <1>3
  <2> HIDE DEF x, c, t2
  <2>2. x % c = Wrap(x, c)  BY <1>1, <2>1, Around
  <2> QED  BY <2>1, <2>2 DEF x
<1>5. r = [buffer |-> a, capacity |-> c, head |-> h, tail |-> t2, count |-> q2, overwrite |-> m]
  <2>1. r = [b EXCEPT !.tail = (t + n) % c, !.count = q2]  OBVIOUS
  <2>2. b = [buffer |-> a, capacity |-> c, head |-> h, tail |-> t, count |-> q, overwrite |-> m]
    BY <1>1
  <2> HIDE DEF r, t2, q2, c, h, q, t, a, m
  <2>3. r = [b EXCEPT !.tail = t2, !.count = q2]  BY <1>4, <2>1
  <2> QED  BY <2>2, <2>3
<1>6. t2 = Wrap(h + q2, c)  OBVIOUS
<1>7. /\ Sound(r) /\ r.capacity = c /\ r.overwrite = b.overwrite
      /\ r.buffer = a /\ r.head = h /\ r.tail = t2 /\ r.count = q2
  <2>1. m \in BOOLEAN  BY SoundFields
  <2> HIDE DEF r, t2, q2, h, a, m, c
  <2>2. Sound([buffer |-> a, capacity |-> c, head |-> h, tail |-> Wrap(h + q2, c),
               count |-> q2, overwrite |-> m])
    BY <1>1, <1>3, <2>1, IsSound
  <2> QED  BY <1>5, <1>6, <2>2 DEF m
<1> HIDE DEF r, t2, t, c, h
<1>8. ASSUME NEW k \in 1 .. q PROVE Contents(r)[k] = Contents(b)[k]
  <2>1. k \in 1 .. q2  BY <1>1, <1>2
  <2>2. Contents(r)[k] = r.buffer[Wrap(h + k - 1, c)]  BY <1>7, <2>1, ContentsIs
  <2>3. Contents(b)[k] = b.buffer[Wrap(h + k - 1, c)]  BY ContentsIs DEF h, c
  <2> QED  BY <1>7, <2>2, <2>3
<1> QED  BY <1>7, <1>8 DEF r, c, h

\* What is written behind the last byte leaves the bytes that are there alone.
LEMMA FilledEffect ==
    ASSUME NEW b, Sound(b), NEW data \in Seq(Byte),
           b.tail + Len(data) <= b.capacity, b.count + Len(data) <= b.capacity
    PROVE  LET r == [b EXCEPT !.buffer = Stored(b, b.tail, data)]
           IN  /\ Sound(r) /\ r.capacity = b.capacity /\ r.overwrite = b.overwrite
               /\ r.head = b.head /\ r.tail = b.tail /\ r.count = b.count
               /\ \A k \in 1 .. b.count : Contents(r)[k] = Contents(b)[k]
               /\ \A k \in 1 .. Len(data) : r.buffer[b.tail + k - 1] = data[k]
<1> DEFINE c == b.capacity
           h == b.head
           q == b.count
           t == b.tail
           n == Len(data)
           a == b.buffer
           m == b.overwrite
           buffer == Stored(b, t, data)
           r == [b EXCEPT !.buffer = Stored(b, b.tail, data)]
<1>1. /\ c \in Nat \ {0} /\ h \in 0 .. c - 1 /\ q \in 0 .. c /\ t = Wrap(h + q, c)
      /\ t \in 0 .. c - 1
      /\ b = [buffer |-> a, capacity |-> c, head |-> h, tail |-> t, count |-> q, overwrite |-> m]
  BY SoundFields
<1>2. n \in Nat /\ q + n <= c /\ t + n <= c /\ t \in Nat  BY <1>1, LenProperties
<1>3. \A k \in 1 .. q : LET x == Wrap(h + k - 1, c) IN ~(t <= x /\ x < t + n)
  <2>1. Wrap(h + q, c) + n <= c  BY <1>1, <1>2
  <2> HIDE DEF c, h, q, n
  <2>2. \A k \in 1 .. q : LET x == Wrap(h + k - 1, c)
                          IN ~(Wrap(h + q, c) <= x /\ x < Wrap(h + q, c) + n)
    BY <1>1, <1>2, <2>1, EndIndices
  <2> QED  BY <1>1, <2>2
<1>4. /\ buffer \in [0 .. c - 1 -> Byte]
      /\ \A x \in 0 .. c - 1 :
            buffer[x] = IF t <= x /\ x < t + n THEN data[x - t + 1] ELSE b.buffer[x]
  <2> HIDE DEF t
  <2> QED  BY <1>2, StoredIs
<1>5. r = [buffer |-> buffer, capacity |-> c, head |-> h, tail |-> t, count |-> q, overwrite |-> m]
  <2>1. r = [b EXCEPT !.buffer = buffer]  OBVIOUS
  <2>2. b = [buffer |-> a, capacity |-> c, head |-> h, tail |-> t, count |-> q, overwrite |-> m]
    BY <1>1
  <2> HIDE DEF r, buffer, c, h, q, t, a, m
  <2> QED  BY <2>1, <2>2
<1>6. /\ Sound(r) /\ r.capacity = c /\ r.overwrite = b.overwrite
      /\ r.buffer = buffer /\ r.head = h /\ r.tail = t /\ r.count = q
  <2>1. m \in BOOLEAN  BY SoundFields
  <2> HIDE DEF r, buffer, h, q, t, m, c
  <2>2. Sound([buffer |-> buffer, capacity |-> c, head |-> h, tail |-> Wrap(h + q, c),
               count |-> q, overwrite |-> m])
    BY <1>1, <1>4, <2>1, IsSound
  <2> QED  BY <1>1, <1>5, <2>2 DEF m
<1> HIDE DEF r, t, c, h, buffer, n, q
<1>7. ASSUME NEW k \in 1 .. q PROVE Contents(r)[k] = Contents(b)[k]
  <2> DEFINE x == Wrap(h + k - 1, c)
  <2>1. x \in 0 .. c - 1 /\ Contents(r)[k] = buffer[x]  BY <1>6, ContentsIs
  <2>2. Contents(b)[k] = b.buffer[x]  BY ContentsIs DEF h, c, q
  <2>3. ~(t <= x /\ x < t + n)  BY <1>3
  <2> HIDE DEF x
  <2> QED  BY <1>4, <2>1, <2>2, <2>3
<1>8. ASSUME NEW k \in 1 .. n PROVE buffer[t + k - 1] = data[k]
  <2> DEFINE x == t + k - 1
  <2>1. x \in 0 .. c - 1 /\ t <= x /\ x < t + n /\ x - t + 1 = k  BY <1>1, <1>2
  <2> HIDE DEF x
  <2>2. buffer[x] = data[k]  BY <1>4, <2>1
  <2> QED  BY <2>2 DEF x
<1> QED  BY <1>6, <1>7, <1>8 DEF r, t, c, h, n, q

-----------------------------------------------------------------------------
(* The inductive invariant.                                                  *)

\* The buffer is destroyed, or its indices agree with its count.
RingInv ==
    /\ cb.capacity \in Capacities \union {0}
    /\ cb.overwrite \in BOOLEAN
    /\ IF cb.capacity = 0
       THEN cb = [buffer |-> <<>>, capacity |-> 0, head |-> 0, tail |-> 0, count |-> 0,
                  overwrite |-> cb.overwrite]
       ELSE Sound(cb)

RetInv == ret.n \in Int /\ ret.data \in Seq(Byte)

\* What the consumer holds starts at the oldest byte, and lies within the array and within
\* the bytes to be read.
ReadInv ==
    /\ reading \in [from : Nat, len : Nat]
    /\ cb.capacity = 0 => reading.len = 0
    /\ ~cb.overwrite /\ reading.len > 0 =>
          /\ reading.from = cb.head /\ reading.len <= cb.count
          /\ cb.head + reading.len <= cb.capacity

\* What the producer holds starts behind the newest byte, and lies within the array and
\* within the room that is left; what was put there is still there.
WriteInv ==
    /\ writing \in [from : Nat, len : Nat, filled : Seq(Byte)]
    /\ Len(writing.filled) <= writing.len
    /\ cb.capacity = 0 => writing.len = 0
    /\ writing.len > 0 =>
          /\ writing.from = cb.tail
          /\ cb.count + writing.len <= cb.capacity /\ cb.tail + writing.len <= cb.capacity
          /\ \A k \in 1 .. Len(writing.filled) : cb.buffer[cb.tail + k - 1] = writing.filled[k]

IInv == RingInv /\ RetInv /\ ReadInv /\ WriteInv

\* The fields of the buffer, destroyed or not.
LEMMA CbFields ==
    ASSUME RingInv
    PROVE  /\ cb.capacity \in Nat /\ cb.head \in Nat /\ cb.tail \in Nat
           /\ cb.count \in 0 .. cb.capacity /\ cb.overwrite \in BOOLEAN
           /\ cb.capacity = 0 => cb.count = 0 /\ cb.head = 0
           /\ cb.capacity # 0 => /\ Sound(cb) /\ cb.capacity > 0
                                 /\ cb.head \in 0 .. cb.capacity - 1
                                 /\ cb.tail \in 0 .. cb.capacity - 1
<1>1. cb.capacity \in Nat  BY CircularBufferAssumption DEF RingInv
<1>2. CASE cb.capacity = 0
  <2>1. cb.count = 0 /\ cb.head = 0 /\ cb.tail = 0 /\ cb.overwrite \in BOOLEAN  BY <1>2 DEF RingInv
  <2> QED  BY <1>2, <2>1
<1>3. CASE cb.capacity # 0
  <2>1. Sound(cb)  BY <1>3 DEF RingInv
  <2>2. /\ cb.head \in 0 .. cb.capacity - 1 /\ cb.tail \in 0 .. cb.capacity - 1
        /\ cb.count \in 0 .. cb.capacity /\ cb.overwrite \in BOOLEAN
    BY <2>1, SoundFields
  <2> QED  BY <1>1, <1>3, <2>1, <2>2
<1> QED  BY <1>2, <1>3

\* The bytes that a call delivers, if any.
LEMMA RegionType ==
    ASSUME NEW b, NEW from, NEW n \in Nat,
           n # 0 => Sound(b) /\ from \in Nat /\ from + n <= b.capacity + b.capacity
    PROVE  Region(b, from, n) \in Seq(Byte) /\ Len(Region(b, from, n)) = n
<1>1. CASE n = 0
  <2> DEFINE r == Region(b, from, n)
  <2>1. r \in [1 .. n -> Byte]  BY <1>1 DEF Region
  <2> HIDE DEF r
  <2>2. r \in Seq(Byte) /\ Len(r) = n  BY <2>1, FunctionIsSeq
  <2> QED  BY <2>2 DEF r
<1>2. CASE n # 0
  <2>1. Readable(b)  BY <1>2, SoundFields DEF Readable
  <2>2. from \in Nat /\ from + n <= b.capacity + b.capacity  BY <1>2
  <2> QED  BY <2>1, <2>2, RegionIs
<1> QED  BY <1>1, <1>2

LEMMA InitInv == Init => IInv
<1> SUFFICES ASSUME Init PROVE IInv  OBVIOUS
<1> USE DEF Init
<1>1. RingInv  BY DEF RingInv
<1>2. RetInv
  <2>1. <<>> \in Seq(Byte)  OBVIOUS
  <2> QED  BY <2>1 DEF RetInv
<1>3. ReadInv  BY DEF ReadInv, NoRead
<1>4. WriteInv
  <2>1. <<>> \in Seq(Byte) /\ Len(<<>>) = 0  OBVIOUS
  <2> QED  BY <2>1 DEF WriteInv, NoWrite
<1> QED  BY <1>1, <1>2, <1>3, <1>4 DEF IInv

\* A pointer that was dropped.
LEMMA Dropped ==
    /\ reading' = NoRead => ReadInv'
    /\ writing' = NoWrite => WriteInv'
<1>1. reading' = NoRead => ReadInv'  BY DEF ReadInv, NoRead
<1>2. writing' = NoWrite => WriteInv'
  <2>1. <<>> \in Seq(Byte) /\ Len(<<>>) = 0  OBVIOUS
  <2> QED  BY <2>1 DEF WriteInv, NoWrite
<1> QED  BY <1>1, <1>2

\* What a call returns, when it delivers no bytes.
LEMMA ReturnedNumber ==
    ASSUME NEW n \in Int, Returned(n, <<>>) PROVE RetInv'
<1>1. <<>> \in Seq(Byte)  OBVIOUS
<1> QED  BY <1>1 DEF Returned, RetInv

LEMMA ReturnedBytes ==
    ASSUME NEW n \in Int, NEW data \in Seq(Byte), Returned(n, data) PROVE RetInv'
  BY DEF Returned, RetInv

\* What the consumer holds stays good while the other side adds bytes, and keeps head.
LEMMA ReadKept ==
    ASSUME RingInv, ReadInv, reading' = reading,
           cb'.capacity = cb.capacity, cb'.overwrite = cb.overwrite,
           ~cb.overwrite => cb'.head = cb.head /\ cb'.count \in Nat /\ cb'.count >= cb.count
    PROVE  ReadInv'
<1>1. cb.count \in Nat  BY CbFields
<1>2. reading.len \in Nat  BY DEF ReadInv
<1>3. reading \in [from : Nat, len : Nat] /\ (cb.capacity = 0 => reading.len = 0)  BY DEF ReadInv
<1>4. ASSUME ~cb.overwrite, reading.len > 0
      PROVE  /\ reading.from = cb.head /\ reading.len <= cb'.count
             /\ cb.head + reading.len <= cb.capacity
  BY <1>1, <1>2, <1>4 DEF ReadInv
<1> QED  BY <1>3, <1>4 DEF ReadInv

\* What the producer holds stays good while the other side takes bytes, and keeps tail.
LEMMA WriteKept ==
    ASSUME RingInv, WriteInv, writing' = writing,
           cb'.capacity = cb.capacity, cb'.buffer = cb.buffer, cb'.tail = cb.tail,
           cb'.count \in Nat, cb'.count <= cb.count
    PROVE  WriteInv'
<1>1. cb.count \in Nat /\ cb.capacity \in Nat  BY CbFields
<1>2. writing.len \in Nat  BY DEF WriteInv
<1>3. ASSUME writing.len > 0 PROVE cb'.count + writing.len <= cb.capacity
  BY <1>1, <1>2, <1>3 DEF WriteInv
<1> QED  BY <1>3 DEF WriteInv

\* Both pointers stay as good as they were while the buffer does not change.
LEMMA BothKept ==
    ASSUME IInv, cb' = cb PROVE /\ RingInv' /\ (reading' = reading => ReadInv')
                                /\ (writing' = writing => WriteInv')
  BY DEF IInv, RingInv, ReadInv, WriteInv

LEMMA CreateStep ==
    ASSUME IInv, NEW capacity \in Capacities, NEW overwrite \in BOOLEAN,
           CircularBufferInit(capacity, overwrite)
    PROVE  IInv'
<1>1. CASE cb' = cb
  <2>1. reading' = reading /\ writing' = writing /\ (Returned(0, <<>>) \/ Returned(1, <<>>))
    BY DEF CircularBufferInit
  <2>2. RetInv'  BY <2>1, ReturnedNumber
  <2> QED  BY <1>1, <2>1, <2>2, BothKept DEF IInv
<1>2. CASE cb' # cb
  <2> DEFINE buffer == [x \in 0 .. capacity - 1 |-> Junk]
  <2>1. /\ cb' = [buffer |-> buffer, capacity |-> capacity, head |-> 0, tail |-> 0, count |-> 0,
                  overwrite |-> overwrite]
        /\ Returned(1, <<>>) /\ cb.capacity = 0 /\ reading' = reading /\ writing' = writing
    BY <1>2 DEF CircularBufferInit
  <2>2. capacity \in Nat \ {0} /\ buffer \in [0 .. capacity - 1 -> Byte]
    BY CircularBufferAssumption DEF Byte
  <2>3. Wrap(0 + 0, capacity) = 0 /\ 0 \in 0 .. capacity - 1 /\ 0 \in 0 .. capacity
    BY <2>2 DEF Wrap
  <2>4. RingInv'
    <3> DEFINE zero == 0
    <3>1. zero \in 0 .. capacity - 1 /\ zero \in 0 .. capacity /\ Wrap(zero + zero, capacity) = 0
      BY <2>3
    <3> HIDE DEF buffer, zero
    <3>2. Sound([buffer |-> buffer, capacity |-> capacity, head |-> zero,
                 tail |-> Wrap(zero + zero, capacity), count |-> zero, overwrite |-> overwrite])
      BY <2>2, <3>1, IsSound
    <3>3. Sound(cb')  BY <2>1, <3>1, <3>2 DEF zero
    <3> QED  BY <2>1, <2>2, <3>3 DEF RingInv
  <2>5. RetInv'  BY <2>1, ReturnedNumber
  <2>6. reading.len = 0 /\ writing.len = 0  BY <2>1 DEF IInv, ReadInv, WriteInv
  <2>7. ReadInv' /\ WriteInv'  BY <2>1, <2>6 DEF IInv, ReadInv, WriteInv
  <2> QED  BY <2>4, <2>5, <2>7 DEF IInv
<1> QED  BY <1>1, <1>2

LEMMA DestroyStep == ASSUME IInv, Destroy PROVE IInv'
<1>1. reading' = NoRead /\ writing' = NoWrite /\ ret' = ret  BY DEF Destroy
<1>2. RetInv'  BY <1>1 DEF IInv, RetInv
<1>3. RingInv'
  <2>1. Sound(cb)  BY CbFields DEF IInv, Destroy
  <2> DEFINE a == cb.buffer
             c == cb.capacity
             h == cb.head
             t == cb.tail
             q == cb.count
             m == cb.overwrite
  <2>2. cb = [buffer |-> a, capacity |-> c, head |-> h, tail |-> t, count |-> q, overwrite |-> m]
        /\ m \in BOOLEAN
    BY <2>1, SoundFields
  <2>3. cb' = [cb EXCEPT !.buffer = <<>>, !.capacity = 0, !.head = 0, !.tail = 0, !.count = 0]
    BY DEF Destroy, Destroyed
  <2> HIDE DEF a, c, h, t, q, m
  <2>4. cb' = [buffer |-> <<>>, capacity |-> 0, head |-> 0, tail |-> 0, count |-> 0, overwrite |-> m]
    BY <2>2, <2>3
  <2> QED  BY <2>2, <2>4 DEF RingInv
<1> QED  BY <1>1, <1>2, <1>3, Dropped DEF IInv

\* circular_buffer_clear() leaves a sound ring sound.
LEMMA ClearedEffect ==
    ASSUME NEW b, Sound(b)
    PROVE  LET r == [b EXCEPT !.head = 0, !.tail = 0, !.count = 0]
           IN  Sound(r) /\ r.capacity = b.capacity /\ r.overwrite = b.overwrite /\ r.count = 0
<1> DEFINE a == b.buffer
           c == b.capacity
           h == b.head
           t == b.tail
           q == b.count
           m == b.overwrite
           zero == 0
           r == [b EXCEPT !.head = zero, !.tail = zero, !.count = zero]
<1>1. c \in Nat \ {0} /\ a \in [0 .. c - 1 -> Byte] /\ m \in BOOLEAN  BY SoundFields
<1>2. b = [buffer |-> a, capacity |-> c, head |-> h, tail |-> t, count |-> q, overwrite |-> m]
  BY SoundFields
<1>3. zero \in 0 .. c - 1 /\ zero \in 0 .. c /\ Wrap(zero + zero, c) = zero
  <2> HIDE DEF c
  <2> QED  BY <1>1 DEF Wrap
<1>0. r = [b EXCEPT !.head = zero, !.tail = zero, !.count = zero]  OBVIOUS
<1> HIDE DEF a, c, h, t, q, m, zero, r
<1>4. r = [buffer |-> a, capacity |-> c, head |-> zero, tail |-> zero, count |-> zero,
           overwrite |-> m]
  BY <1>2, <1>0
<1>5. Sound([buffer |-> a, capacity |-> c, head |-> zero, tail |-> Wrap(zero + zero, c),
             count |-> zero, overwrite |-> m])
  BY <1>1, <1>3, IsSound
<1>6. Sound(r)  BY <1>3, <1>4, <1>5
<1> QED  BY <1>4, <1>6 DEF r, c, m, zero

LEMMA ClearStep == ASSUME IInv, Clear PROVE IInv'
<1>1. /\ reading' = NoRead /\ writing' = NoWrite /\ ret' = ret
      /\ cb' = [cb EXCEPT !.head = 0, !.tail = 0, !.count = 0]
  BY DEF Clear
<1>2. RetInv'  BY <1>1 DEF IInv, RetInv
<1>3. RingInv'
  <2>1. CASE cb.capacity = 0
    <3> DEFINE m == cb.overwrite
    <3>1. /\ m \in BOOLEAN
          /\ cb = [buffer |-> <<>>, capacity |-> 0, head |-> 0, tail |-> 0, count |-> 0, overwrite |-> m]
      BY <2>1 DEF IInv, RingInv
    <3>2. cb = [buffer |-> <<>>, capacity |-> 0, head |-> 0, tail |-> 0, count |-> 0, overwrite |-> m]
      BY <3>1
    <3>3. cb' = [cb EXCEPT !.head = 0, !.tail = 0, !.count = 0]  BY <1>1
    <3> DEFINE a == <<>>
               zero == 0
    <3> HIDE DEF m, a, zero
    <3>4. cb' = [buffer |-> a, capacity |-> zero, head |-> zero, tail |-> zero, count |-> zero,
                 overwrite |-> m]
      BY <3>2, <3>3 DEF a, zero
    <3> QED  BY <3>1, <3>4 DEF RingInv, a, zero
  <2>2. CASE cb.capacity # 0
    <3>1. Sound(cb)  BY <2>2 DEF IInv, RingInv
    <3>2. Sound(cb') /\ cb'.capacity = cb.capacity /\ cb'.overwrite = cb.overwrite
      BY <1>1, <3>1, ClearedEffect
    <3> QED  BY <2>2, <3>2 DEF IInv, RingInv
  <2> QED  BY <2>1, <2>2
<1> QED  BY <1>1, <1>2, <1>3, Dropped DEF IInv

LEMMA DataIs ==
    ASSUME NEW data \in Data
    PROVE  data \in Seq(Byte) /\ Len(data) \in Nat \ {0}
<1>1. data \in Seq(Bytes) /\ data # <<>>  BY CircularBufferAssumption
<1>2. Len(data) \in Nat \ {0}  BY <1>1, EmptySeq, LenProperties
<1>3. Bytes \subseteq Byte  BY DEF Byte
<1>4. data \in Seq(Byte)  BY <1>1, <1>3, SeqMonotonic
<1> QED  BY <1>2, <1>4

\* Appending keeps what the consumer holds.
LEMMA AppendedKeeps ==
    ASSUME IInv, cb.capacity # 0, NEW data, NEW w \in Nat, Appended(cb, data, w, cb'),
           reading' = reading
    PROVE  RingInv' /\ ReadInv'
<1>1. /\ Sound(cb') /\ cb'.capacity = cb.capacity /\ cb'.overwrite = cb.overwrite
      /\ cb'.count = Least(cb.count + w, cb.capacity)
      /\ ~cb.overwrite => cb'.head = cb.head /\ cb.count + w <= cb.capacity
  BY DEF Appended
<1>2. RingInv /\ ReadInv  BY DEF IInv
<1>3. RingInv'  BY <1>1, <1>2 DEF RingInv
<1>4. cb.count \in Nat /\ cb.capacity \in Nat  BY <1>2, CbFields
<1>5. ASSUME ~cb.overwrite PROVE cb'.count \in Nat /\ cb'.count >= cb.count
  BY <1>1, <1>4, <1>5 DEF Least
<1> QED  BY <1>1, <1>2, <1>3, <1>5, ReadKept

LEMMA WriteStep == ASSUME IInv, NEW data \in Data, Write(data) PROVE IInv'
<1> DEFINE w == Written(cb, data)
<1>1. /\ cb' = w.ring /\ Returned(w.written, <<>>) /\ writing' = NoWrite /\ reading' = reading
      /\ cb.capacity > 0 \/ ~cb.overwrite
  BY DEF Write
<1>2. WriteInv'  BY <1>1, Dropped
<1>3. CASE cb.capacity = 0
  <2>1. cb.count = cb.capacity /\ ~cb.overwrite  BY <1>1, <1>3 DEF IInv, RingInv
  <2>2. w.ring = cb /\ w.written = 0  BY <2>1 DEF Written
  <2> HIDE DEF w
  <2>3. cb' = cb /\ Returned(0, <<>>)  BY <1>1, <2>2
  <2>4. RetInv'  BY <2>3, ReturnedNumber
  <2> QED  BY <1>1, <1>2, <2>3, <2>4, BothKept DEF IInv
<1>4. CASE cb.capacity # 0
  <2>1. Sound(cb)  BY <1>4 DEF IInv, RingInv
  <2>2. data \in Seq(Byte) /\ Len(data) \in Nat  BY DataIs
  <2>3. IsWritten(cb, data, w)  BY <2>1, <2>2, WriteEffect
  <2> DEFINE n == w.written
  <2>4. n \in Nat /\ n \in Int /\ Appended(cb, data, n, cb')
    BY <1>1, <2>2, <2>3 DEF IsWritten
  <2>5. Returned(n, <<>>)  BY <1>1
  <2> HIDE DEF w, n
  <2>6. RingInv' /\ ReadInv'  BY <1>1, <1>4, <2>4, AppendedKeeps
  <2>7. RetInv'  BY <2>4, <2>5, ReturnedNumber
  <2> QED  BY <1>2, <2>6, <2>7 DEF IInv
<1> QED  BY <1>3, <1>4

\* What circular_buffer_copy() takes of the source.
Copied(src, size) ==
    LET wanted == Least(size, src.count)
    IN  IF wanted > cb.capacity - cb.count /\ ~cb.overwrite THEN cb.capacity - cb.count ELSE wanted

\* It is there, and there is room for it.
LEMMA CopiedIs ==
    ASSUME RingInv, cb.capacity # 0, NEW src \in Sources, NEW size \in Sizes
    PROVE  /\ CanCopy(cb, src, Copied(src, size))
           /\ Copied(src, size) \in 0 .. Least(size, src.count) /\ src.count \in 0 .. src.capacity
           /\ size \in Nat
<1> DEFINE c == src.capacity
           q == src.count
           wanted == Least(size, q)
           n == Copied(src, size)
<1>1. /\ c \in Nat \ {0} /\ q \in 0 .. c /\ src.head \in 0 .. c /\ src.head < c
      /\ src.buffer \in [0 .. c - 1 -> Byte] /\ size \in Nat
  BY CircularBufferAssumption DEF Ring, Byte
<1>2. cb.capacity \in Nat /\ cb.count \in 0 .. cb.capacity  BY CbFields
<1> DEFINE room == cb.capacity - cb.count
<1>3. wanted \in 0 .. c /\ wanted \in Nat
  <2> HIDE DEF c, q
  <2> QED  BY <1>1 DEF Least
<1>4. room \in Nat  BY <1>2
<1>5. n = IF wanted > room /\ ~cb.overwrite THEN room ELSE wanted  BY Zenon DEF Copied
<1> HIDE DEF n, wanted, c
<1>6. n \in 0 .. wanted /\ (cb.overwrite \/ n <= room)
  <2> HIDE DEF room
  <2> QED  BY <1>3, <1>4, <1>5
<1>7. cb.overwrite \/ cb.count + n <= cb.capacity  BY <1>2, <1>3, <1>6
<1>8. n \in 0 .. c  BY <1>1, <1>3, <1>6
<1>9. src.head \in 0 .. c - 1  BY <1>1
<1>10. Readable(src)  BY <1>1 DEF Readable, c
<1>11. CanCopy(cb, src, n)  BY <1>1, <1>7, <1>8, <1>9, <1>10 DEF CanCopy, c
<1> QED  BY <1>1, <1>6, <1>11 DEF n, wanted, c

LEMMA CopyStep == ASSUME IInv, NEW src \in Sources, NEW size \in Sizes, Copy(src, size) PROVE IInv'
<1> DEFINE n == Copied(src, size)
           w == CopyLoop(cb, src, n)
<1>1. /\ cb.capacity > 0 /\ cb' = w.ring /\ Returned(w.written, <<>>)
      /\ writing' = NoWrite /\ reading' = reading
  BY Zenon DEF Copy, Copied
<1>2. RingInv /\ cb.capacity # 0  BY <1>1, CbFields DEF IInv
<1>3. Sound(cb)  BY <1>2 DEF RingInv
<1>4. CanCopy(cb, src, n)  BY <1>2, CopiedIs
<1>5. n \in Nat  BY <1>4, TakenIs
<1> HIDE DEF n
<1>6. w.written = n /\ Appended(cb, Taken(src, n), n, w.ring)  BY <1>3, <1>4, CopyEffect
<1> HIDE DEF w
<1>7. Appended(cb, Taken(src, n), n, cb') /\ Returned(n, <<>>) /\ n \in Int
  BY <1>1, <1>5, <1>6
<1>8. RingInv' /\ ReadInv'  BY <1>1, <1>2, <1>5, <1>7, AppendedKeeps
<1>9. RetInv'  BY <1>7, ReturnedNumber
<1>10. WriteInv'  BY <1>1, Dropped
<1> QED  BY <1>8, <1>9, <1>10 DEF IInv

\* Taking bytes keeps what the producer holds.
LEMMA ConsumedKeeps ==
    ASSUME IInv, cb.capacity # 0, NEW n \in 0 .. cb.count, cb' = Consumed(cb, n),
           writing' = writing
    PROVE  RingInv' /\ WriteInv'
<1>1. RingInv /\ WriteInv /\ Sound(cb)  BY DEF IInv, RingInv
<1>2. /\ Sound(cb') /\ cb'.capacity = cb.capacity /\ cb'.overwrite = cb.overwrite
      /\ cb'.buffer = cb.buffer /\ cb'.tail = cb.tail /\ cb'.count = cb.count - n
  BY <1>1, ConsumedEffect
<1>3. RingInv'  BY <1>1, <1>2 DEF RingInv
<1>4. cb.count \in Nat  BY <1>1, CbFields
<1>5. cb'.count \in Nat /\ cb'.count <= cb.count  BY <1>2, <1>4
<1>6. WriteInv'  BY <1>1, <1>2, <1>5, WriteKept
<1> QED  BY <1>3, <1>6

\* How many bytes circular_buffer_read() takes.
LEMMA LeastOfCount ==
    ASSUME RingInv, NEW size \in Sizes
    PROVE  /\ Least(size, cb.count) \in 0 .. cb.count /\ Least(size, cb.count) \in Nat
           /\ cb.capacity = 0 => Least(size, cb.count) = 0
<1> DEFINE q == cb.count
<1>1. q \in Nat /\ (cb.capacity = 0 => q = 0) /\ size \in Nat
  BY CbFields, CircularBufferAssumption
<1> HIDE DEF q
<1>2. Least(size, q) \in 0 .. q /\ Least(size, q) \in Nat  BY <1>1 DEF Least
<1>3. q = 0 => Least(size, q) = 0  BY <1>1 DEF Least
<1> QED  BY <1>1, <1>2, <1>3 DEF q

LEMMA ReadStep == ASSUME IInv, NEW size \in Sizes, Read(size) PROVE IInv'
<1> DEFINE n == Least(size, cb.count)
<1>1. /\ cb' = IF n = 0 THEN cb ELSE Consumed(cb, n)
      /\ Returned(n, Region(cb, cb.head, n))
      /\ reading' = NoRead /\ writing' = writing
  BY Zenon DEF Read
<1>2. RingInv  BY DEF IInv
<1>3. n \in 0 .. cb.count /\ n \in Nat /\ (cb.capacity = 0 => n = 0)  BY <1>2, LeastOfCount
<1> HIDE DEF n
<1>4. Region(cb, cb.head, n) \in Seq(Byte)
  <2>1. cb.head \in Nat  BY <1>2, CbFields
  <2>2. n # 0 => Sound(cb) /\ cb.head + n <= cb.capacity + cb.capacity  BY <1>2, <1>3, CbFields
  <2> QED  BY <1>3, <2>1, <2>2, RegionType
<1>5. RetInv'
  <2> DEFINE data == Region(cb, cb.head, n)
  <2>1. data \in Seq(Byte) /\ Returned(n, data) /\ n \in Int  BY <1>1, <1>3, <1>4
  <2> HIDE DEF data
  <2> QED  BY <2>1, ReturnedBytes
<1>6. ReadInv'  BY <1>1, Dropped
<1>7. CASE n = 0
  <2>1. cb' = cb  BY <1>1, <1>7
  <2> QED  BY <1>1, <1>5, <1>6, <2>1, BothKept DEF IInv
<1>8. CASE n # 0
  <2>1. cb' = Consumed(cb, n) /\ cb.capacity # 0  BY <1>1, <1>3, <1>8
  <2>2. RingInv' /\ WriteInv'  BY <1>1, <1>3, <2>1, ConsumedKeeps
  <2> QED  BY <1>5, <1>6, <2>2 DEF IInv
<1> QED  BY <1>7, <1>8

LEMMA AdvanceReadStep == ASSUME IInv, NEW size \in Sizes, AdvanceRead(size) PROVE IInv'
<1> DEFINE n == Least(size, cb.count)
<1>1. /\ cb.capacity > 0 /\ cb' = Consumed(cb, n)
      /\ reading' = NoRead /\ writing' = writing /\ ret' = ret
  BY Zenon DEF AdvanceRead
<1>2. RingInv  BY DEF IInv
<1>3. n \in 0 .. cb.count /\ cb.capacity # 0  BY <1>1, <1>2, LeastOfCount, CbFields
<1> HIDE DEF n
<1>4. RingInv' /\ WriteInv'  BY <1>1, <1>3, ConsumedKeeps
<1>5. ReadInv'  BY <1>1, Dropped
<1>6. RetInv'  BY <1>1 DEF IInv, RetInv
<1> QED  BY <1>4, <1>5, <1>6 DEF IInv

\* How many bytes circular_buffer_peek() delivers.
Peeked(size, offset) == IF offset >= cb.count THEN 0 ELSE Least(size, cb.count - offset)

LEMMA PeekedIs ==
    ASSUME RingInv, NEW size \in Sizes, NEW offset \in Sizes
    PROVE  /\ Peeked(size, offset) \in Nat /\ size \in Nat /\ offset \in Nat
           /\ Peeked(size, offset) # 0 =>
                 Sound(cb) /\ offset + Peeked(size, offset) <= cb.count
           /\ cb.head + offset \in Nat
<1> DEFINE q == cb.count
           n == Peeked(size, offset)
<1>1. /\ q \in 0 .. cb.capacity /\ q \in Nat /\ cb.head \in Nat /\ size \in Nat /\ offset \in Nat
      /\ (cb.capacity = 0 => q = 0) /\ (cb.capacity # 0 => Sound(cb))
  BY CbFields, CircularBufferAssumption
<1>2. n = IF offset >= q THEN 0 ELSE Least(size, q - offset)  BY Zenon DEF Peeked
<1> HIDE DEF n, q
<1>3. n \in Nat /\ (n # 0 => offset + n <= q)  BY <1>1, <1>2 DEF Least
<1>4. n # 0 => Sound(cb)  BY <1>1, <1>3
<1>5. cb.head + offset \in Nat  BY <1>1
<1> QED  BY <1>1, <1>3, <1>4, <1>5 DEF n, q

LEMMA PeekStep == ASSUME IInv, NEW size \in Sizes, NEW offset \in Sizes, Peek(size, offset) PROVE IInv'
<1> DEFINE n == Peeked(size, offset)
           from == cb.head + offset
           data == Region(cb, from, n)
<1>1. Returned(n, data) /\ cb' = cb /\ reading' = reading /\ writing' = writing
  BY Zenon DEF Peek, Peeked
<1>2. RingInv  BY DEF IInv
<1>3. n \in Nat /\ from \in Nat /\ (n # 0 => Sound(cb) /\ offset + n <= cb.count) /\ offset \in Nat
  BY <1>2, PeekedIs
<1>4. data \in Seq(Byte)
  <2>1. n # 0 => Sound(cb) /\ from + n <= cb.capacity + cb.capacity
    <3> HIDE DEF n
    <3>1. n # 0 => cb.head \in 0 .. cb.capacity - 1 /\ cb.count \in 0 .. cb.capacity
      BY <1>3, SoundFields
    <3>2. cb.capacity \in Nat  BY <1>2, CbFields
    <3> QED  BY <1>3, <3>1, <3>2
  <2> HIDE DEF n, from
  <2> QED  BY <1>3, <2>1, RegionType
<1> HIDE DEF n, data
<1>5. RetInv'
  <2>1. n \in Int  BY <1>3
  <2> QED  BY <1>1, <1>4, <2>1, ReturnedBytes
<1> QED  BY <1>1, <1>5, BothKept DEF IInv

\* Where the pattern is, and what circular_buffer_find() returns.
Places(pattern) ==
    {i \in 0 .. cb.count - Len(pattern) : Region(cb, cb.head + i, Len(pattern)) = pattern}

Found(pattern) ==
    IF Places(pattern) = {} THEN -1
    ELSE CHOOSE i \in Places(pattern) : \A j \in Places(pattern) : i <= j

LEMMA FoundIs ==
    ASSUME RingInv, NEW pattern \in Data
    PROVE  /\ Found(pattern) \in Int
           /\ IF Places(pattern) = {} THEN Found(pattern) = -1
              ELSE /\ Found(pattern) \in Places(pattern)
                   /\ \A j \in Places(pattern) : Found(pattern) <= j
<1> DEFINE P == Places(pattern)
           best == CHOOSE i \in P : \A j \in P : i <= j
<1>1. P \in SUBSET Nat
  <2>1. cb.count - Len(pattern) \in Int  BY CbFields, DataIs
  <2> QED  BY <2>1 DEF Places
<1>2. Found(pattern) = IF P = {} THEN -1 ELSE best  BY Zenon DEF Found
<1> HIDE DEF P
<1>3. CASE P = {}  BY <1>2, <1>3 DEF P
<1>4. CASE P # {}
  <2>1. \E i \in P : \A j \in P : i <= j  BY <1>1, <1>4, LeastNatural
  <2>2. best \in P /\ \A j \in P : best <= j  BY <2>1, Zenon
  <2> HIDE DEF best
  <2>3. Found(pattern) = best /\ best \in Int  BY <1>1, <1>2, <1>4, <2>2
  <2> QED  BY <1>4, <2>2, <2>3 DEF P
<1> QED  BY <1>3, <1>4

LEMMA FindStep == ASSUME IInv, NEW pattern \in Data, Find(pattern) PROVE IInv'
<1>1. Returned(Found(pattern), <<>>) /\ cb' = cb /\ reading' = reading /\ writing' = writing
  BY Zenon DEF Find, Found, Places
<1>2. Found(pattern) \in Int  BY FoundIs DEF IInv
<1>3. RetInv'  BY <1>1, <1>2, ReturnedNumber
<1> QED  BY <1>1, <1>3, BothKept DEF IInv

\* How many bytes are behind the read pointer.
ReadRoom == Least(cb.count, cb.capacity - cb.head)

LEMMA ReadRoomIs ==
    ASSUME RingInv
    PROVE  /\ ReadRoom \in 0 .. cb.count /\ ReadRoom \in Nat /\ (ReadRoom = 0 <=> cb.count = 0)
           /\ cb.head + ReadRoom <= cb.capacity /\ cb.head \in Nat
           /\ ReadRoom # 0 => cb.capacity # 0 /\ Sound(cb)
<1>1. /\ cb.capacity \in Nat /\ cb.head \in Nat /\ cb.count \in 0 .. cb.capacity
      /\ cb.capacity = 0 => cb.count = 0 /\ cb.head = 0
      /\ cb.capacity # 0 => Sound(cb) /\ cb.head \in 0 .. cb.capacity - 1
  BY CbFields
<1>2. CASE cb.capacity = 0  BY <1>1, <1>2 DEF ReadRoom, Least
<1>3. CASE cb.capacity # 0
  <2> DEFINE c == cb.capacity
             h == cb.head
             q == cb.count
  <2>1. c \in Nat \ {0} /\ h \in 0 .. c - 1 /\ q \in 0 .. c /\ Sound(cb)  BY <1>1, <1>3
  <2>2. ReadRoom = Least(q, c - h)  BY Zenon DEF ReadRoom
  <2> HIDE DEF c, h, q
  <2>3. /\ ReadRoom \in 0 .. q /\ ReadRoom \in Nat /\ (ReadRoom = 0 <=> q = 0)
        /\ h + ReadRoom <= c /\ h \in Nat
    BY <2>1, <2>2 DEF Least
  <2> QED  BY <1>3, <2>1, <2>3 DEF c, h, q
<1> QED  BY <1>2, <1>3

LEMMA GetReadPtrStep == ASSUME IInv, GetReadPtr PROVE IInv'
<1> DEFINE n == ReadRoom
           data == Region(cb, cb.head, n)
<1>1. /\ Returned(n, data) /\ cb' = cb /\ writing' = writing
      /\ reading' = IF n = 0 THEN NoRead ELSE [from |-> cb.head, len |-> n]
  BY Zenon DEF GetReadPtr, ReadRoom
<1>2. RingInv  BY DEF IInv
<1>3. /\ n \in 0 .. cb.count /\ n \in Nat /\ cb.head + n <= cb.capacity /\ cb.head \in Nat
      /\ (n # 0 => cb.capacity # 0 /\ Sound(cb))
  BY <1>2, ReadRoomIs
<1> HIDE DEF n
<1>4. data \in Seq(Byte)
  <2>1. n # 0 => cb.head + n <= cb.capacity + cb.capacity
    <3>1. cb.capacity \in Nat  BY <1>2, CbFields
    <3> QED  BY <1>3, <3>1
  <2> QED  BY <1>3, <2>1, RegionType
<1>5. RetInv'
  <2>1. n \in Int  BY <1>3
  <2> HIDE DEF data
  <2> QED  BY <1>1, <1>4, <2>1, ReturnedBytes
<1>6. ReadInv'
  <2>1. CASE n = 0  BY <1>1, <2>1, Dropped
  <2>2. CASE n # 0
    <3>1. reading' = [from |-> cb.head, len |-> n]  BY <1>1, <2>2
    <3>2. n <= cb.count  BY <1>2, <1>3, CbFields
    <3> QED  BY <1>1, <1>3, <2>2, <3>1, <3>2 DEF ReadInv
  <2> QED  BY <2>1, <2>2
<1> QED  BY <1>1, <1>5, <1>6, BothKept DEF IInv

LEMMA WriteRoomIs ==
    ASSUME RingInv
    PROVE  /\ WriteRoom(cb) \in Nat /\ cb.tail \in Nat
           /\ cb.count + WriteRoom(cb) <= cb.capacity /\ cb.tail + WriteRoom(cb) <= cb.capacity
           /\ (WriteRoom(cb) = 0 <=> cb.count = cb.capacity)
<1> DEFINE c == cb.capacity
           q == cb.count
           t == cb.tail
           n == WriteRoom(cb)
<1>1. c \in Nat /\ q \in 0 .. c /\ t \in Nat /\ (c # 0 => t \in 0 .. c - 1) /\ (c = 0 => t = 0)
  <2>1. c = 0 => t = 0  BY DEF RingInv
  <2> QED  BY <2>1, CbFields
<1>2. n = Least(c - t, c - q)  BY Zenon DEF WriteRoom
<1> HIDE DEF c, q, t, n
<1>3. n \in Nat /\ t \in Nat /\ q + n <= c /\ t + n <= c /\ (n = 0 <=> q = c)
  <2> DEFINE x == c - t
             y == c - q
  <2>1. x \in Nat /\ y \in Nat /\ t + x = c /\ q + y = c /\ (x = 0 => y = 0)
    <3>1. CASE c = 0  BY <1>1, <3>1
    <3>2. CASE c # 0  BY <1>1, <3>2
    <3> QED  BY <3>1, <3>2
  <2>2. n = Least(x, y)  BY <1>2
  <2> HIDE DEF x, y
  <2>3. n \in Nat /\ n <= x /\ n <= y /\ (n = 0 <=> y = 0)  BY <2>1, <2>2 DEF Least
  <2> QED  BY <1>1, <2>1, <2>3
<1> QED  BY <1>3 DEF c, q, t, n

LEMMA GetWritePtrStep == ASSUME IInv, GetWritePtr PROVE IInv'
<1> DEFINE n == WriteRoom(cb)
<1>1. /\ Returned(n, <<>>) /\ cb' = cb /\ reading' = reading
      /\ writing' = IF cb.count = cb.capacity THEN NoWrite
                    ELSE [from |-> cb.tail, len |-> n, filled |-> <<>>]
  BY Zenon DEF GetWritePtr
<1>2. RingInv  BY DEF IInv
<1>3. /\ n \in Nat /\ cb.tail \in Nat /\ cb.count + n <= cb.capacity /\ cb.tail + n <= cb.capacity
      /\ (n = 0 <=> cb.count = cb.capacity)
  BY <1>2, WriteRoomIs
<1> HIDE DEF n
<1>4. RetInv'
  <2>1. n \in Int  BY <1>3
  <2> QED  BY <1>1, <2>1, ReturnedNumber
<1>5. WriteInv'
  <2>1. CASE cb.count = cb.capacity  BY <1>1, <2>1, Dropped
  <2>2. CASE cb.count # cb.capacity
    <3>1. writing' = [from |-> cb.tail, len |-> n, filled |-> <<>>]  BY <1>1, <2>2
    <3>2. <<>> \in Seq(Byte) /\ Len(<<>>) = 0  OBVIOUS
    <3>3. cb.capacity # 0
      <4>1. cb.capacity = 0 => cb.count = 0  BY <1>2, CbFields
      <4> QED  BY <2>2, <4>1
    <3> DEFINE e == <<>>
    <3>4. e \in Seq(Byte) /\ Len(e) = 0 /\ writing' = [from |-> cb.tail, len |-> n, filled |-> e]
      BY <3>1, <3>2
    <3> HIDE DEF e
    <3>5. /\ writing'.from = cb.tail /\ writing'.len = n /\ writing'.filled = e
          /\ writing' \in [from : Nat, len : Nat, filled : Seq(Byte)]
      BY <1>3, <3>4
    <3>6. Len(writing'.filled) <= writing'.len /\ \A k \in 1 .. Len(writing'.filled) : FALSE
      BY <1>3, <3>4, <3>5
    <3> QED  BY <1>1, <1>3, <3>3, <3>5, <3>6 DEF WriteInv
  <2> QED  BY <2>1, <2>2
<1> QED  BY <1>1, <1>4, <1>5, BothKept DEF IInv

LEMMA FillStep == ASSUME IInv, NEW data \in Data, Fill(data) PROVE IInv'
<1> DEFINE n == Len(data)
<1>1. /\ n <= writing.len /\ cb' = [cb EXCEPT !.buffer = Stored(cb, writing.from, data)]
      /\ writing' = [writing EXCEPT !.filled = data] /\ ret' = ret /\ reading' = reading
  BY DEF Fill
<1>2. data \in Seq(Byte) /\ n \in Nat \ {0}  BY DataIs
<1>3. /\ writing \in [from : Nat, len : Nat, filled : Seq(Byte)]
      /\ cb.capacity = 0 => writing.len = 0
      /\ writing.len > 0 =>
            /\ writing.from = cb.tail
            /\ cb.count + writing.len <= cb.capacity /\ cb.tail + writing.len <= cb.capacity
  BY DEF IInv, WriteInv
<1>4. writing.len \in Nat  BY <1>3
<1> HIDE DEF n
<1>5. writing.len > 0 /\ cb.capacity # 0  BY <1>1, <1>2, <1>3, <1>4
<1>6. RingInv /\ Sound(cb)  BY <1>5 DEF IInv, RingInv
<1>7. cb.tail + n <= cb.capacity /\ cb.count + n <= cb.capacity
  <2>1. cb.tail \in Nat /\ cb.count \in Nat /\ cb.capacity \in Nat  BY <1>6, CbFields
  <2> QED  BY <1>1, <1>2, <1>3, <1>4, <1>5, <2>1
<1>8. cb' = [cb EXCEPT !.buffer = Stored(cb, cb.tail, data)]  BY <1>1, <1>3, <1>5
<1>9. /\ Sound(cb') /\ cb'.capacity = cb.capacity /\ cb'.overwrite = cb.overwrite
      /\ cb'.head = cb.head /\ cb'.tail = cb.tail /\ cb'.count = cb.count
      /\ \A k \in 1 .. n : cb'.buffer[cb.tail + k - 1] = data[k]
  BY <1>2, <1>6, <1>7, <1>8, FilledEffect DEF n
<1>10. RingInv'  BY <1>5, <1>6, <1>9 DEF RingInv
<1>11. ReadInv'  BY <1>1, <1>9 DEF IInv, ReadInv
<1>12. WriteInv'
  <2>1. /\ writing'.from = writing.from /\ writing'.len = writing.len /\ writing'.filled = data
        /\ writing' \in [from : Nat, len : Nat, filled : Seq(Byte)]
    BY <1>1, <1>2, <1>3
  <2> QED  BY <1>1, <1>3, <1>5, <1>9, <2>1 DEF WriteInv, n
<1>13. RetInv'  BY <1>1 DEF IInv, RetInv
<1> QED  BY <1>10, <1>11, <1>12, <1>13 DEF IInv

LEMMA AdvanceWriteStep == ASSUME IInv, NEW size \in Sizes, AdvanceWrite(size) PROVE IInv'
<1> DEFINE n == Least(size, cb.capacity - cb.count)
<1>1. /\ cb.capacity > 0
      /\ cb' = [cb EXCEPT !.tail = (@ + n) % cb.capacity, !.count = @ + n]
      /\ writing' = NoWrite /\ ret' = ret /\ reading' = reading
  BY Zenon DEF AdvanceWrite
<1>2. RingInv /\ ReadInv  BY DEF IInv
<1>3. cb.capacity # 0 /\ cb.capacity \in Nat /\ cb.count \in 0 .. cb.capacity /\ Sound(cb)
  BY <1>1, <1>2, CbFields
<1>4. n \in 0 .. cb.capacity - cb.count
  <2> DEFINE room == cb.capacity - cb.count
  <2>1. room \in Nat /\ size \in Nat  BY <1>3, CircularBufferAssumption
  <2> HIDE DEF room
  <2>2. Least(size, room) \in 0 .. room  BY <2>1 DEF Least
  <2> QED  BY <2>2 DEF room
<1> HIDE DEF n
<1>5. /\ Sound(cb') /\ cb'.capacity = cb.capacity /\ cb'.overwrite = cb.overwrite
      /\ cb'.head = cb.head /\ cb'.count = cb.count + n
  BY <1>1, <1>3, <1>4, CommittedEffect
<1>6. RingInv'  BY <1>2, <1>3, <1>5 DEF RingInv
<1>7. cb'.count \in Nat /\ cb'.count >= cb.count  BY <1>3, <1>4, <1>5
<1>8. ReadInv'  BY <1>1, <1>2, <1>5, <1>7, ReadKept
<1>9. WriteInv'  BY <1>1, Dropped
<1>10. RetInv'  BY <1>1 DEF IInv, RetInv
<1> QED  BY <1>6, <1>8, <1>9, <1>10 DEF IInv

\* Every step keeps the invariant.
LEMMA StepInv == IInv /\ [Next]_vars => IInv'
<1> SUFFICES ASSUME IInv, [Next]_vars PROVE IInv'  OBVIOUS
<1>1. ASSUME NEW capacity \in Capacities, NEW overwrite \in BOOLEAN,
             CircularBufferInit(capacity, overwrite)
      PROVE  IInv'
  BY <1>1, CreateStep
<1>2. CASE Destroy  BY <1>2, DestroyStep
<1>3. CASE Clear  BY <1>3, ClearStep
<1>4. ASSUME NEW data \in Data, Write(data) PROVE IInv'  BY <1>4, WriteStep
<1>5. ASSUME NEW data \in Data, Fill(data) PROVE IInv'  BY <1>5, FillStep
<1>6. ASSUME NEW data \in Data, Find(data) PROVE IInv'  BY <1>6, FindStep
<1>7. ASSUME NEW src \in Sources, NEW size \in Sizes, Copy(src, size) PROVE IInv'
  BY <1>7, CopyStep
<1>8. ASSUME NEW size \in Sizes, Read(size) PROVE IInv'  BY <1>8, ReadStep
<1>9. ASSUME NEW size \in Sizes, AdvanceRead(size) PROVE IInv'  BY <1>9, AdvanceReadStep
<1>10. ASSUME NEW size \in Sizes, AdvanceWrite(size) PROVE IInv'  BY <1>10, AdvanceWriteStep
<1>11. ASSUME NEW size \in Sizes, NEW offset \in Sizes, Peek(size, offset) PROVE IInv'
  BY <1>11, PeekStep
<1>12. CASE GetReadPtr  BY <1>12, GetReadPtrStep
<1>13. CASE GetWritePtr  BY <1>13, GetWritePtrStep
<1>14. CASE UNCHANGED vars
  <2>1. cb' = cb /\ ret' = ret /\ reading' = reading /\ writing' = writing  BY <1>14 DEF vars
  <2>2. RetInv'  BY <2>1 DEF IInv, RetInv
  <2> QED  BY <2>1, <2>2, BothKept DEF IInv
<1> QED
  BY <1>1, <1>2, <1>3, <1>4, <1>5, <1>6, <1>7, <1>8, <1>9, <1>10, <1>11, <1>12, <1>13, <1>14 DEF Next

LEMMA Invariance == Spec => []IInv
  BY InitInv, StepInv, PTL DEF Spec

-----------------------------------------------------------------------------
(* What the invariant says.                                                  *)

\* The bytes and indices of a buffer are what circular_buffer.h declares, and the indices
\* agree with the count.
THEOREM TypeCorrect == Spec => []TypeOK
<1>1. IInv => TypeOK
  <2> SUFFICES ASSUME IInv PROVE TypeOK  OBVIOUS
  <2>1. ret.n \in Int /\ ret.data \in Seq(Bytes \union {Junk})  BY DEF IInv, RetInv, Byte
  <2>2. CASE cb.capacity = 0
    <3> DEFINE m == cb.overwrite
    <3>1. /\ m \in BOOLEAN
          /\ cb = [buffer |-> <<>>, capacity |-> 0, head |-> 0, tail |-> 0, count |-> 0, overwrite |-> m]
      BY <2>2 DEF IInv, RingInv
    <3>2. <<>> \in [0 .. 0 - 1 -> Bytes \union {Junk}]
      <4>1. 0 .. 0 - 1 = {}  OBVIOUS
      <4>2. <<>> = [x \in {} |-> Junk]  OBVIOUS
      <4> QED  BY <4>1, <4>2
    <3> HIDE DEF m
    <3>3. cb \in Ring(0)  BY <3>1, <3>2 DEF Ring
    <3> QED  BY <2>1, <2>2, <3>3 DEF TypeOK
  <2>3. CASE cb.capacity # 0
    <3>1. cb.capacity \in Capacities /\ Sound(cb)  BY <2>3 DEF IInv, RingInv
    <3> QED  BY <2>1, <3>1 DEF TypeOK, Sound
  <2> QED  BY <2>2, <2>3
<1> QED  BY <1>1, Invariance, PTL

\* What a consumer sees through circular_buffer_get_read_ptr() stays the oldest bytes of the
\* buffer, whatever the producer does, unless the buffer overwrites.
THEOREM ReadPointerStaysGood == Spec => []ReadWindowStable
<1>1. IInv => ReadWindowStable
  <2> SUFFICES ASSUME IInv, ~cb.overwrite
               PROVE  /\ reading.len <= cb.count
                      /\ \A k \in 0 .. reading.len - 1 :
                            cb.buffer[reading.from + k] = Contents(cb)[k + 1]
    BY DEF ReadWindowStable
  <2>1. /\ reading.len \in Nat /\ (cb.capacity = 0 => reading.len = 0)
        /\ reading.len > 0 => /\ reading.from = cb.head /\ reading.len <= cb.count
                              /\ cb.head + reading.len <= cb.capacity
    BY DEF IInv, ReadInv
  <2>2. CASE reading.len = 0
    <3>1. cb.count \in Nat  BY CbFields DEF IInv
    <3> QED  BY <2>2, <3>1
  <2>3. CASE reading.len > 0
    <3>1. cb.capacity # 0 /\ Sound(cb)  BY <2>1, <2>3 DEF IInv, RingInv
    <3>2. cb.head \in Nat /\ cb.capacity \in Nat /\ cb.count \in Nat  BY <3>1, SoundFields
    <3>3. ASSUME NEW k \in 0 .. reading.len - 1
          PROVE  cb.buffer[reading.from + k] = Contents(cb)[k + 1]
      <4> DEFINE i == k + 1
      <4>1. i \in 1 .. cb.count /\ k \in Nat  BY <2>1, <2>3, <3>2
      <4>2. Wrap(cb.head + i - 1, cb.capacity) = cb.head + k
        BY <2>1, <2>3, <3>2, <4>1 DEF Wrap
      <4> HIDE DEF i
      <4>3. Contents(cb)[i] = cb.buffer[cb.head + k]  BY <3>1, <4>1, <4>2, ContentsIs
      <4> QED  BY <2>1, <2>3, <4>3 DEF i
    <3> QED  BY <2>1, <2>3, <3>3
  <2> QED  BY <2>1, <2>2, <2>3
<1> QED  BY <1>1, Invariance, PTL

\* What a producer puts through circular_buffer_get_write_ptr() stays what
\* circular_buffer_advance_write() is going to append, whatever the consumer does.
THEOREM WritePointerStaysGood == Spec => []WriteWindowStable
<1>1. IInv => WriteWindowStable  BY DEF IInv, WriteInv, WriteWindowStable
<1> QED  BY <1>1, Invariance, PTL

-----------------------------------------------------------------------------
(* The ring as a queue of bytes.                                             *)

\* A ring whose contents are a sequence, a destroyed one included.
RingOK(b) == IF b.capacity = 0 THEN b.count = 0 ELSE Sound(b)

LEMMA RingIsOK == (RingInv => RingOK(cb)) /\ (RingInv' => RingOK(cb'))
  BY DEF RingInv, RingOK

\* The bytes of a ring, as a sequence.
LEMMA ItemsOf ==
    ASSUME NEW b, RingOK(b)
    PROVE  /\ Contents(b) \in Seq(Byte) /\ Len(Contents(b)) = b.count /\ b.count \in Nat
           /\ b.count = 0 <=> Contents(b) = <<>>
<1>1. Contents(b) \in Seq(Byte) /\ Len(Contents(b)) = b.count /\ b.count \in Nat
  <2>1. CASE b.capacity = 0
    <3>1. b.count = 0  BY <2>1 DEF RingOK
    <3> DEFINE n == b.count
    <3>2. n \in Nat /\ (n # 0 => FALSE)  BY <3>1
    <3> HIDE DEF n
    <3>3. Region(b, b.head, n) \in Seq(Byte) /\ Len(Region(b, b.head, n)) = n
      BY <3>2, RegionType
    <3> QED  BY <3>2, <3>3 DEF Contents, n
  <2>2. CASE b.capacity # 0
    <3>1. Sound(b)  BY <2>2 DEF RingOK
    <3>2. b.count \in Nat  BY <3>1, SoundFields
    <3> QED  BY <3>1, <3>2, ContentsIs
  <2> QED  BY <2>1, <2>2
<1> QED  BY <1>1, EmptySeq

\* Rings with the same bytes are the same queue.
LEMMA SameItems ==
    ASSUME NEW b, NEW r, RingOK(b), RingOK(r), r.count = b.count,
           \A k \in 1 .. b.count : Contents(r)[k] = Contents(b)[k]
    PROVE  Contents(r) = Contents(b)
<1> DEFINE s == Contents(b)
           t == Contents(r)
<1>1. s \in Seq(Byte) /\ t \in Seq(Byte) /\ Len(s) = b.count /\ Len(t) = b.count  BY ItemsOf
<1>2. \A k \in 1 .. Len(t) : t[k] = s[k]  BY <1>1
<1> HIDE DEF s, t
<1>3. t = s  BY <1>1, <1>2, SeqEqual
<1> QED  BY <1>3 DEF s, t

\* A sequence that is a part of another one.
LEMMA IsPartOf ==
    ASSUME NEW s \in Seq(Byte), NEW w \in Nat, NEW t \in Seq(Byte), w + Len(t) <= Len(s),
           \A k \in 1 .. Len(t) : t[k] = s[w + k]
    PROVE  t = SubSeq(s, w + 1, w + Len(t))
<1> DEFINE u == SubSeq(s, w + 1, w + Len(t))
<1>1. Len(t) \in Nat  BY LenProperties
<1>2. u \in Seq(Byte) /\ Len(u) = Len(t) /\ \A k \in 1 .. Len(t) : u[k] = s[w + k]
  BY <1>1, PartOf
<1> HIDE DEF u
<1>3. t = u  BY <1>2, SeqEqual
<1> QED  BY <1>3 DEF u

\* The bytes that a call delivers, as a part of the queue.
LEMMA RegionIsPart ==
    ASSUME NEW b, RingOK(b), NEW w \in Nat, NEW n \in Nat, n # 0 => w + n <= b.count
    PROVE  Region(b, b.head + w, n) = IF n = 0 THEN <<>> ELSE SubSeq(Contents(b), w + 1, w + n)
<1> DEFINE x == b.head + w
           t == Region(b, x, n)
<1>1. n # 0 => /\ Sound(b) /\ b.capacity \in Nat /\ b.head \in 0 .. b.capacity - 1
               /\ b.count \in 0 .. b.capacity /\ w + n <= b.count
  <2>1. b.count \in Nat  BY ItemsOf
  <2>2. n # 0 => Sound(b)  BY <2>1 DEF RingOK
  <2> QED  BY <2>2, SoundFields
<1>2. n # 0 => Sound(b) /\ x \in Nat /\ x + n <= b.capacity + b.capacity  BY <1>1
<1> HIDE DEF x
<1>3. t \in Seq(Byte) /\ Len(t) = n  BY <1>2, RegionType
<1>4. CASE n = 0  BY <1>3, <1>4, EmptySeq DEF x
<1>5. CASE n # 0
  <2> DEFINE s == Contents(b)
  <2>1. Readable(b) /\ Sound(b)  BY <1>1, <1>5, SoundFields DEF Readable
  <2>2. \A k \in 1 .. n : t[k] = b.buffer[Wrap(x + k - 1, b.capacity)]
    BY <1>2, <1>5, <2>1, RegionIs
  <2>3. \A k \in 1 .. b.count : s[k] = b.buffer[Wrap(b.head + k - 1, b.capacity)]
    BY <2>1, ContentsIs
  <2>4. \A k \in 1 .. n : w + k \in 1 .. b.count /\ b.head + (w + k) - 1 = x + k - 1
    BY <1>1, <1>5 DEF x
  <2>5. s \in Seq(Byte) /\ Len(s) = b.count  BY ItemsOf
  <2> HIDE DEF s, t
  <2>6. \A k \in 1 .. n : t[k] = s[w + k]
    <3> SUFFICES ASSUME NEW k \in 1 .. n PROVE t[k] = s[w + k]  OBVIOUS
    <3> DEFINE j == w + k
    <3>1. j \in 1 .. b.count /\ b.head + j - 1 = x + k - 1  BY <2>4
    <3> HIDE DEF j
    <3>2. s[j] = b.buffer[Wrap(x + k - 1, b.capacity)]  BY <2>3, <3>1
    <3> QED  BY <2>2, <3>2 DEF j
  <2>7. t = SubSeq(s, w + 1, w + n)
    <3>1. w + Len(t) <= Len(s) /\ \A k \in 1 .. Len(t) : t[k] = s[w + k]
      BY <1>1, <1>3, <1>5, <2>5, <2>6 DEF t
    <3>2. t \in Seq(Byte) /\ Len(t) = n  BY <1>3 DEF t
    <3>3. t = SubSeq(s, w + 1, w + Len(t))  BY <2>5, <3>1, <3>2, IsPartOf
    <3> QED  BY <3>2, <3>3
  <2> QED  BY <1>5, <2>7 DEF s, t, x
<1> QED  BY <1>4, <1>5

\* The queue after n bytes were taken.
LEMMA ConsumedItems ==
    ASSUME NEW b, RingOK(b), NEW r, RingOK(r), NEW n \in 0 .. b.count, r.count = b.count - n,
           \A k \in 1 .. r.count : Contents(r)[k] = Contents(b)[n + k]
    PROVE  Contents(r) = SubSeq(Contents(b), n + 1, Len(Contents(b)))
<1> DEFINE s == Contents(b)
           t == Contents(r)
<1>1. /\ s \in Seq(Byte) /\ Len(s) = b.count /\ b.count \in Nat
      /\ t \in Seq(Byte) /\ Len(t) = r.count
  BY ItemsOf
<1>2. \A k \in 1 .. Len(t) : t[k] = s[n + k]  BY <1>1
<1> HIDE DEF s, t
<1>3. n \in Nat /\ n + Len(t) = Len(s) /\ n + Len(t) <= Len(s)  BY <1>1
<1>4. t = SubSeq(s, n + 1, n + Len(t))  BY <1>1, <1>2, <1>3, IsPartOf
<1>5. t = SubSeq(s, n + 1, Len(s))  BY <1>3, <1>4
<1> QED  BY <1>5 DEF s, t

\* The queue after the first w bytes of data were appended: the last of all the bytes.
LEMMA AppendedItems ==
    ASSUME NEW b, Sound(b), NEW data \in Seq(Byte), NEW w \in 0 .. Len(data), NEW r,
           Appended(b, data, w, r)
    PROVE  Contents(r) = Q!Last(Contents(b) \o Q!First(data, w), b.capacity)
<1> DEFINE c == b.capacity
           q == b.count
           s == Contents(b)
           u == SubSeq(data, 1, w)
           all == s \o u
           t == Contents(r)
<1>1. c \in Nat \ {0} /\ q \in 0 .. c  BY SoundFields
<1>2. /\ Sound(r) /\ r.count = Least(q + w, c)
      /\ \A k \in 1 .. r.count : t[k] = Item(b, data, q + w - r.count + k)
  BY DEF Appended
<1>3. s \in Seq(Byte) /\ Len(s) = q /\ t \in Seq(Byte) /\ Len(t) = r.count
  BY <1>2, ContentsIs
<1>4. w \in Nat /\ w <= Len(data) /\ Len(data) \in Nat
  BY LenProperties
<1>5. u \in Seq(Byte) /\ Len(u) = w /\ \A i \in 1 .. w : u[i] = data[i]
  <2> DEFINE zero == 0
  <2>1. zero \in Nat /\ zero + w <= Len(data)  BY <1>4
  <2>2. zero + 1 = 1 /\ zero + w = w /\ \A i \in 1 .. w : zero + i = i  BY <1>4
  <2> HIDE DEF zero, u
  <2>3. /\ SubSeq(data, zero + 1, zero + w) \in Seq(Byte)
        /\ Len(SubSeq(data, zero + 1, zero + w)) = w
        /\ \A i \in 1 .. w : SubSeq(data, zero + 1, zero + w)[i] = data[zero + i]
    BY <1>4, <2>1, PartOf
  <2>4. SubSeq(data, zero + 1, zero + w) = u  BY <2>2 DEF u
  <2> QED  BY <2>2, <2>3, <2>4
<1> HIDE DEF c, q, u, t
<1>6. /\ all \in Seq(Byte) /\ Len(all) = q + w
      /\ \A i \in 1 .. q + w : all[i] = IF i <= q THEN s[i] ELSE u[i - q]
  <2> HIDE DEF s
  <2> QED  BY <1>3, <1>5, ConcatProperties
<1>7. \A i \in 1 .. q + w : all[i] = Item(b, data, i)
  <2> SUFFICES ASSUME NEW i \in 1 .. q + w PROVE all[i] = Item(b, data, i)  OBVIOUS
  <2>1. CASE i <= q  BY <1>6, <2>1 DEF Item, q
  <2>2. CASE ~(i <= q)
    <3>1. i - q \in 1 .. w  BY <1>1, <1>4, <2>2
    <3>2. all[i] = u[i - q]  BY <1>6, <2>2
    <3>3. u[i - q] = data[i - q]  BY <1>5, <3>1
    <3> QED  BY <2>2, <3>2, <3>3 DEF Item, q
  <2> QED  BY <2>1, <2>2
<1> HIDE DEF all, s
<1> DEFINE d == q + w - r.count
<1>8. d \in Nat /\ d + Len(t) = Len(all) /\ d + Len(t) <= Len(all) /\ r.count \in Nat
  BY <1>1, <1>2, <1>3, <1>4, <1>6 DEF Least
<1>9. \A k \in 1 .. Len(t) : t[k] = all[d + k]
  <2> SUFFICES ASSUME NEW k \in 1 .. Len(t) PROVE t[k] = all[d + k]  OBVIOUS
  <2>1. d + k \in 1 .. q + w  BY <1>3, <1>6, <1>8, SMTT(30)
  <2>2. t[k] = Item(b, data, d + k)  BY <1>2, <1>3
  <2> QED  BY <1>7, <2>1, <2>2
<1>10. t = SubSeq(all, d + 1, d + Len(t))
  <2> HIDE DEF d
  <2> QED  BY <1>3, <1>6, <1>8, <1>9, IsPartOf
<1>11. t = Q!Last(all, c)
  <2>1. CASE q + w <= c
    <3>1. d = 0 /\ Len(t) = Len(all)  BY <1>1, <1>2, <1>3, <1>4, <1>6, <2>1 DEF Least
    <3>2. t = all
      <4>1. \A k \in 1 .. Len(t) : d + k = k  BY <1>8, <3>1
      <4>2. \A k \in 1 .. Len(t) : t[k] = all[k]  BY <1>9, <4>1
      <4> QED  BY <1>3, <1>6, <3>1, <4>2, SeqEqual
    <3> QED  BY <1>6, <2>1, <3>2 DEF Q!Last
  <2>2. CASE ~(q + w <= c)
    <3>1. d = Len(all) - c /\ d + Len(t) = Len(all)
      BY <1>1, <1>2, <1>3, <1>4, <1>6, <2>2 DEF Least
    <3>2. t = SubSeq(all, Len(all) - c + 1, Len(all))  BY <1>10, <3>1
    <3> QED  BY <1>6, <2>2, <3>2 DEF Q!Last
  <2> QED  BY <2>1, <2>2
<1> QED  BY <1>11 DEF all, s, u, t, c, Q!First

\* The operations as operations of ByteQueue.
LEMMA CreateImplements ==
    ASSUME RingInv, RingInv', NEW capacity \in Capacities, NEW overwrite \in BOOLEAN,
           CircularBufferInit(capacity, overwrite)
    PROVE  Q!Create
<1>1. cb.capacity = 0 /\ RingOK(cb')  BY RingIsOK DEF CircularBufferInit
<1>2. CASE cb' = cb /\ Returned(0, <<>>)
  BY <1>1, <1>2 DEF Q!Create, Q!Returned, Returned
<1>3. CASE /\ cb'.capacity = capacity /\ cb'.overwrite = overwrite /\ cb'.count = 0
           /\ Returned(1, <<>>)
  <2>1. Contents(cb') = <<>>  BY <1>1, <1>3, ItemsOf
  <2> QED  BY <1>1, <1>3, <2>1 DEF Q!Create, Q!Returned, Returned
<1> QED  BY <1>2, <1>3 DEF CircularBufferInit

LEMMA DestroyImplements == ASSUME RingInv, RingInv', Destroy PROVE Q!Destroy
<1>1. cb.capacity > 0 /\ cb' = Destroyed(cb) /\ ret' = ret  BY DEF Destroy
<1>2. Sound(cb)  BY <1>1, CbFields
<1>3. cb'.capacity = 0 /\ cb'.overwrite = cb.overwrite /\ cb'.count = 0
  BY <1>1, <1>2, SoundFields DEF Destroyed
<1>4. Contents(cb') = <<>>  BY <1>3, RingIsOK, ItemsOf
<1> QED  BY <1>1, <1>3, <1>4 DEF Q!Destroy

LEMMA ClearImplements == ASSUME RingInv, RingInv', Clear PROVE Q!Clear
<1>1. cb' = [cb EXCEPT !.head = 0, !.tail = 0, !.count = 0] /\ ret' = ret  BY DEF Clear
<1>2. cb'.capacity = cb.capacity /\ cb'.overwrite = cb.overwrite /\ cb'.count = 0
  <2>1. CASE cb.capacity = 0
    <3> DEFINE m == cb.overwrite
    <3>1. cb = [buffer |-> <<>>, capacity |-> 0, head |-> 0, tail |-> 0, count |-> 0, overwrite |-> m]
      BY <2>1 DEF RingInv
    <3> HIDE DEF m
    <3> QED  BY <1>1, <3>1
  <2>2. CASE cb.capacity # 0
    <3>1. Sound(cb)  BY <2>2 DEF RingInv
    <3> DEFINE a == cb.buffer
               c == cb.capacity
               h == cb.head
               t == cb.tail
               q == cb.count
               m == cb.overwrite
    <3>2. cb = [buffer |-> a, capacity |-> c, head |-> h, tail |-> t, count |-> q, overwrite |-> m]
      BY <3>1, SoundFields
    <3> HIDE DEF a, c, h, t, q, m
    <3> QED  BY <1>1, <3>2
  <2> QED  BY <2>1, <2>2
<1>3. Contents(cb') = <<>>  BY <1>2, RingIsOK, ItemsOf
<1> QED  BY <1>1, <1>2, <1>3 DEF Q!Clear

\* The first n bytes of data entered the queue.
LEMMA AppendedEnters ==
    ASSUME RingInv, cb.capacity # 0, NEW data \in Seq(Byte), NEW n \in 0 .. Len(data),
           Appended(cb, data, n, cb'), Returned(n, <<>>)
    PROVE  Q!Enter(data, n)
<1>1. Sound(cb)  BY DEF RingInv
<1>2. Contents(cb') = Q!Last(Contents(cb) \o Q!First(data, n), cb.capacity)
  BY <1>1, AppendedItems
<1>3. Len(Contents(cb)) = cb.count  BY <1>1, ContentsIs
<1>4. cb'.capacity = cb.capacity /\ cb'.overwrite = cb.overwrite
      /\ (cb.overwrite \/ cb.count + n <= cb.capacity)
  BY DEF Appended
<1> QED  BY <1>2, <1>3, <1>4 DEF Q!Enter, Q!Returned, Returned

LEMMA WriteImplements ==
    ASSUME RingInv, RingInv', NEW data \in Data, Write(data) PROVE Q!Write(data)
<1> DEFINE w == Written(cb, data)
           n == w.written
<1>1. /\ cb' = w.ring /\ Returned(n, <<>>) /\ (cb.capacity > 0 \/ ~cb.overwrite)
  BY DEF Write
<1>2. data \in Seq(Byte) /\ Len(data) \in Nat \ {0}  BY DataIs
<1>3. Len(Contents(cb)) = cb.count  BY RingIsOK, ItemsOf
<1>4. CASE cb.capacity = 0
  <2>1. cb.count = 0 /\ ~cb.overwrite  BY <1>1, <1>4 DEF RingInv
  <2>2. w = [ring |-> cb, written |-> 0]  BY <1>4, <2>1, Zenon DEF Written
  <2> HIDE DEF w
  <2>3. cb' = cb /\ n = 0  BY <1>1, <2>2
  <2>4. Contents(cb) = <<>>  BY <2>1, RingIsOK, ItemsOf
  <2>5. Q!First(data, 0) = <<>>
    <3> DEFINE u == SubSeq(data, 1, 0)
    <3>1. u = <<>>  BY SubSeqEmpty
    <3> QED  BY <3>1 DEF Q!First
  <2>6. Q!Last(<<>> \o <<>>, 0) = <<>>
    <3>1. <<>> \o <<>> = <<>> /\ Len(<<>>) = 0  OBVIOUS
    <3> QED  BY <3>1 DEF Q!Last
  <2>7. Q!Enter(data, 0)
    BY <1>1, <1>4, <2>1, <2>3, <2>4, <2>5, <2>6 DEF Q!Enter, Q!Returned, Returned
  <2>8. 0 \in 0 .. Len(data) /\ ~(cb.count + Len(data) <= cb.capacity)  BY <1>2, <1>4, <2>1
  <2> QED  BY <1>3, <2>1, <2>7, <2>8 DEF Q!Write
<1>5. CASE cb.capacity # 0
  <2>1. Sound(cb)  BY <1>5 DEF RingInv
  <2>2. IsWritten(cb, data, w)  BY <1>2, <2>1, WriteEffect
  <2>3. /\ n \in 0 .. Len(data) /\ Appended(cb, data, n, cb')
        /\ (cb.overwrite \/ cb.count + Len(data) <= cb.capacity => n = Len(data))
    BY <1>1, <2>2 DEF IsWritten
  <2>4. Returned(n, <<>>)  BY <1>1
  <2> HIDE DEF n
  <2>5. Q!Enter(data, n)  BY <1>2, <1>5, <2>3, <2>4, AppendedEnters
  <2> QED  BY <1>3, <2>3, <2>5 DEF Q!Write
<1> QED  BY <1>4, <1>5

\* Only the bytes that were written matter.
LEMMA SameFirstBytes ==
    ASSUME NEW b, Sound(b), NEW data, NEW other, NEW w \in Nat, NEW r, Appended(b, data, w, r),
           \A i \in 1 .. w : data[i] = other[i]
    PROVE  Appended(b, other, w, r)
<1> DEFINE q == b.count
           d == q + w - r.count
<1>1. q \in Nat /\ b.capacity \in Nat /\ q <= b.capacity  BY SoundFields
<1>2. r.count = Least(q + w, b.capacity)
      /\ \A k \in 1 .. r.count : Contents(r)[k] = Item(b, data, d + k)
  BY DEF Appended
<1>3. r.count \in Nat /\ \A k \in 1 .. r.count : d + k \in 1 .. q + w
  BY <1>1, <1>2 DEF Least
<1>4. \A i \in 1 .. q + w : Item(b, data, i) = Item(b, other, i)
  <2> SUFFICES ASSUME NEW i \in 1 .. q + w PROVE Item(b, data, i) = Item(b, other, i)  OBVIOUS
  <2>1. CASE i <= q  BY <2>1 DEF Item
  <2>2. CASE ~(i <= q)
    <3>1. i - q \in 1 .. w  BY <1>1, <2>2
    <3>2. data[i - q] = other[i - q]  BY <3>1
    <3> QED  BY <2>2, <3>2 DEF Item
  <2> QED  BY <2>1, <2>2
<1> HIDE DEF d
<1>5. \A k \in 1 .. r.count : Contents(r)[k] = Item(b, other, d + k)  BY <1>2, <1>3, <1>4
<1> QED  BY <1>2, <1>5 DEF Appended, d

LEMMA CopyImplements ==
    ASSUME RingInv, RingInv', NEW src \in Sources, NEW size \in Sizes, Copy(src, size)
    PROVE  Q!Copy(Q!First(Q!SourceBytes(src), Q!AtMost(size, src.count)))
<1> DEFINE n == Copied(src, size)
           m == Least(size, src.count)
           w == CopyLoop(cb, src, n)
           all == Region(src, src.head, src.count)
           data == SubSeq(all, 1, m)
<1>1. cb.capacity > 0 /\ cb' = w.ring /\ Returned(w.written, <<>>)
  BY Zenon DEF Copy, Copied
<1>2. cb.capacity # 0 /\ Sound(cb)  BY <1>1, CbFields
<1>3. CanCopy(cb, src, n) /\ n \in 0 .. m /\ src.count \in 0 .. src.capacity /\ size \in Nat
  BY <1>2, CopiedIs
<1>4. w.written = n /\ Appended(cb, Taken(src, n), n, w.ring)  BY <1>2, <1>3, CopyEffect
<1>5. Appended(cb, Taken(src, n), n, cb') /\ Returned(n, <<>>)
  <2> HIDE DEF w, n
  <2> QED  BY <1>1, <1>4
<1>6. /\ all \in Seq(Byte) /\ Len(all) = src.count
      /\ \A k \in 1 .. src.count : all[k] = src.buffer[Wrap(src.head + k - 1, src.capacity)]
  <2> DEFINE h == src.head
             q == src.count
  <2>1. src.capacity \in Nat /\ h \in Nat /\ q \in Nat /\ h + q <= src.capacity + src.capacity
        /\ Readable(src)
    BY <1>3 DEF CanCopy
  <2> HIDE DEF h, q
  <2>2. /\ Region(src, h, q) \in Seq(Byte) /\ Len(Region(src, h, q)) = q
        /\ \A k \in 1 .. q : Region(src, h, q)[k] = src.buffer[Wrap(h + k - 1, src.capacity)]
    BY <2>1, RegionIs
  <2> QED  BY <2>2 DEF h, q
<1>7. m \in Nat /\ m <= src.count /\ src.count \in Nat
  <2> DEFINE q == src.count
  <2>1. q \in Nat  BY <1>3 DEF CanCopy
  <2> HIDE DEF q
  <2>2. Least(size, q) \in Nat /\ Least(size, q) <= q  BY <1>3, <2>1 DEF Least
  <2> QED  BY <2>1, <2>2 DEF q
<1> HIDE DEF all, m, n
<1>8. data \in Seq(Byte) /\ Len(data) = m /\ \A i \in 1 .. m : data[i] = all[i]
  <2> DEFINE zero == 0
  <2>1. zero \in Nat /\ zero + m <= Len(all)  BY <1>6, <1>7
  <2>2. zero + 1 = 1 /\ zero + m = m /\ \A i \in 1 .. m : zero + i = i  BY <1>7
  <2> HIDE DEF zero, data
  <2>3. /\ SubSeq(all, zero + 1, zero + m) \in Seq(Byte)
        /\ Len(SubSeq(all, zero + 1, zero + m)) = m
        /\ \A i \in 1 .. m : SubSeq(all, zero + 1, zero + m)[i] = all[zero + i]
    BY <1>6, <1>7, <2>1, PartOf
  <2>4. SubSeq(all, zero + 1, zero + m) = data  BY <2>2 DEF data
  <2> QED  BY <2>2, <2>3, <2>4
<1> HIDE DEF data
<1>9. n \in Nat /\ \A i \in 1 .. n : Taken(src, n)[i] = data[i]
  <2>1. n \in Nat /\ \A i \in 1 .. n :
               Taken(src, n)[i] = src.buffer[Wrap(src.head + i - 1, src.capacity)]
    BY <1>3, TakenIs
  <2>2. \A i \in 1 .. n : i \in 1 .. m /\ i \in 1 .. src.count  BY <1>3, <1>7, <2>1
  <2> QED  BY <1>6, <1>8, <2>1, <2>2
<1>10. Appended(cb, data, n, cb')  BY <1>2, <1>5, <1>9, SameFirstBytes
<1>11. n \in 0 .. Len(data)  BY <1>3, <1>8
<1>12. Q!Enter(data, n)  BY <1>2, <1>5, <1>8, <1>10, <1>11, AppendedEnters
<1>13. n = IF cb.overwrite THEN Len(data) ELSE Q!AtMost(Len(data), cb.capacity - Len(Contents(cb)))
  <2> DEFINE room == cb.capacity - cb.count
  <2>1. n = IF m > room /\ ~cb.overwrite THEN room ELSE m  BY Zenon DEF Copied, n, m
  <2>2. room \in Nat  BY <1>2, SoundFields
  <2>3. Len(Contents(cb)) = cb.count  BY <1>2, ContentsIs
  <2> HIDE DEF room
  <2>4. n = IF cb.overwrite THEN m ELSE IF m < room THEN m ELSE room  BY <1>7, <2>1, <2>2
  <2> QED  BY <1>8, <2>3, <2>4 DEF Q!AtMost, room
<1>14. data = Q!First(Q!SourceBytes(src), Q!AtMost(size, src.count))
  <2>1. Q!AtMost(size, src.count) = m  BY DEF Q!AtMost, Least, m
  <2>2. Q!SourceBytes(src) = all  BY DEF Q!SourceBytes, Region, all
  <2> QED  BY <2>1, <2>2 DEF Q!First, data
<1>15. Q!Copy(data)  BY <1>12, <1>13 DEF Q!Copy
<1> QED  BY <1>14, <1>15

\* Bytes were taken: the rest of the queue is left.
LEMMA ConsumedLeaves ==
    ASSUME RingInv, cb.capacity # 0, NEW n \in 0 .. cb.count, cb' = Consumed(cb, n)
    PROVE  /\ Contents(cb') = SubSeq(Contents(cb), n + 1, Len(Contents(cb)))
           /\ cb'.capacity = cb.capacity /\ cb'.overwrite = cb.overwrite
<1>1. Sound(cb)  BY DEF RingInv
<1>2. /\ Sound(cb') /\ cb'.capacity = cb.capacity /\ cb'.overwrite = cb.overwrite
      /\ cb'.count = cb.count - n
      /\ \A k \in 1 .. cb'.count : Contents(cb')[k] = Contents(cb)[n + k]
  BY <1>1, ConsumedEffect
<1>3. RingOK(cb) /\ RingOK(cb')  BY <1>1, <1>2 DEF RingOK
<1> QED  BY <1>2, <1>3, ConsumedItems

LEMMA NothingTaken ==
    ASSUME RingInv
    PROVE  /\ Contents(cb) = SubSeq(Contents(cb), 0 + 1, Len(Contents(cb)))
           /\ SubSeq(Contents(cb), 1, 0) = <<>>
<1> DEFINE s == Contents(cb)
<1>1. s \in Seq(Byte) /\ Len(s) \in Nat  BY RingIsOK, ItemsOf
<1> HIDE DEF s
<1> DEFINE zero == 0
<1>2. zero \in Nat /\ zero + Len(s) = Len(s) /\ zero + Len(s) <= Len(s)
      /\ \A k \in 1 .. Len(s) : s[k] = s[zero + k]
  BY <1>1
<1> HIDE DEF zero
<1>3. s = SubSeq(s, zero + 1, zero + Len(s))  BY <1>1, <1>2, IsPartOf
<1>4. SubSeq(s, 1, 0) = <<>>  BY SubSeqEmpty
<1> QED  BY <1>2, <1>3, <1>4 DEF s, zero

\* The first n bytes.
LEMMA FirstRegion ==
    ASSUME RingInv, NEW n \in 0 .. cb.count
    PROVE  Region(cb, cb.head, n) = SubSeq(Contents(cb), 1, n)
<1> DEFINE zero == 0
           h == cb.head
<1>1. RingOK(cb) /\ h \in Nat /\ cb.count \in Nat  BY RingIsOK, CbFields
<1>2. zero \in Nat /\ n \in Nat /\ (n # 0 => zero + n <= cb.count)  BY <1>1
<1>3. h + zero = h /\ zero + 1 = 1 /\ zero + n = n  BY <1>1, <1>2
<1> HIDE DEF zero
<1>4. Region(cb, cb.head + zero, n)
          = IF n = 0 THEN <<>> ELSE SubSeq(Contents(cb), zero + 1, zero + n)
  BY <1>1, <1>2, RegionIsPart
<1>5. SubSeq(Contents(cb), 1, 0) = <<>>  BY NothingTaken
<1> QED  BY <1>3, <1>4, <1>5

LEMMA ReadImplements ==
    ASSUME RingInv, RingInv', NEW size \in Sizes, Read(size) PROVE Q!Read(size)
<1> DEFINE n == Least(size, cb.count)
<1>1. /\ cb' = IF n = 0 THEN cb ELSE Consumed(cb, n)
      /\ Returned(n, Region(cb, cb.head, n))
  BY Zenon DEF Read
<1>2. n \in 0 .. cb.count /\ n \in Nat /\ (cb.capacity = 0 => n = 0)  BY LeastOfCount
<1>3. Q!AtMost(size, Len(Contents(cb))) = n
  <2>1. Len(Contents(cb)) = cb.count  BY RingIsOK, ItemsOf
  <2> QED  BY <2>1 DEF Q!AtMost, Least
<1> HIDE DEF n
<1>4. Region(cb, cb.head, n) = Q!First(Contents(cb), n)  BY <1>2, FirstRegion DEF Q!First
<1>5. /\ Contents(cb') = SubSeq(Contents(cb), n + 1, Len(Contents(cb)))
      /\ cb'.capacity = cb.capacity /\ cb'.overwrite = cb.overwrite
  <2>1. CASE n = 0  BY <1>1, <2>1, NothingTaken
  <2>2. CASE n # 0  BY <1>1, <1>2, <2>2, ConsumedLeaves
  <2> QED  BY <2>1, <2>2
<1> QED  BY <1>1, <1>3, <1>4, <1>5 DEF Q!Read, Q!Returned, Returned

LEMMA AdvanceReadImplements ==
    ASSUME RingInv, RingInv', NEW size \in Sizes, AdvanceRead(size) PROVE Q!Leave(size)
<1> DEFINE n == Least(size, cb.count)
<1>1. cb.capacity > 0 /\ cb' = Consumed(cb, n) /\ ret' = ret  BY Zenon DEF AdvanceRead
<1>2. n \in 0 .. cb.count /\ cb.capacity # 0  BY <1>1, LeastOfCount, CbFields
<1>3. Q!AtMost(size, Len(Contents(cb))) = n
  <2>1. Len(Contents(cb)) = cb.count  BY RingIsOK, ItemsOf
  <2> QED  BY <2>1 DEF Q!AtMost, Least
<1> HIDE DEF n
<1>4. /\ Contents(cb') = SubSeq(Contents(cb), n + 1, Len(Contents(cb)))
      /\ cb'.capacity = cb.capacity /\ cb'.overwrite = cb.overwrite
  BY <1>1, <1>2, ConsumedLeaves
<1> QED  BY <1>1, <1>3, <1>4 DEF Q!Leave

LEMMA PeekImplements ==
    ASSUME RingInv, NEW size \in Sizes, NEW offset \in Sizes, Peek(size, offset)
    PROVE  Q!Peek(size, offset)
<1> DEFINE n == Peeked(size, offset)
           q == cb.count
           m == Q!AtMost(size, Q!AtMost(Len(Contents(cb)) - offset, Len(Contents(cb))))
<1>1. Returned(n, Region(cb, cb.head + offset, n)) /\ cb' = cb  BY Zenon DEF Peek, Peeked
<1>2. n \in Nat /\ offset \in Nat /\ size \in Nat /\ (n # 0 => offset + n <= q) /\ q \in Nat
  BY PeekedIs, CbFields
<1>3. Len(Contents(cb)) = q /\ RingOK(cb)  BY RingIsOK, ItemsOf
<1>4. n = IF offset >= q THEN 0 ELSE Least(size, q - offset)  BY Zenon DEF Peeked
<1> HIDE DEF n
<1>5. Region(cb, cb.head + offset, n)
          = IF n = 0 THEN <<>> ELSE SubSeq(Contents(cb), offset + 1, offset + n)
  BY <1>2, <1>3, RegionIsPart
<1>6. (n > 0 => m = n) /\ (n = 0 => m <= 0)
  <2>1. m = Q!AtMost(size, Q!AtMost(q - offset, q))  BY <1>3
  <2> HIDE DEF m, q
  <2>2. CASE offset >= q
    <3> DEFINE y == Q!AtMost(q - offset, q)
    <3>1. y \in Int /\ y <= 0  BY <1>2, <2>2 DEF Q!AtMost
    <3>2. m = Q!AtMost(size, y)  BY <2>1
    <3> HIDE DEF y
    <3>3. m <= 0  BY <1>2, <3>1, <3>2 DEF Q!AtMost
    <3> QED  BY <1>4, <2>2, <3>3
  <2>3. CASE ~(offset >= q)
    <3> DEFINE x == q - offset
    <3>1. x \in Nat /\ x <= q  BY <1>2, <2>3
    <3>2. n = Least(size, x) /\ m = Q!AtMost(size, Q!AtMost(x, q))  BY <1>4, <2>1, <2>3
    <3> HIDE DEF x
    <3>3. Q!AtMost(x, q) = x  BY <1>2, <3>1 DEF Q!AtMost
    <3>4. m = n  BY <3>2, <3>3 DEF Q!AtMost, Least
    <3> QED  BY <1>2, <3>4
  <2> QED  BY <2>2, <2>3
<1> HIDE DEF m
<1>7. \/ m > 0 /\ Returned(m, SubSeq(Contents(cb), offset + 1, offset + m))
      \/ m <= 0 /\ Returned(0, <<>>)
  <2>1. CASE n = 0
    <3>1. Returned(0, <<>>)  BY <1>1, <1>5, <2>1
    <3> QED  BY <1>6, <2>1, <3>1
  <2>2. CASE n # 0
    <3>1. n > 0 /\ m = n  BY <1>2, <1>6, <2>2
    <3>2. Returned(n, SubSeq(Contents(cb), offset + 1, offset + n))  BY <1>1, <1>5, <2>2
    <3> QED  BY <3>1, <3>2
  <2> QED  BY <2>1, <2>2
<1> QED  BY <1>1, <1>7 DEF Q!Peek, Q!Returned, Returned, m

\* Where the pattern occurs in the queue.
LEMMA OccursIs ==
    ASSUME RingInv, NEW pattern \in Data, NEW i \in Nat
    PROVE  Q!OccursAt(pattern, i) <=> i \in Places(pattern)
<1> DEFINE n == Len(pattern)
           q == cb.count
<1>1. n \in Nat \ {0} /\ q \in Nat  BY DataIs, CbFields
<1>2. Len(Contents(cb)) = q /\ RingOK(cb)  BY RingIsOK, ItemsOf
<1>3. i + n <= q <=> i \in 0 .. q - n
  <2> HIDE DEF n, q
  <2> QED  BY <1>1
<1>4. ASSUME i + n <= q
      PROVE  Region(cb, cb.head + i, n) = SubSeq(Contents(cb), i + 1, i + n)
  <2>1. n \in Nat /\ n # 0  BY <1>1
  <2> HIDE DEF n
  <2> QED  BY <1>2, <1>4, <2>1, RegionIsPart
<1> QED  BY <1>2, <1>3, <1>4 DEF Q!OccursAt, Places

LEMMA FindImplements == ASSUME RingInv, NEW pattern \in Data, Find(pattern) PROVE Q!Find(pattern)
<1> DEFINE i == Found(pattern)
           q == cb.count
<1>1. Returned(i, <<>>) /\ cb' = cb  BY Zenon DEF Find, Found, Places
<1>2. IF Places(pattern) = {} THEN i = -1
      ELSE i \in Places(pattern) /\ \A j \in Places(pattern) : i <= j
  BY FoundIs
<1>3. Len(Contents(cb)) = q /\ q \in Nat  BY RingIsOK, ItemsOf
<1>4. \A j \in Places(pattern) : j \in 0 .. q
  <2>1. Len(pattern) \in Nat  BY DataIs
  <2> QED  BY <1>3, <2>1 DEF Places
<1> HIDE DEF i, q
<1>5. \A j \in Nat : Q!OccursAt(pattern, j) <=> j \in Places(pattern)  BY OccursIs
<1>6. \/ \E k \in 0 .. q :
            /\ Q!OccursAt(pattern, k) /\ \A j \in 0 .. k - 1 : ~Q!OccursAt(pattern, j)
            /\ Q!Returned(k, <<>>)
      \/ /\ \A k \in 0 .. q : ~Q!OccursAt(pattern, k)
         /\ Q!Returned(-1, <<>>)
  <2>1. CASE Places(pattern) = {}
    <3>1. \A k \in 0 .. q : ~Q!OccursAt(pattern, k)  BY <1>3, <1>5, <2>1
    <3>2. Q!Returned(-1, <<>>)  BY <1>1, <1>2, <2>1 DEF Q!Returned, Returned
    <3> QED  BY <3>1, <3>2
  <2>2. CASE Places(pattern) # {}
    <3>1. i \in Places(pattern) /\ i \in 0 .. q /\ \A j \in Places(pattern) : i <= j
      BY <1>2, <1>4, <2>2
    <3>2. Q!OccursAt(pattern, i)  BY <1>3, <1>5, <3>1
    <3>3. ASSUME NEW j \in 0 .. i - 1 PROVE ~Q!OccursAt(pattern, j)
      <4>1. j \in Nat /\ ~(i <= j)  BY <1>3, <3>1
      <4> QED  BY <1>5, <3>1, <4>1
    <3>4. Q!Returned(i, <<>>)  BY <1>1 DEF Q!Returned, Returned
    <3> QED  BY <3>1, <3>2, <3>3, <3>4
  <2> QED  BY <2>1, <2>2
<1> QED  BY <1>1, <1>3, <1>6 DEF Q!Find

LEMMA GetReadPtrImplements == ASSUME RingInv, GetReadPtr PROVE Q!LookAt
<1> DEFINE n == ReadRoom
<1>1. Returned(n, Region(cb, cb.head, n)) /\ cb' = cb  BY Zenon DEF GetReadPtr, ReadRoom
<1>2. n \in 0 .. cb.count /\ (n = 0 <=> cb.count = 0)  BY ReadRoomIs
<1> HIDE DEF n
<1>3. Len(Contents(cb)) = cb.count /\ (cb.count = 0 <=> Contents(cb) = <<>>)
  BY RingIsOK, ItemsOf
<1>4. Returned(n, Q!First(Contents(cb), n))  BY <1>1, <1>2, FirstRegion DEF Q!First
<1>5. \E k \in 0 .. Len(Contents(cb)) :
          (k = 0 <=> Contents(cb) = <<>>) /\ Q!Returned(k, Q!First(Contents(cb), k))
  BY <1>2, <1>3, <1>4 DEF Q!Returned, Returned
<1> QED  BY <1>1, <1>5 DEF Q!LookAt

LEMMA GetWritePtrImplements == ASSUME RingInv, GetWritePtr PROVE Q!Reserve
<1> DEFINE n == WriteRoom(cb)
<1>1. Returned(n, <<>>) /\ cb' = cb  BY Zenon DEF GetWritePtr
<1>2. n \in Nat /\ cb.count + n <= cb.capacity /\ (n = 0 <=> cb.count = cb.capacity)
  BY WriteRoomIs
<1> HIDE DEF n
<1>3. Len(Contents(cb)) = cb.count /\ cb.count \in Nat /\ cb.capacity \in Nat
  BY RingIsOK, ItemsOf, CbFields
<1>4. n \in 0 .. cb.capacity - Len(Contents(cb)) /\ (n = 0 <=> Len(Contents(cb)) = cb.capacity)
  BY <1>2, <1>3
<1> QED  BY <1>1, <1>4 DEF Q!Reserve, Q!Returned, Returned

LEMMA AdvanceWriteImplements ==
    ASSUME RingInv, RingInv', NEW size \in Sizes, AdvanceWrite(size) PROVE Q!Commit(size)
<1> DEFINE n == Least(size, cb.capacity - cb.count)
<1>1. /\ cb.capacity > 0 /\ ret' = ret
      /\ cb' = [cb EXCEPT !.tail = (@ + n) % cb.capacity, !.count = @ + n]
  BY Zenon DEF AdvanceWrite
<1>2. cb.capacity # 0 /\ cb.capacity \in Nat /\ cb.count \in 0 .. cb.capacity /\ Sound(cb)
  BY <1>1, CbFields
<1>3. n \in 0 .. cb.capacity - cb.count
  <2> DEFINE room == cb.capacity - cb.count
  <2>1. room \in Nat /\ size \in Nat  BY <1>2, CircularBufferAssumption
  <2> HIDE DEF room
  <2>2. Least(size, room) \in 0 .. room  BY <2>1 DEF Least
  <2> QED  BY <2>2 DEF room
<1> DEFINE q == cb.count
           s == Contents(cb)
           t == Contents(cb')
           bytes == [k \in 1 .. n |-> t[q + k]]
<1>4. s \in Seq(Byte) /\ Len(s) = q /\ q \in Nat  BY <1>2, ContentsIs
<1>5. Q!AtMost(size, cb.capacity - Len(Contents(cb))) = n  BY <1>4 DEF Q!AtMost, Least
<1> HIDE DEF n
<1>6. /\ Sound(cb') /\ cb'.capacity = cb.capacity /\ cb'.overwrite = cb.overwrite
      /\ cb'.count = q + n
      /\ \A k \in 1 .. q : t[k] = s[k]
  <2> DEFINE r == [cb EXCEPT !.tail = (@ + n) % cb.capacity, !.count = @ + n]
  <2>1. /\ Sound(r) /\ r.capacity = cb.capacity /\ r.overwrite = cb.overwrite
        /\ r.count = cb.count + n
        /\ \A k \in 1 .. cb.count : Contents(r)[k] = Contents(cb)[k]
    BY <1>2, <1>3, CommittedEffect
  <2>2. cb' = r  BY <1>1
  <2> HIDE DEF r
  <2> QED  BY <2>1, <2>2
<1>7. t \in Seq(Byte) /\ Len(t) = q + n  BY <1>6, ContentsIs
<1> HIDE DEF s, t, q
<1>8. n \in Nat /\ \A k \in 1 .. n : q + k \in 1 .. Len(t)  BY <1>2, <1>3, <1>4, <1>7
<1>9. bytes \in [1 .. n -> Byte]  BY <1>7, <1>8, ElementOfSeq
<1>10. t = s \o bytes
  <2>1. bytes \in Seq(Byte) /\ Len(bytes) = n
    <3>1. n \in Nat  BY <1>8
    <3> HIDE DEF bytes
    <3> QED  BY <1>9, <3>1, FunctionIsSeq
  <2>2. \A k \in 1 .. n : bytes[k] = t[q + k]  OBVIOUS
  <2> HIDE DEF bytes
  <2> DEFINE u == s \o bytes
  <2>3. /\ u \in Seq(Byte) /\ Len(u) = q + n
        /\ \A i \in 1 .. q + n : u[i] = IF i <= q THEN s[i] ELSE bytes[i - q]
    BY <1>4, <2>1, ConcatProperties
  <2> HIDE DEF u
  <2>4. ASSUME NEW i \in 1 .. q + n PROVE t[i] = u[i]
    <3>1. CASE i <= q
      <4>1. i \in 1 .. q  BY <1>4, <1>8, <3>1
      <4> QED  BY <1>6, <2>3, <3>1, <4>1
    <3>2. CASE ~(i <= q)
      <4> DEFINE k == i - q
      <4>1. k \in 1 .. n /\ q + k = i  BY <1>4, <1>8, <3>2
      <4>2. u[i] = bytes[k]  BY <2>3, <3>2
      <4> HIDE DEF k
      <4> QED  BY <2>2, <4>1, <4>2
    <3> QED  BY <3>1, <3>2
  <2>5. t = u  BY <1>7, <2>3, <2>4, SeqEqual
  <2> QED  BY <2>5 DEF u
<1> HIDE DEF bytes
<1>11. \E w \in [1 .. n -> Bytes \union {Junk}] : t = s \o w  BY <1>9, <1>10 DEF Byte
<1> QED  BY <1>1, <1>5, <1>6, <1>11 DEF Q!Commit, s, t

\* What the producer writes through its pointer is not in the queue yet.
LEMMA FillImplements ==
    ASSUME IInv, NEW data \in Data, Fill(data) PROVE UNCHANGED Q!vars
<1> DEFINE n == Len(data)
<1>1. /\ n <= writing.len /\ cb' = [cb EXCEPT !.buffer = Stored(cb, writing.from, data)]
      /\ ret' = ret
  BY DEF Fill
<1>2. data \in Seq(Byte) /\ n \in Nat \ {0}  BY DataIs
<1>3. /\ writing.len \in Nat /\ (cb.capacity = 0 => writing.len = 0)
      /\ writing.len > 0 =>
            /\ writing.from = cb.tail
            /\ cb.count + writing.len <= cb.capacity /\ cb.tail + writing.len <= cb.capacity
  BY DEF IInv, WriteInv
<1> HIDE DEF n
<1>4. writing.len > 0 /\ cb.capacity # 0  BY <1>1, <1>2, <1>3
<1>5. Sound(cb)  BY <1>4 DEF IInv, RingInv
<1>6. cb.tail + n <= cb.capacity /\ cb.count + n <= cb.capacity
  <2>1. cb.tail \in Nat /\ cb.count \in Nat /\ cb.capacity \in Nat  BY <1>5, SoundFields
  <2> QED  BY <1>1, <1>2, <1>3, <1>4, <2>1
<1>7. cb' = [cb EXCEPT !.buffer = Stored(cb, cb.tail, data)]  BY <1>1, <1>3, <1>4
<1>8. /\ Sound(cb') /\ cb'.capacity = cb.capacity /\ cb'.overwrite = cb.overwrite
      /\ cb'.count = cb.count /\ \A k \in 1 .. cb.count : Contents(cb')[k] = Contents(cb)[k]
  BY <1>2, <1>5, <1>6, <1>7, FilledEffect DEF n
<1>9. RingOK(cb) /\ RingOK(cb')  BY <1>4, <1>5, <1>8 DEF RingOK
<1>10. Contents(cb') = Contents(cb)  BY <1>8, <1>9, SameItems
<1> QED  BY <1>1, <1>8, <1>10 DEF Q!vars

LEMMA InitImplements == Init => Q!Init
<1> SUFFICES ASSUME Init PROVE Q!Init  OBVIOUS
<1>1. RingOK(cb) /\ cb.capacity = 0 /\ cb.count = 0 /\ ~cb.overwrite /\ cb.overwrite \in BOOLEAN
      /\ ret = [n |-> 0, data |-> <<>>]
  BY DEF Init, RingOK
<1>2. Contents(cb) = <<>>  BY <1>1, ItemsOf
<1> QED  BY <1>1, <1>2 DEF Q!Init

\* Every step of the ring is a step of ByteQueue, or none.
LEMMA StepImplements == IInv /\ IInv' /\ [Next]_vars => [Q!Next]_Q!vars
<1> SUFFICES ASSUME IInv, IInv', [Next]_vars PROVE [Q!Next]_Q!vars  OBVIOUS
<1>0. RingInv /\ RingInv'  BY DEF IInv
<1>1. ASSUME NEW capacity \in Capacities, NEW overwrite \in BOOLEAN,
             CircularBufferInit(capacity, overwrite)
      PROVE  Q!Next
  BY <1>0, <1>1, CreateImplements DEF Q!Next
<1>2. CASE Destroy  BY <1>0, <1>2, DestroyImplements DEF Q!Next
<1>3. CASE Clear  BY <1>0, <1>3, ClearImplements DEF Q!Next
<1>4. ASSUME NEW data \in Data, Write(data) PROVE Q!Next
  BY <1>0, <1>4, WriteImplements DEF Q!Next
<1>5. ASSUME NEW data \in Data, Fill(data) PROVE UNCHANGED Q!vars  BY <1>5, FillImplements
<1>6. ASSUME NEW data \in Data, Find(data) PROVE Q!Next
  BY <1>0, <1>6, FindImplements DEF Q!Next
<1>7. ASSUME NEW src \in Sources, NEW size \in Sizes, Copy(src, size) PROVE Q!Next
  BY <1>0, <1>7, CopyImplements DEF Q!Next
<1>8. ASSUME NEW size \in Sizes, Read(size) PROVE Q!Next
  BY <1>0, <1>8, ReadImplements DEF Q!Next
<1>9. ASSUME NEW size \in Sizes, AdvanceRead(size) PROVE Q!Next
  BY <1>0, <1>9, AdvanceReadImplements DEF Q!Next
<1>10. ASSUME NEW size \in Sizes, AdvanceWrite(size) PROVE Q!Next
  BY <1>0, <1>10, AdvanceWriteImplements DEF Q!Next
<1>11. ASSUME NEW size \in Sizes, NEW offset \in Sizes, Peek(size, offset) PROVE Q!Next
  BY <1>0, <1>11, PeekImplements DEF Q!Next
<1>12. CASE GetReadPtr  BY <1>0, <1>12, GetReadPtrImplements DEF Q!Next
<1>13. CASE GetWritePtr  BY <1>0, <1>13, GetWritePtrImplements DEF Q!Next
<1>14. CASE UNCHANGED vars  BY <1>14 DEF vars, Q!vars
<1> QED
  BY <1>1, <1>2, <1>3, <1>4, <1>5, <1>6, <1>7, <1>8, <1>9, <1>10, <1>11, <1>12, <1>13, <1>14 DEF Next

\* The ring implements the queue of bytes that circular_buffer.h promises, for every
\* capacity: bytes leave in the order in which they entered, a write without overwriting
\* takes all or stops for want of room, an overwriting one discards the oldest bytes only.
THEOREM RingImplementsByteQueue == Spec => ImplementsByteQueue
<1>1. IInv /\ [Next]_vars => [Q!Next]_Q!vars  BY StepInv, StepImplements
<1> QED  BY InitInv, InitImplements, StepInv, <1>1, PTL DEF Spec, ImplementsByteQueue, Q!Spec
=============================================================================

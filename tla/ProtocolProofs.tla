--------------------------- MODULE ProtocolProofs ---------------------------
(* Theorems about Protocol, for every packet layout, every set of requests  *)
(* and any number of packets, heartbeats and faults.                        *)
EXTENDS Protocol, LibraryLemmas, FiniteSetTheorems

-----------------------------------------------------------------------------
(* Packets and their bytes.                                                *)

\* A packet that is created has its type.
LEMMA PacketType ==
    ASSUME NEW h \in HandlerT, NEW command \in Commands, NEW length \in Nat
    PROVE  /\ Packet(h, command, length) \in PacketT
           /\ Packet(h, command, length).number = h.packets_sent + 1
           /\ Packet(h, command, length).command = command
           /\ Packet(h, command, length).length = length
BY DEF Packet, PacketT, HandlerT

\* The fields of a handler.
LEMMA HandlerFields ==
    ASSUME NEW h \in HandlerT
    PROVE  /\ h.sequence_counter \in 0 .. SequenceNumbers - 1
           /\ h.packets_sent \in Nat /\ h.bytes_sent \in Nat
           /\ h.packets_received \in Nat /\ h.bytes_received \in Nat /\ h.crc_errors \in Nat
           /\ h = [sequence_counter |-> h.sequence_counter, packets_sent |-> h.packets_sent,
                   bytes_sent |-> h.bytes_sent, packets_received |-> h.packets_received,
                   bytes_received |-> h.bytes_received, crc_errors |-> h.crc_errors]
BY DEF HandlerT

\* The handler after creating a packet.
LEMMA CreateType ==
    ASSUME NEW h \in HandlerT, NEW length \in Nat
    PROVE  /\ AfterCreate(h, length) \in HandlerT
           /\ AfterCreate(h, length).packets_sent = h.packets_sent + 1
           /\ AfterCreate(h, length).packets_received = h.packets_received
           /\ AfterCreate(h, length).crc_errors = h.crc_errors
<1> DEFINE next == (h.sequence_counter + 1) % SequenceNumbers
           bytes == h.bytes_sent + Header + length + CrcSize + 2
<1>1. h.sequence_counter \in Nat /\ SequenceNumbers \in Nat \ {0}
  BY ProtocolAssumption DEF HandlerT
<1>2. next \in 0 .. SequenceNumbers - 1
  BY ONLY <1>1
<1>3. bytes \in Nat  BY ProtocolAssumption DEF HandlerT
<1>4. AfterCreate(h, length) =
         [h EXCEPT !.sequence_counter = next, !.packets_sent = h.packets_sent + 1, !.bytes_sent = bytes]
  BY Zenon DEF AfterCreate
<1> DEFINE packets == h.packets_sent + 1
           a == AfterCreate(h, length)
<1>5. packets \in Nat  BY HandlerFields
<1>6. a = [sequence_counter |-> next, packets_sent |-> packets, bytes_sent |-> bytes,
           packets_received |-> h.packets_received, bytes_received |-> h.bytes_received,
           crc_errors |-> h.crc_errors]
  <2>1. a = [h EXCEPT !.sequence_counter = next, !.packets_sent = packets, !.bytes_sent = bytes]
    BY <1>4, Zenon
  <2> DEFINE sq == h.sequence_counter
             ps == h.packets_sent
             bs == h.bytes_sent
             hp == h.packets_received
             hb == h.bytes_received
             hc == h.crc_errors
  <2>2. h = [sequence_counter |-> sq, packets_sent |-> ps, bytes_sent |-> bs,
              packets_received |-> hp, bytes_received |-> hb, crc_errors |-> hc]
    BY HandlerFields
  <2>3. a = [sequence_counter |-> next, packets_sent |-> packets, bytes_sent |-> bytes,
             packets_received |-> hp, bytes_received |-> hb, crc_errors |-> hc]
    <3> HIDE DEF next, bytes, packets, a, sq, ps, bs, hp, hb, hc
    <3> QED  BY <2>1, <2>2
  <2> QED  BY <2>3, Zenon
<1> HIDE DEF next, bytes, packets, a
<1>7. a \in HandlerT  BY <1>2, <1>3, <1>5, <1>6, HandlerFields DEF HandlerT
<1> QED  BY <1>6, <1>7 DEF a, packets

\* The handler after parsing a block.
LEMMA ParseType ==
    ASSUME NEW h \in HandlerT, NEW verdict, NEW length \in Nat
    PROVE  /\ AfterParse(h, verdict, length) \in HandlerT
           /\ AfterParse(h, verdict, length).packets_sent = h.packets_sent
           /\ AfterParse(h, verdict, length).packets_received =
                h.packets_received + (IF verdict = "parsed" THEN 1 ELSE 0)
           /\ AfterParse(h, verdict, length).crc_errors =
                h.crc_errors + (IF verdict = "crc_error" THEN 1 ELSE 0)
<1> DEFINE a == AfterParse(h, verdict, length)
           pr == h.packets_received + 1
           br == h.bytes_received + length
           ce == h.crc_errors + 1
           sq == h.sequence_counter
           ps == h.packets_sent
           bs == h.bytes_sent
           hp == h.packets_received
           hb == h.bytes_received
           hc == h.crc_errors
<1>0. h = [sequence_counter |-> sq, packets_sent |-> ps, bytes_sent |-> bs,
              packets_received |-> hp, bytes_received |-> hb, crc_errors |-> hc]
  BY HandlerFields
<1>1. pr \in Nat /\ br \in Nat /\ ce \in Nat  BY HandlerFields
<1>2. CASE verdict = "parsed"
  <2>1. a = [h EXCEPT !.packets_received = pr, !.bytes_received = br]  BY <1>2, Zenon DEF AfterParse
  <2> HIDE DEF a, pr, br, ce, sq, ps, bs, hp, hb, hc
  <2>2. a = [sequence_counter |-> sq, packets_sent |-> ps, bytes_sent |-> bs,
             packets_received |-> pr, bytes_received |-> br, crc_errors |-> hc]
    BY <1>0, <2>1
  <2>3. a \in HandlerT  BY <1>1, <2>2, HandlerFields DEF HandlerT, sq, ps, bs, hp, hb, hc
  <2>4. a.packets_sent = h.packets_sent /\ a.packets_received = pr /\ a.crc_errors = h.crc_errors
    BY <2>2 DEF ps, hc
  <2>5. h.crc_errors + 0 = h.crc_errors  BY HandlerFields
  <2> QED  BY <1>2, <2>3, <2>4, <2>5 DEF a, pr
<1>3. CASE verdict = "crc_error"
  <2>1. a = [h EXCEPT !.crc_errors = ce]  BY <1>3, Zenon DEF AfterParse
  <2> HIDE DEF a, pr, br, ce, sq, ps, bs, hp, hb, hc
  <2>2. a = [sequence_counter |-> sq, packets_sent |-> ps, bytes_sent |-> bs,
             packets_received |-> hp, bytes_received |-> hb, crc_errors |-> ce]
    BY <1>0, <2>1
  <2>3. a \in HandlerT  BY <1>1, <2>2, HandlerFields DEF HandlerT, sq, ps, bs, hp, hb, hc
  <2>4. a.packets_sent = h.packets_sent /\ a.packets_received = h.packets_received /\ a.crc_errors = ce
    BY <2>2 DEF ps, hp
  <2>5. h.packets_received + 0 = h.packets_received  BY HandlerFields
  <2> QED  BY <1>3, <2>3, <2>4, <2>5 DEF a, ce
<1>4. CASE verdict # "parsed" /\ verdict # "crc_error"
  BY <1>4, HandlerFields DEF AfterParse
<1> QED  BY <1>2, <1>3, <1>4

\* The bytes of a packet.
LEMMA BytesType ==
    ASSUME NEW p \in PacketT
    PROVE  /\ Size(p) \in Nat /\ Size(p) > 4 /\ Size(p) = Header + p.length + CrcSize + 1
           /\ Bytes(p) \in Seq(ByteT) /\ Len(Bytes(p)) = Size(p)
           /\ \A k \in 1 .. Size(p) :
                 Bytes(p)[k] = [packet |-> p, index |-> k, damaged |-> FALSE]
<1>1. Size(p) \in Nat /\ Size(p) > 4 /\ Size(p) = Header + p.length + CrcSize + 1
  BY ProtocolAssumption DEF Size, PacketT
<1>2. \A k \in 1 .. Size(p) : Bytes(p)[k] = [packet |-> p, index |-> k, damaged |-> FALSE]
  BY DEF Bytes
<1>3. \A k \in 1 .. Size(p) : [packet |-> p, index |-> k, damaged |-> FALSE] \in ByteT
  BY <1>1 DEF ByteT
<1>4. Bytes(p) \in [1 .. Size(p) -> ByteT]
  BY <1>3 DEF Bytes
<1> QED  BY <1>1, <1>2, <1>4, FunctionIsSeq

\* The fields of a byte.
LEMMA ByteFields ==
    ASSUME NEW b \in ByteT
    PROVE  /\ b.packet \in PacketT /\ b.index \in Nat /\ b.damaged \in BOOLEAN
           /\ b.packet.number \in Nat /\ b.packet.length \in Nat /\ b.packet.command \in Commands
           /\ b = [packet |-> b.packet, index |-> b.index, damaged |-> b.damaged]
BY DEF ByteT, PacketT

-----------------------------------------------------------------------------
(* Blocks: what is taken from a line, and what is left of it.              *)

\* A line of bytes, cut after byte n.
LEMMA Cut ==
    ASSUME NEW S, NEW l \in Seq(S), NEW n \in 0 .. Len(l)
    PROVE  /\ SubSeq(l, 1, n) \in Seq(S) /\ Len(SubSeq(l, 1, n)) = n
           /\ \A i \in 1 .. n : SubSeq(l, 1, n)[i] = l[i]
           /\ SubSeq(l, n + 1, Len(l)) \in Seq(S) /\ Len(SubSeq(l, n + 1, Len(l))) = Len(l) - n
           /\ \A i \in 1 .. Len(l) - n : SubSeq(l, n + 1, Len(l))[i] = l[n + i]
<1>1. Len(l) \in Nat /\ \A i \in 1 .. Len(l) : l[i] \in S  BY ElementOfSeq, LenProperties
<1>2. (\A i \in 1 .. n : l[i] \in S)
      => /\ SubSeq(l, 1, n) \in Seq(S) /\ Len(SubSeq(l, 1, n)) = IF 1 <= n THEN n - 1 + 1 ELSE 0
         /\ \A i \in 1 .. n - 1 + 1 : SubSeq(l, 1, n)[i] = l[1 + i - 1]
  <2>1. 1 \in Int /\ n \in Int  BY <1>1
  <2> QED  BY <2>1, SubSeqProperties
<1> DEFINE m == n + 1
           e == Len(l)
           t == SubSeq(l, m, e)
<1>3. (\A i \in m .. e : l[i] \in S)
      => /\ t \in Seq(S) /\ Len(t) = IF m <= e THEN e - m + 1 ELSE 0
         /\ \A i \in 1 .. e - m + 1 : t[i] = l[m + i - 1]
  <2>1. m \in Int /\ e \in Int  BY <1>1
  <2> HIDE DEF m, e
  <2> QED  BY <2>1, SubSeqProperties
<1>4. (\A i \in 1 .. n : l[i] \in S) /\ (\A i \in m .. e : l[i] \in S)  BY <1>1
<1>5. t \in Seq(S) /\ Len(t) = e - n /\ \A i \in 1 .. e - n : t[i] = l[n + i]
  <2> HIDE DEF t
  <2> QED  BY <1>1, <1>3, <1>4
<1>6. Len(SubSeq(l, 1, n)) = n /\ \A i \in 1 .. n : SubSeq(l, 1, n)[i] = l[i]
  BY <1>1, <1>2, <1>4
<1> QED  BY <1>2, <1>4, <1>5, <1>6 DEF t, m, e

\* A line without byte k.
Removed(l, k) == SubSeq(l, 1, k - 1) \o SubSeq(l, k + 1, Len(l))

LEMMA Without ==
    ASSUME NEW S, NEW l \in Seq(S), NEW k \in 1 .. Len(l)
    PROVE  /\ Removed(l, k) \in Seq(S) /\ Len(Removed(l, k)) = Len(l) - 1
           /\ \A i \in 1 .. Len(l) - 1 : Removed(l, k)[i] = IF i < k THEN l[i] ELSE l[i + 1]
<1> DEFINE a == SubSeq(l, 1, k - 1)
           b == SubSeq(l, k + 1, Len(l))
           r == Removed(l, k)
<1>1. Len(l) \in Nat /\ k - 1 \in 0 .. Len(l) /\ k \in 0 .. Len(l)  BY LenProperties
<1>2. a \in Seq(S) /\ Len(a) = k - 1 /\ \A i \in 1 .. k - 1 : a[i] = l[i]
  BY <1>1, Cut
<1>3. b \in Seq(S) /\ Len(b) = Len(l) - k /\ \A i \in 1 .. Len(l) - k : b[i] = l[k + i]
  BY <1>1, Cut
<1> HIDE DEF a, b
<1>4. /\ a \o b \in Seq(S) /\ Len(a \o b) = Len(a) + Len(b)
      /\ \A i \in 1 .. Len(a) + Len(b) : (a \o b)[i] = IF i <= Len(a) THEN a[i] ELSE b[i - Len(a)]
  BY <1>2, <1>3, ConcatProperties
<1>5. r = a \o b  BY Zenon DEF a, b, r, Removed
<1> HIDE DEF r
<1> DEFINE n == Len(l)
           x == Len(a)
           y == Len(b)
<1>8. /\ r \in Seq(S) /\ Len(r) = x + y
      /\ \A i \in 1 .. x + y : r[i] = IF i <= x THEN a[i] ELSE b[i - x]
  BY <1>4, <1>5, Zenon
<1>9. n \in Nat /\ k \in 1 .. n /\ x = k - 1 /\ y = n - k  BY <1>1, <1>2, <1>3
<1> HIDE DEF n, x, y
<1>6. r \in Seq(S) /\ Len(r) = n - 1  BY <1>8, <1>9
<1>7. ASSUME NEW i \in 1 .. n - 1 PROVE r[i] = IF i < k THEN l[i] ELSE l[i + 1]
  <2>1. i \in 1 .. x + y  BY <1>9
  <2>2. r[i] = IF i <= x THEN a[i] ELSE b[i - x]  BY <1>8, <2>1
  <2>3. CASE i < k
    <3>1. i <= x /\ i \in 1 .. k - 1  BY <1>9, <2>3
    <3> QED  BY <1>2, <2>2, <2>3, <3>1
  <2>4. CASE ~(i < k)
    <3>1. i - x \in 1 .. n - k /\ k + (i - x) = i + 1 /\ ~(i <= x)
      BY <1>9, <2>4
    <3>2. b[i - x] = l[k + (i - x)]  BY <1>3, <3>1 DEF n
    <3> QED  BY <2>2, <2>4, <3>1, <3>2
  <2> QED  BY <2>3, <2>4
<1> QED  BY <1>6, <1>7 DEF r, n

-----------------------------------------------------------------------------
(* What protocol_parse_packet() accepts.                                   *)

\* A block that is parsed is a packet whole, but for its last byte: it has the packet's
\* length, and every byte up to there is the packet's own.
LEMMA ParsedBlock ==
    ASSUME NEW block \in Seq(ByteT), "parsed" \in Verdicts(block)
    PROVE  /\ Len(block) = Size(block[1].packet) /\ block[1] \in ByteT
           /\ Len(block) >= Header + CrcSize + 2
           /\ \A k \in 1 .. Len(block) - 1 : block[k] = Bytes(block[1].packet)[k]
           /\ block[1].index = 1
           /\ Parsed(block) = block[1].packet
<1> DEFINE p == block[1].packet
<1>1. Len(block) >= Header + CrcSize + 2 /\ Len(block) \in Nat
  <2>1. Len(block) \in Nat /\ Header + CrcSize + 2 \in Nat  BY LenProperties, ProtocolAssumption
  <2>2. Len(block) < Header + CrcSize + 2 => Verdicts(block) = {"refused"}  BY DEF Verdicts
  <2>3. Verdicts(block) # {"refused"}  OBVIOUS
  <2> QED  BY <2>1, <2>2, <2>3
<1>2. PICK start \in Compare(block[1], "start"), end \in Compare(block[Len(block)], "end") :
         Verdict(block, start, end) = "parsed"
  <2>1. ~(Len(block) < Header + CrcSize + 2)  BY <1>1, ProtocolAssumption
  <2> QED  BY <2>1 DEF Verdicts
<1>3. LengthMatches(block) /\ CrcMatches(block)  BY <1>2 DEF Verdict
<1>4. 1 \in 1 .. Len(block)  BY <1>1, ProtocolAssumption
<1>5. block[1] \in ByteT /\ p \in PacketT  BY <1>4, ElementOfSeq, ByteFields
<1>6. Len(block) = Size(p) /\ \A k \in 1 .. Len(block) - 1 : block[k] = Bytes(p)[k]
  BY <1>3, Zenon DEF LengthMatches, CrcMatches
<1>7. block[1].index = 1
  <2>1. 1 \in 1 .. Len(block) - 1 /\ 1 \in 1 .. Size(p)
    BY <1>1, <1>4, <1>5, <1>6, BytesType, ProtocolAssumption
  <2>2. block[1] = Bytes(p)[1]  BY <1>6, <2>1
  <2>3. Bytes(p)[1] = [packet |-> p, index |-> 1, damaged |-> FALSE]  BY <1>5, <2>1, BytesType
  <2>4. Bytes(p)[1].index = 1  BY <2>3
  <2> QED  BY <2>2, <2>4
<1>8. Parsed(block) = p
  <2>1. \A k \in 1 .. Size(p) - CrcSize - 1 : k \in 1 .. Len(block) - 1
    BY <1>5, <1>6, BytesType, ProtocolAssumption
  <2>2. \A k \in 1 .. Size(p) - CrcSize - 1 : block[k] = Bytes(p)[k]  BY <1>6, <2>1
  <2> QED  BY <2>2, Zenon DEF Parsed
<1> QED  BY <1>1, <1>5, <1>6, <1>7, <1>8

\* A block that is a packet with data, whole and undamaged, is parsed.
LEMMA WholeBlock ==
    ASSUME NEW p \in PacketT, p.length > 0, NEW block \in Seq(ByteT), block = Bytes(p)
    PROVE  Verdicts(block) = {"parsed"} /\ Parsed(block) = p
<1> DEFINE n == Size(p)
<1>1. n \in Nat /\ n > 4 /\ n = Header + p.length + CrcSize + 1
      /\ \A k \in 1 .. n : Bytes(p)[k] = [packet |-> p, index |-> k, damaged |-> FALSE]
  BY BytesType
<1>2. Len(block) = n  BY BytesType
<1>3. block[1] = [packet |-> p, index |-> 1, damaged |-> FALSE]
      /\ block[n] = [packet |-> p, index |-> n, damaged |-> FALSE]
  BY <1>1
<1>4. block[1].packet = p /\ block[1].index = 1 /\ block[1].damaged = FALSE
  BY <1>3
<1>5. block[n].packet = p /\ block[n].index = n /\ block[n].damaged = FALSE
  BY <1>3
<1>6. Compare(block[1], "start") = {TRUE}
  <2>1. Value(block[1]) = "start"  BY <1>4 DEF Value
  <2> QED  BY <1>4, <2>1 DEF Compare
<1>7. Compare(block[n], "end") = {TRUE}
  <2>1. Value(block[n]) = "end"  BY <1>1, <1>5 DEF Value
  <2> QED  BY <1>5, <2>1 DEF Compare
<1>8. LengthMatches(block) /\ CrcMatches(block)
  BY <1>2, <1>4 DEF LengthMatches, CrcMatches
<1>9. Verdict(block, TRUE, TRUE) = "parsed"  BY <1>8 DEF Verdict
<1>10. ~(Len(block) < Header + CrcSize + 2)
  <2>1. p.length \in Nat /\ Header \in Nat /\ CrcSize \in Nat
    BY ProtocolAssumption DEF PacketT
  <2>2. Header + p.length + CrcSize + 1 >= Header + CrcSize + 2  BY <2>1
  <2> HIDE DEF n
  <2> QED  BY <1>1, <1>2, <2>1, <2>2
<1>11. Verdicts(block) = {"parsed"}
  <2>1. block[Len(block)] = block[n]  BY <1>2
  <2>2. ASSUME NEW v PROVE v \in Verdicts(block) <=> v = "parsed"
    <3>1. v \in Verdicts(block) <=> v \in {"refused", "crc_error", "parsed"}
             /\ \E start \in {TRUE}, end \in {TRUE} : v = Verdict(block, start, end)
      BY <1>6, <1>7, <1>10, <2>1 DEF Verdicts
    <3> QED  BY <1>9, <3>1
  <2> QED  BY <2>2
<1>12. Parsed(block) = p  BY <1>4, Zenon DEF Parsed
<1> QED  BY <1>11, <1>12

-----------------------------------------------------------------------------
(* The steps, as each direction of the line sees them.                     *)

CommT == [packets_sent : Nat, packets_received : Nat, errors : Nat]

\* A function over the two stations.
LEMMA StationFunction ==
    ASSUME NEW S, NEW f, DOMAIN f = Stations, f = [s \in Stations |-> f[s]],
           f["hub"] \in S, f["host"] \in S
    PROVE  f \in [Stations -> S]
BY DEF Stations

\* The answer of a command is a packet that comm_task() creates.
LEMMA AnswerType ==
    ASSUME NEW command
    PROVE  /\ AnswerTo(command) \in {"PONG", "SENSOR_DATA", "STATUS_RESPONSE", "OTA_COMPLETE", "ERROR"}
           /\ AnswerTo(command) \in Commands
           /\ DataLength[AnswerTo(command)] \in Nat
<1>1. AnswerTo(command) \in {"PONG", "SENSOR_DATA", "STATUS_RESPONSE", "OTA_COMPLETE", "ERROR"}
  BY DEF AnswerTo
<1>2. \A a \in {"PONG", "SENSOR_DATA", "STATUS_RESPONSE", "OTA_COMPLETE", "ERROR", "PING"} :
         a \in Commands /\ DataLength[a] \in Nat
  <2>1. \A length \in {PingLength, SensorLength, StatusLength, 1} : length \in Nat
    BY ProtocolAssumption
  <2>2. PingLength \in Nat /\ SensorLength \in Nat /\ StatusLength \in Nat /\ 1 \in Nat /\ 0 \in Nat
    BY <2>1
  <2>3. /\ DataLength["PONG"] = 0 /\ DataLength["SENSOR_DATA"] = SensorLength
        /\ DataLength["STATUS_RESPONSE"] = StatusLength /\ DataLength["OTA_COMPLETE"] = 1
        /\ DataLength["ERROR"] = 1 /\ DataLength["PING"] = PingLength
    BY DEF DataLength
  <2> QED  BY <2>2, <2>3 DEF Commands
<1> QED  BY <1>1, <1>2

\* The peer of a station sends nothing.
SendsNothing(s) ==
    /\ sent'[Peer(s)] = sent[Peer(s)]
    /\ handler'[Peer(s)].packets_sent = handler[Peer(s)].packets_sent

\* Nothing happens on the way to a station.
Quiet(s) == line'[s] = line[s] /\ got'[s] = got[s] /\ SendsNothing(s)

\* The peer of a station sends the packet p.
Sends(s, p) ==
    /\ p \in PacketT /\ p.number = handler[Peer(s)].packets_sent + 1
    /\ handler'[Peer(s)].packets_sent = handler[Peer(s)].packets_sent + 1
    /\ line'[s] = line[s] \o Bytes(p)
    /\ sent'[Peer(s)] = Append(sent[Peer(s)], p)
    /\ got'[s] = got[s]

\* A station receives n bytes and parses a packet from them, or none.
Receives(s, n) ==
    /\ n \in 1 .. Len(line[s])
    /\ line'[s] = Left(s, n)
    /\ SendsNothing(s)
    /\ \/ /\ "parsed" \in Verdicts(Taken(s, n))
          /\ got'[s] = Append(got[s], Parsed(Taken(s, n)))
       \/ /\ Verdicts(Taken(s, n)) # {"parsed"}
          /\ got'[s] = got[s]

\* A byte on the way to a station is damaged or lost.
Suffers(s) ==
    /\ \E k \in 1 .. Len(line[s]) : line'[s] = Damaged(s, k) \/ line'[s] = WithoutByte(s, k)
    /\ got'[s] = got[s] /\ SendsNothing(s)

LEMMA StationFacts ==
    /\ Stations = {"hub", "host"} /\ "hub" # "host"
    /\ Peer("hub") = "host" /\ Peer("host") = "hub"
    /\ \A s \in Stations : Peer(s) \in Stations
BY DEF Stations, Peer

\* The parts of a state.
LEMMA StateTypes ==
    ASSUME TypeOK, NEW s \in Stations
    PROVE  /\ handler[s] \in HandlerT /\ handler[s].packets_sent \in Nat
           /\ line[s] \in Seq(ByteT) /\ Len(line[s]) \in Nat
           /\ sent[s] \in Seq(PacketT) /\ Len(sent[s]) \in Nat
           /\ got[s] \in Seq(PacketT) /\ Len(got[s]) \in Nat
<1>1. /\ handler[s] \in HandlerT /\ line[s] \in Seq(ByteT)
      /\ sent[s] \in Seq(PacketT) /\ got[s] \in Seq(PacketT)
  BY DEF TypeOK
<1>2. handler[s].packets_sent \in Nat  BY <1>1, HandlerFields
<1> QED  BY <1>1, <1>2, LenProperties

\* The parts of comm_status.
LEMMA CommFields ==
    ASSUME NEW c \in CommT
    PROVE  /\ c.packets_sent \in Nat /\ c.packets_received \in Nat /\ c.errors \in Nat
           /\ c = [packets_sent |-> c.packets_sent, packets_received |-> c.packets_received,
                   errors |-> c.errors]
BY DEF CommT

\* A block, and what is left of the line behind it.
LEMMA BlockType ==
    ASSUME TypeOK, NEW s \in Stations, NEW n \in 1 .. Len(line[s])
    PROVE  /\ Taken(s, n) \in Seq(ByteT) /\ Len(Taken(s, n)) = n
           /\ \A i \in 1 .. n : Taken(s, n)[i] = line[s][i]
           /\ Left(s, n) \in Seq(ByteT) /\ Len(Left(s, n)) = Len(line[s]) - n
           /\ \A i \in 1 .. Len(line[s]) - n : Left(s, n)[i] = line[s][n + i]
<1>1. line[s] \in Seq(ByteT) /\ Len(line[s]) \in Nat  BY StateTypes
<1>2. n \in 0 .. Len(line[s])  BY <1>1
<1> QED  BY <1>1, <1>2, Cut, Zenon DEF Taken, Left

\* A packet parsed from a block has its type, even if its bytes are those of no packet.
LEMMA ParsedType ==
    ASSUME NEW block \in Seq(ByteT), "parsed" \in Verdicts(block)
    PROVE  Parsed(block) \in PacketT
BY ParsedBlock, ByteFields

\* What the hub changes when it sends a packet.
LEMMA HubSendsEffect ==
    ASSUME TypeOK, NEW h \in HandlerT, h.packets_sent = handler["hub"].packets_sent,
           NEW command \in Commands, DataLength[command] \in Nat,
           NEW to_hub \in Seq(ByteT), NEW c \in CommT,
           HubSends(h, command, to_hub, c)
    PROVE  /\ handler' \in [Stations -> HandlerT] /\ handler'["host"] = handler["host"]
           /\ handler'["hub"].packets_received = h.packets_received
           /\ handler'["hub"].crc_errors = h.crc_errors
           /\ handler'["hub"].packets_sent = h.packets_sent + 1
           /\ line' \in [Stations -> Seq(ByteT)] /\ line'["hub"] = to_hub
           /\ comm' \in CommT /\ comm'.packets_sent = c.packets_sent + 1
           /\ comm'.packets_received = c.packets_received /\ comm'.errors = c.errors
           /\ sent' \in [Stations -> Seq(PacketT)] /\ sent'["host"] = sent["host"]
           /\ \E p \in PacketT :
                /\ p.number = handler["hub"].packets_sent + 1 /\ p.command = command
                /\ line'["host"] = line["host"] \o Bytes(p)
                /\ sent'["hub"] = Append(sent["hub"], p)
<1> DEFINE length == DataLength[command]
           p == Packet(h, command, length)
           a == AfterCreate(h, length)
           ps == c.packets_sent + 1
           pr == c.packets_received
           er == c.errors
           l == line["host"] \o Bytes(p)
           t == Append(sent["hub"], p)
<1>1. p \in PacketT /\ p.number = h.packets_sent + 1 /\ p.command = command
  <2>1. length \in Nat  OBVIOUS
  <2> HIDE DEF length
  <2> QED  BY <2>1, PacketType
<1>2. /\ a \in HandlerT /\ a.packets_sent = h.packets_sent + 1
      /\ a.packets_received = h.packets_received /\ a.crc_errors = h.crc_errors
  BY CreateType, Zenon
<1>3. l \in Seq(ByteT)
  BY <1>1, BytesType, StateTypes, StationFacts, ConcatProperties
<1>4. t \in Seq(PacketT)
  BY <1>1, StateTypes, StationFacts, AppendProperties
<1>5. /\ handler' = [handler EXCEPT !["hub"] = a] /\ line' = [hub |-> to_hub, host |-> l]
      /\ sent' = [sent EXCEPT !["hub"] = t] /\ comm' = [c EXCEPT !.packets_sent = ps]
  BY Zenon DEF HubSends
<1>6. comm' = [packets_sent |-> ps, packets_received |-> pr, errors |-> er]
      /\ ps \in Nat /\ pr \in Nat /\ er \in Nat
  <2> DEFINE old == c.packets_sent
  <2>1. c = [packets_sent |-> old, packets_received |-> pr, errors |-> er]
        /\ old \in Nat /\ pr \in Nat /\ er \in Nat
    BY CommFields
  <2>2. ps \in Nat  BY <2>1
  <2> HIDE DEF ps, pr, er, old
  <2> QED  BY <1>5, <2>1, <2>2
<1> HIDE DEF p, a, l, t, ps, pr, er
<1>7. handler' \in [Stations -> HandlerT] /\ handler'["hub"] = a /\ handler'["host"] = handler["host"]
  BY <1>2, <1>5 DEF TypeOK, Stations
<1>8. line' \in [Stations -> Seq(ByteT)] /\ line'["hub"] = to_hub /\ line'["host"] = l
  BY <1>3, <1>5 DEF Stations
<1>9. sent' \in [Stations -> Seq(PacketT)] /\ sent'["hub"] = t /\ sent'["host"] = sent["host"]
  BY <1>4, <1>5 DEF TypeOK, Stations
<1>10. comm' \in CommT /\ comm'.packets_sent = ps /\ comm'.packets_received = pr /\ comm'.errors = er
  BY <1>6 DEF CommT
<1> QED  BY <1>1, <1>2, <1>7, <1>8, <1>9, <1>10 DEF l, t, ps, pr, er

\* What the hub changes when it does not.
LEMMA HubKeepsQuietEffect ==
    ASSUME TypeOK, NEW h \in HandlerT, NEW to_hub \in Seq(ByteT), NEW c \in CommT,
           HubKeepsQuiet(h, to_hub, c)
    PROVE  /\ handler' \in [Stations -> HandlerT] /\ handler'["host"] = handler["host"]
           /\ handler'["hub"] = h
           /\ line' \in [Stations -> Seq(ByteT)] /\ line'["hub"] = to_hub /\ line'["host"] = line["host"]
           /\ comm' = c /\ sent' = sent
BY DEF HubKeepsQuiet, TypeOK, Stations

\* The hub receives n bytes: it parses a packet, which it answers or not, or counts an error.
Handles(n) ==
    LET block == Taken("hub", n) IN
    /\ n \in 1 .. Len(line["hub"])
    /\ line'["hub"] = Left("hub", n) /\ SendsNothing("hub") /\ got'["host"] = got["host"]
    /\ \/ /\ "parsed" \in Verdicts(block)
          /\ got'["hub"] = Append(got["hub"], Parsed(block))
          /\ comm'.errors = comm.errors
          /\ \/ Quiet("host")
             \/ \E p : Sends("host", p) /\ p.command = AnswerTo(Parsed(block).command)
       \/ /\ Verdicts(block) # {"parsed"}
          /\ got'["hub"] = got["hub"]
          /\ comm'.errors = comm.errors + 1
          /\ Quiet("host")

LEMMA HubHandlesEffect ==
    ASSUME TypeOK, StatisticsAgree, NEW n \in 1 .. Len(line["hub"]),
           HubHandles(Taken("hub", n), Left("hub", n))
    PROVE  TypeOK' /\ StatisticsAgree' /\ Handles(n) /\ faults' = faults
<1> DEFINE block == Taken("hub", n)
           to_hub == Left("hub", n)
           c == [comm EXCEPT !.packets_received = comm.packets_received + 1]
           e == [c EXCEPT !.errors = c.errors + 1]
           p == Parsed(block)
           old == handler["hub"]
<1>1. /\ old \in HandlerT /\ comm \in CommT /\ old.packets_received \in Nat
      /\ comm.packets_received \in Nat /\ comm.errors \in Nat /\ old.crc_errors \in Nat
      /\ comm.packets_sent \in Nat
  BY StationFacts, StateTypes, HandlerFields, CommFields DEF TypeOK, CommT
<1>2. block \in Seq(ByteT) /\ Len(block) = n /\ to_hub \in Seq(ByteT) /\ n \in Nat
  BY StationFacts, BlockType
<1>3. /\ c \in CommT /\ c.packets_sent = comm.packets_sent
      /\ c.packets_received = comm.packets_received + 1 /\ c.errors = comm.errors
      /\ e \in CommT /\ e.packets_sent = comm.packets_sent
      /\ e.packets_received = comm.packets_received + 1 /\ e.errors = comm.errors + 1
  <2> DEFINE ps == comm.packets_sent
             pr == comm.packets_received
             er == comm.errors
             more == pr + 1
             worse == er + 1
  <2>1. comm = [packets_sent |-> ps, packets_received |-> pr, errors |-> er]
        /\ ps \in Nat /\ more \in Nat /\ er \in Nat /\ worse \in Nat
    BY <1>1, CommFields
  <2>2. c = [comm EXCEPT !.packets_received = more]  OBVIOUS
  <2>3. e = [c EXCEPT !.errors = c.errors + 1]  OBVIOUS
  <2> HIDE DEF c, e, ps, pr, more, er, worse
  <2>4. c = [packets_sent |-> ps, packets_received |-> more, errors |-> er]  BY <2>1, <2>2
  <2>5. c.errors + 1 = worse  BY <2>4 DEF worse
  <2>6. e = [packets_sent |-> ps, packets_received |-> more, errors |-> worse]  BY <2>3, <2>4, <2>5
  <2> QED  BY <2>1, <2>4, <2>6 DEF CommT, ps, pr, more, er, worse
<1>4. /\ AfterParse(old, "parsed", n) \in HandlerT
      /\ AfterParse(old, "parsed", n).packets_sent = old.packets_sent
      /\ AfterParse(old, "parsed", n).packets_received = old.packets_received + 1
      /\ AfterParse(old, "parsed", n).crc_errors = old.crc_errors
  BY <1>1, <1>2, ParseType
<1>5. ASSUME NEW verdict, verdict # "parsed"
      PROVE  /\ AfterParse(old, verdict, n) \in HandlerT
             /\ AfterParse(old, verdict, n).packets_sent = old.packets_sent
             /\ AfterParse(old, verdict, n).packets_received = old.packets_received
             /\ AfterParse(old, verdict, n).crc_errors <= old.crc_errors + 1
  BY <1>1, <1>2, <1>5, ParseType
<1>6. old.packets_sent = comm.packets_sent /\ old.crc_errors <= comm.errors
      /\ comm.packets_received = old.packets_received + comm.errors
  BY DEF StatisticsAgree
<1>7. UNCHANGED <<data_ready, faults>> /\ Len(block) = n
      /\ (HubHandles(block, to_hub) <=> HubHandles(Taken("hub", n), Left("hub", n)))
  BY <1>2 DEF HubHandles
<1>8. PICK verdict \in Verdicts(block) :
         LET h == AfterParse(old, verdict, Len(block)) IN
         \/ /\ verdict = "parsed" /\ Answered(p.command)
            /\ HubSends(h, AnswerTo(p.command), to_hub, c)
            /\ got' = [got EXCEPT !["hub"] = Append(@, p)]
         \/ /\ verdict = "parsed" /\ ~Answered(p.command)
            /\ HubKeepsQuiet(h, to_hub, c)
            /\ got' = [got EXCEPT !["hub"] = Append(@, p)]
         \/ /\ verdict # "parsed"
            /\ HubKeepsQuiet(h, to_hub, e)
            /\ UNCHANGED got
  BY Zenon DEF HubHandles
<1> DEFINE h == AfterParse(old, verdict, n)
<1>9. ASSUME verdict = "parsed"
      PROVE  p \in PacketT /\ Append(got["hub"], p) \in Seq(PacketT)
  BY <1>2, <1>9, ParsedType, StationFacts, StateTypes, AppendProperties
<1>10. CASE /\ verdict = "parsed" /\ HubSends(h, AnswerTo(p.command), to_hub, c)
            /\ got' = [got EXCEPT !["hub"] = Append(got["hub"], p)]
  <2>1. h \in HandlerT /\ h.packets_sent = old.packets_sent
        /\ h.packets_received = old.packets_received + 1 /\ h.crc_errors = old.crc_errors
    BY <1>4, <1>10
  <2> DEFINE answer == AnswerTo(p.command)
  <2>2. answer \in Commands /\ DataLength[answer] \in Nat  BY AnswerType
  <2> HIDE DEF h, p, c, to_hub, answer
  <2>3. /\ handler' \in [Stations -> HandlerT] /\ handler'["host"] = handler["host"]
        /\ handler'["hub"].packets_received = h.packets_received
        /\ handler'["hub"].crc_errors = h.crc_errors
        /\ handler'["hub"].packets_sent = h.packets_sent + 1
        /\ line' \in [Stations -> Seq(ByteT)] /\ line'["hub"] = to_hub
        /\ comm' \in CommT /\ comm'.packets_sent = c.packets_sent + 1
        /\ comm'.packets_received = c.packets_received /\ comm'.errors = c.errors
        /\ sent' \in [Stations -> Seq(PacketT)] /\ sent'["host"] = sent["host"]
        /\ \E q \in PacketT :
             /\ q.number = handler["hub"].packets_sent + 1 /\ q.command = answer
             /\ line'["host"] = line["host"] \o Bytes(q)
             /\ sent'["hub"] = Append(sent["hub"], q)
    <3>1. HubSends(h, answer, to_hub, c)  BY <1>10 DEF answer
    <3> QED  BY <1>2, <1>3, <2>1, <2>2, <3>1, HubSendsEffect DEF old
  <2>4. got' \in [Stations -> Seq(PacketT)] /\ got'["hub"] = Append(got["hub"], p)
        /\ got'["host"] = got["host"]
    BY <1>9, <1>10 DEF TypeOK, Stations
  <2>5. TypeOK'  BY <1>7, <2>3, <2>4 DEF TypeOK, CommT
  <2>6. StatisticsAgree'
    <3>1. comm'.errors = comm.errors /\ comm'.packets_received = comm.packets_received + 1
          /\ comm'.packets_sent = comm.packets_sent + 1
      BY <1>3, <2>3 DEF c
    <3>2. handler'["hub"].packets_received + comm'.errors = comm'.packets_received
      <4>1. handler'["hub"].packets_received = old.packets_received + 1  BY <2>1, <2>3
      <4>2. /\ old.packets_received \in Nat /\ comm.errors \in Nat
            /\ comm.packets_received = old.packets_received + comm.errors
        BY <1>1, <1>6
      <4> HIDE DEF old
      <4> QED  BY <3>1, <4>1, <4>2
    <3>3. handler'["hub"].crc_errors <= comm'.errors
      BY <1>6, <2>1, <2>3, <3>1
    <3>4. comm'.packets_sent = handler'["hub"].packets_sent
      BY <1>6, <2>1, <2>3, <3>1
    <3> HIDE DEF old
    <3> QED  BY <3>2, <3>3, <3>4 DEF StatisticsAgree
  <2>7. \E q : Sends("host", q) /\ q.command = answer
    BY <2>1, <2>3, <2>4, StationFacts DEF Sends
  <2>8. "parsed" \in Verdicts(block)  BY <1>8, <1>10
  <2>9. SendsNothing("hub")  BY <2>3, StationFacts DEF SendsNothing
  <2> QED
    BY <1>3, <1>7, <2>3, <2>4, <2>5, <2>6, <2>7, <2>8, <2>9, Zenon DEF Handles, p, to_hub, answer
<1>11. CASE /\ verdict = "parsed" /\ HubKeepsQuiet(h, to_hub, c)
            /\ got' = [got EXCEPT !["hub"] = Append(got["hub"], p)]
  <2>1. h \in HandlerT /\ h.packets_sent = old.packets_sent
        /\ h.packets_received = old.packets_received + 1 /\ h.crc_errors = old.crc_errors
    BY <1>4, <1>11
  <2> HIDE DEF h, p, c, to_hub
  <2>3. /\ handler' \in [Stations -> HandlerT] /\ handler'["host"] = handler["host"]
        /\ handler'["hub"] = h
        /\ line' \in [Stations -> Seq(ByteT)] /\ line'["hub"] = to_hub /\ line'["host"] = line["host"]
        /\ comm' = c /\ sent' = sent
    BY <1>2, <1>3, <1>11, <2>1, HubKeepsQuietEffect
  <2>4. got' \in [Stations -> Seq(PacketT)] /\ got'["hub"] = Append(got["hub"], p)
        /\ got'["host"] = got["host"]
    BY <1>9, <1>11 DEF TypeOK, Stations
  <2>5. TypeOK'  BY <1>3, <1>7, <2>3, <2>4 DEF TypeOK, CommT
  <2>6. StatisticsAgree'
    BY <1>1, <1>3, <1>6, <2>1, <2>3 DEF StatisticsAgree
  <2>7. Quiet("host")  BY <2>1, <2>3, <2>4, StationFacts DEF Quiet, SendsNothing
  <2>8. "parsed" \in Verdicts(block)  BY <1>8, <1>11
  <2>9. SendsNothing("hub")  BY <2>3, StationFacts DEF SendsNothing
  <2> QED
    BY <1>3, <1>7, <2>3, <2>4, <2>5, <2>6, <2>7, <2>8, <2>9, Zenon DEF Handles, p, to_hub
<1>12. CASE verdict # "parsed" /\ HubKeepsQuiet(h, to_hub, e) /\ UNCHANGED got
  <2>1. h \in HandlerT /\ h.packets_sent = old.packets_sent
        /\ h.packets_received = old.packets_received /\ h.crc_errors <= old.crc_errors + 1
    BY <1>5, <1>12
  <2> HIDE DEF h, p, e, to_hub
  <2>3. /\ handler' \in [Stations -> HandlerT] /\ handler'["host"] = handler["host"]
        /\ handler'["hub"] = h
        /\ line' \in [Stations -> Seq(ByteT)] /\ line'["hub"] = to_hub /\ line'["host"] = line["host"]
        /\ comm' = e /\ sent' = sent
    BY <1>2, <1>3, <1>12, <2>1, HubKeepsQuietEffect
  <2>5. TypeOK'  BY <1>3, <1>7, <1>12, <2>3 DEF TypeOK, CommT
  <2>6. StatisticsAgree'
    <3>1. h.crc_errors \in Nat /\ h.crc_errors <= comm.errors + 1
      <4>1. h.crc_errors \in Nat  BY <2>1, HandlerFields
      <4>2. old.crc_errors \in Nat /\ old.crc_errors <= comm.errors /\ comm.errors \in Nat
        BY <1>1, <1>6
      <4>3. h.crc_errors <= old.crc_errors + 1  BY <2>1
      <4> HIDE DEF old
      <4> QED  BY <4>1, <4>2, <4>3
    <3>2. comm'.errors = comm.errors + 1 /\ comm'.packets_received = comm.packets_received + 1
          /\ comm'.packets_sent = comm.packets_sent
      BY <1>3, <2>3
    <3>3. h.packets_received + (comm.errors + 1) = comm.packets_received + 1
      BY <1>1, <1>6, <2>1
    <3>4. h.packets_sent = comm.packets_sent  BY <1>6, <2>1
    <3> HIDE DEF old, c, e
    <3> QED  BY <2>3, <3>1, <3>2, <3>3, <3>4 DEF StatisticsAgree
  <2>7. Quiet("host")  BY <1>12, <2>1, <2>3, StationFacts DEF Quiet, SendsNothing
  <2>8. Verdicts(block) # {"parsed"}  BY <1>8, <1>12
  <2>9. SendsNothing("hub")  BY <2>3, StationFacts DEF SendsNothing
  <2> QED
    BY <1>3, <1>7, <1>12, <2>3, <2>5, <2>6, <2>7, <2>8, <2>9, Zenon DEF Handles, to_hub
<1> QED  BY <1>2, <1>8, <1>10, <1>11, <1>12, Zenon

\* A made-up test message counts as an error.
LEMMA TestMessageEffect ==
    ASSUME TypeOK, StatisticsAgree, HubReceivesTestMessage
    PROVE  TypeOK' /\ StatisticsAgree' /\ Quiet("hub") /\ Quiet("host")
           /\ comm'.errors = comm.errors + 1 /\ faults' = faults
<1> DEFINE ps == comm.packets_sent
           pr == comm.packets_received
           er == comm.errors
           more == pr + 1
           worse == er + 1
           c == [comm EXCEPT !.packets_received = more, !.errors = worse]
<1>1. comm = [packets_sent |-> ps, packets_received |-> pr, errors |-> er]
      /\ ps \in Nat /\ pr \in Nat /\ er \in Nat /\ more \in Nat /\ worse \in Nat
  BY CommFields DEF TypeOK, CommT
<1>2. c \in CommT /\ c.packets_sent = ps /\ c.packets_received = more /\ c.errors = worse
  <2>1. c = [comm EXCEPT !.packets_received = more, !.errors = worse]  OBVIOUS
  <2> HIDE DEF c, ps, pr, er, more, worse
  <2>2. c = [packets_sent |-> ps, packets_received |-> more, errors |-> worse]  BY <1>1, <2>1
  <2> QED  BY <1>1, <2>2 DEF CommT
<1>3. HubKeepsQuiet(handler["hub"], line["hub"], c) /\ UNCHANGED <<data_ready, faults, got>>
  BY Zenon DEF HubReceivesTestMessage
<1> HIDE DEF c
<1>4. handler["hub"] \in HandlerT /\ line["hub"] \in Seq(ByteT)  BY StationFacts, StateTypes
<1>5. /\ handler' \in [Stations -> HandlerT]
      /\ handler'["hub"] = handler["hub"] /\ handler'["host"] = handler["host"]
      /\ line' \in [Stations -> Seq(ByteT)]
      /\ line'["hub"] = line["hub"] /\ line'["host"] = line["host"]
      /\ comm' = c /\ sent' = sent
  BY <1>2, <1>3, <1>4, HubKeepsQuietEffect
<1>6. TypeOK'  BY <1>2, <1>3, <1>5 DEF TypeOK, CommT
<1>7. StatisticsAgree'
  <2>1. handler["hub"].packets_received \in Nat /\ handler["hub"].crc_errors \in Nat
    BY <1>4, HandlerFields
  <2>2. /\ comm'.packets_sent = ps /\ comm'.packets_received = pr + 1 /\ comm'.errors = er + 1
    BY <1>2, <1>5
  <2>3. /\ pr = handler["hub"].packets_received + er /\ handler["hub"].crc_errors <= er
        /\ ps = handler["hub"].packets_sent
    BY DEF StatisticsAgree
  <2> HIDE DEF ps, pr, er
  <2>4. /\ comm'.packets_received = handler["hub"].packets_received + comm'.errors
        /\ handler["hub"].crc_errors <= comm'.errors
    BY <1>1, <2>1, <2>2, <2>3
  <2> QED  BY <1>5, <2>2, <2>3, <2>4 DEF StatisticsAgree
<1>8. Quiet("hub") /\ Quiet("host")  BY <1>3, <1>5, StationFacts DEF Quiet, SendsNothing
<1> QED  BY <1>2, <1>3, <1>5, <1>6, <1>7, <1>8

\* A heartbeat.
LEMMA HeartbeatEffect ==
    ASSUME TypeOK, StatisticsAgree, HubHeartbeat
    PROVE  TypeOK' /\ StatisticsAgree' /\ Quiet("hub")
           /\ comm'.errors = comm.errors /\ faults' = faults
           /\ \E p : Sends("host", p) /\ p.command = "PING"
<1>1. /\ handler["hub"] \in HandlerT /\ line["hub"] \in Seq(ByteT) /\ comm \in CommT
      /\ HubSends(handler["hub"], "PING", line["hub"], comm)
      /\ UNCHANGED <<data_ready, faults, got>>
  BY StationFacts, StateTypes DEF HubHeartbeat, TypeOK, CommT
<1>2. "PING" \in Commands /\ DataLength["PING"] \in Nat
  BY ProtocolAssumption DEF Commands, DataLength
<1>3. /\ handler' \in [Stations -> HandlerT] /\ handler'["host"] = handler["host"]
      /\ handler'["hub"].packets_received = handler["hub"].packets_received
      /\ handler'["hub"].crc_errors = handler["hub"].crc_errors
      /\ handler'["hub"].packets_sent = handler["hub"].packets_sent + 1
      /\ line' \in [Stations -> Seq(ByteT)] /\ line'["hub"] = line["hub"]
      /\ comm' \in CommT /\ comm'.packets_sent = comm.packets_sent + 1
      /\ comm'.packets_received = comm.packets_received /\ comm'.errors = comm.errors
      /\ sent' \in [Stations -> Seq(PacketT)] /\ sent'["host"] = sent["host"]
      /\ \E p \in PacketT :
           /\ p.number = handler["hub"].packets_sent + 1 /\ p.command = "PING"
           /\ line'["host"] = line["host"] \o Bytes(p)
           /\ sent'["hub"] = Append(sent["hub"], p)
  <2> DEFINE h == handler["hub"]
             l == line["hub"]
             ping == "PING"
  <2>1. h \in HandlerT /\ h.packets_sent = handler["hub"].packets_sent /\ l \in Seq(ByteT)
        /\ ping \in Commands /\ DataLength[ping] \in Nat /\ HubSends(h, ping, l, comm)
    BY <1>1, <1>2
  <2> HIDE DEF h, l, ping
  <2>2. /\ handler' \in [Stations -> HandlerT] /\ handler'["host"] = handler["host"]
        /\ handler'["hub"].packets_received = h.packets_received
        /\ handler'["hub"].crc_errors = h.crc_errors
        /\ handler'["hub"].packets_sent = h.packets_sent + 1
        /\ line' \in [Stations -> Seq(ByteT)] /\ line'["hub"] = l
        /\ comm' \in CommT /\ comm'.packets_sent = comm.packets_sent + 1
        /\ comm'.packets_received = comm.packets_received /\ comm'.errors = comm.errors
        /\ sent' \in [Stations -> Seq(PacketT)] /\ sent'["host"] = sent["host"]
        /\ \E p \in PacketT :
             /\ p.number = handler["hub"].packets_sent + 1 /\ p.command = ping
             /\ line'["host"] = line["host"] \o Bytes(p)
             /\ sent'["hub"] = Append(sent["hub"], p)
    BY <1>1, <2>1, HubSendsEffect, Zenon
  <2> QED  BY <2>2, Zenon DEF h, l, ping
<1>4. TypeOK'  BY <1>1, <1>3 DEF TypeOK, CommT
<1>5. StatisticsAgree'  BY <1>3 DEF StatisticsAgree
<1>6. Quiet("hub")  BY <1>1, <1>3, StationFacts DEF Quiet, SendsNothing
<1>7. \E p : Sends("host", p) /\ p.command = "PING"
  BY <1>1, <1>3, StationFacts DEF Sends
<1> QED  BY <1>1, <1>3, <1>4, <1>5, <1>6, <1>7

\* The host sends a packet.
LEMMA HostSendsEffect ==
    ASSUME TypeOK, StatisticsAgree, HostSends
    PROVE  TypeOK' /\ StatisticsAgree' /\ Quiet("host")
           /\ comm' = comm /\ faults' = faults
           /\ \E p : Sends("hub", p)
<1>1. PICK command \in Requests, length \in RequestLengths :
         /\ handler' = [handler EXCEPT !["host"] = AfterCreate(handler["host"], length)]
         /\ line' = [line EXCEPT !["hub"] = line["hub"] \o Bytes(Packet(handler["host"], command, length))]
         /\ sent' = [sent EXCEPT !["host"] =
                       Append(sent["host"], Packet(handler["host"], command, length))]
  BY DEF HostSends
<1>2. UNCHANGED <<comm, data_ready, faults, got>>  BY DEF HostSends
<1> DEFINE h == handler["host"]
           p == Packet(h, command, length)
           a == AfterCreate(h, length)
           l == line["hub"] \o Bytes(p)
           t == Append(sent["host"], p)
<1>3. h \in HandlerT /\ command \in Commands /\ length \in Nat
  BY ProtocolAssumption, StationFacts, StateTypes
<1>4. p \in PacketT /\ p.number = h.packets_sent + 1
  BY <1>3, PacketType
<1>5. a \in HandlerT /\ a.packets_sent = h.packets_sent + 1
  BY <1>3, CreateType
<1>6. l \in Seq(ByteT) /\ t \in Seq(PacketT)
  BY <1>4, BytesType, StateTypes, StationFacts, ConcatProperties, AppendProperties
<1>7. /\ handler' = [handler EXCEPT !["host"] = a] /\ line' = [line EXCEPT !["hub"] = l]
      /\ sent' = [sent EXCEPT !["host"] = t]
  BY <1>1
<1> HIDE DEF p, a, l, t
<1>8. /\ handler' \in [Stations -> HandlerT] /\ handler'["host"] = a /\ handler'["hub"] = handler["hub"]
      /\ line' \in [Stations -> Seq(ByteT)] /\ line'["hub"] = l /\ line'["host"] = line["host"]
      /\ sent' \in [Stations -> Seq(PacketT)] /\ sent'["host"] = t /\ sent'["hub"] = sent["hub"]
  BY <1>5, <1>6, <1>7 DEF TypeOK, Stations
<1>9. TypeOK'  BY <1>2, <1>8 DEF TypeOK
<1>10. StatisticsAgree'  BY <1>2, <1>8 DEF StatisticsAgree
<1>11. Quiet("host")  BY <1>2, <1>8, StationFacts DEF Quiet, SendsNothing
<1>12. Sends("hub", p)  BY <1>2, <1>4, <1>5, <1>8, StationFacts DEF Sends, l, t
<1> QED  BY <1>2, <1>9, <1>10, <1>11, <1>12

\* The host receives a block.
LEMMA HostReceivesEffect ==
    ASSUME TypeOK, StatisticsAgree, HostReceives
    PROVE  TypeOK' /\ StatisticsAgree' /\ Quiet("hub")
           /\ comm' = comm /\ faults' = faults
           /\ \E n : Receives("host", n)
<1>1. PICK n \in Arrived("host") :
         /\ \E verdict \in Verdicts(Taken("host", n)) :
               /\ handler' = [handler EXCEPT !["host"] = AfterParse(handler["host"], verdict, n)]
               /\ got' = IF verdict = "parsed"
                         THEN [got EXCEPT !["host"] = Append(got["host"], Parsed(Taken("host", n)))]
                         ELSE got
         /\ line' = [line EXCEPT !["host"] = Left("host", n)]
  BY DEF HostReceives
<1>2. UNCHANGED <<comm, data_ready, faults, sent>>  BY DEF HostReceives
<1>3. n \in 1 .. Len(line["host"]) /\ n \in Nat
  BY ProtocolAssumption, StationFacts, StateTypes DEF Arrived
<1> DEFINE block == Taken("host", n)
           l == Left("host", n)
           h == handler["host"]
           p == Parsed(block)
<1>4. block \in Seq(ByteT) /\ l \in Seq(ByteT) /\ h \in HandlerT
  BY <1>3, StationFacts, StateTypes, BlockType
<1>5. PICK verdict \in Verdicts(block) :
         /\ handler' = [handler EXCEPT !["host"] = AfterParse(h, verdict, n)]
         /\ got' = IF verdict = "parsed" THEN [got EXCEPT !["host"] = Append(got["host"], p)] ELSE got
  BY <1>1
<1> DEFINE a == AfterParse(h, verdict, n)
<1>6. a \in HandlerT /\ a.packets_sent = h.packets_sent  BY <1>3, <1>4, ParseType
<1>7. verdict = "parsed" => p \in PacketT /\ Append(got["host"], p) \in Seq(PacketT)
  BY <1>4, ParsedType, StationFacts, StateTypes, AppendProperties
<1>8. handler' = [handler EXCEPT !["host"] = a] /\ line' = [line EXCEPT !["host"] = l]
  BY <1>1, <1>5
<1> HIDE DEF p, a, l
<1>9. /\ handler' \in [Stations -> HandlerT] /\ handler'["hub"] = handler["hub"]
      /\ handler'["host"].packets_sent = h.packets_sent
      /\ line' \in [Stations -> Seq(ByteT)] /\ line'["host"] = l /\ line'["hub"] = line["hub"]
  BY <1>4, <1>6, <1>8 DEF TypeOK, Stations
<1>10. /\ got' \in [Stations -> Seq(PacketT)] /\ got'["hub"] = got["hub"]
       /\ got'["host"] = IF verdict = "parsed" THEN Append(got["host"], p) ELSE got["host"]
  <2>1. CASE verdict = "parsed"  BY <1>5, <1>7, <2>1 DEF TypeOK, Stations
  <2>2. CASE verdict # "parsed"  BY <1>5, <2>2 DEF TypeOK, Stations
  <2> QED  BY <2>1, <2>2
<1>11. TypeOK'  BY <1>2, <1>9, <1>10 DEF TypeOK
<1>12. StatisticsAgree'  BY <1>2, <1>9 DEF StatisticsAgree
<1>13. Quiet("hub")  BY <1>2, <1>9, <1>10, StationFacts DEF Quiet, SendsNothing
<1>14. Receives("host", n)
  <2>1. verdict = "parsed" => "parsed" \in Verdicts(block)  BY <1>5
  <2>2. verdict # "parsed" => Verdicts(block) # {"parsed"}  BY <1>5
  <2>3. SendsNothing("host")  BY <1>2, <1>9, StationFacts DEF SendsNothing
  <2> QED  BY <1>3, <1>9, <1>10, <2>1, <2>2, <2>3 DEF Receives, l, p
<1> QED  BY <1>2, <1>11, <1>12, <1>13, <1>14

\* The line of a station s suffers a fault; the other one does not.
LEMMA LineFaultEffect ==
    ASSUME TypeOK, StatisticsAgree, LineFault
    PROVE  TypeOK' /\ StatisticsAgree' /\ comm' = comm /\ faults' = faults + 1
           /\ \E s \in Stations : Suffers(s) /\ Quiet(Peer(s))
<1>1. faults < MaxFaults /\ faults' = faults + 1
      /\ UNCHANGED <<handler, comm, data_ready, sent, got>>
  BY DEF LineFault
<1>0. PICK s \in Stations : \E k \in DOMAIN line[s] :
         \/ line' = [line EXCEPT ![s] = Damaged(s, k)]
         \/ line' = [line EXCEPT ![s] = WithoutByte(s, k)]
  BY DEF LineFault
<1>2. PICK k \in DOMAIN line[s] :
         \/ line' = [line EXCEPT ![s] = Damaged(s, k)]
         \/ line' = [line EXCEPT ![s] = WithoutByte(s, k)]
  BY <1>0
<1>3. line[s] \in Seq(ByteT) /\ k \in 1 .. Len(line[s])
  BY StateTypes, LenProperties
<1>4. Damaged(s, k) \in Seq(ByteT)
  <2> DEFINE b == line[s][k]
             d == [b EXCEPT !.damaged = TRUE]
  <2>1. b \in ByteT  BY <1>3, ElementOfSeq
  <2>2. d \in ByteT  BY <2>1 DEF ByteT
  <2>3. Damaged(s, k) = [line[s] EXCEPT ![k] = d]  BY Zenon DEF Damaged
  <2> HIDE DEF d
  <2> QED  BY <1>3, <2>2, <2>3, ExceptSeq
<1>5. WithoutByte(s, k) \in Seq(ByteT)
  <2>1. WithoutByte(s, k) = Removed(line[s], k)  BY Zenon DEF WithoutByte, Removed
  <2> QED  BY <1>3, <2>1, Without
<1>6. PICK l \in Seq(ByteT) : line' = [line EXCEPT ![s] = l]
                              /\ (l = Damaged(s, k) \/ l = WithoutByte(s, k))
  BY <1>2, <1>4, <1>5
<1>7. line' \in [Stations -> Seq(ByteT)] /\ line'[s] = l /\ line'[Peer(s)] = line[Peer(s)]
  BY <1>6, StationFacts DEF TypeOK
<1>8. faults' \in 0 .. MaxFaults
  BY <1>1, ProtocolAssumption DEF TypeOK
<1>9. TypeOK'  BY <1>1, <1>7, <1>8 DEF TypeOK
<1>10. StatisticsAgree'  BY <1>1 DEF StatisticsAgree
<1>11. Suffers(s) /\ Quiet(Peer(s))
  BY <1>1, <1>3, <1>6, <1>7 DEF Suffers, Quiet, SendsNothing
<1> QED  BY <1>1, <1>9, <1>10, <1>11

\* Every step is one of these.
StepKind ==
    \/ /\ faults' = faults
       /\ \/ \E n : Handles(n)
          \/ Quiet("hub") /\ Quiet("host") /\ comm'.errors \in {comm.errors, comm.errors + 1}
          \/ /\ Quiet("hub") /\ comm'.errors = comm.errors
             /\ \E p : Sends("host", p) /\ p.command = "PING"
          \/ Quiet("host") /\ comm'.errors = comm.errors /\ \E p : Sends("hub", p)
          \/ Quiet("hub") /\ comm'.errors = comm.errors /\ \E n : Receives("host", n)
    \/ /\ faults' = faults + 1 /\ comm'.errors = comm.errors
       /\ \E s \in Stations : Suffers(s) /\ Quiet(Peer(s))

LEMMA StepKinds ==
    ASSUME TypeOK, StatisticsAgree, [Next]_vars
    PROVE  TypeOK' /\ StatisticsAgree' /\ StepKind
<1>1. CASE HubReceives
  <2>1. PICK n \in Arrived("hub") : HubHandles(Taken("hub", n), Left("hub", n))
    BY <1>1 DEF HubReceives
  <2>2. n \in 1 .. Len(line["hub"])
    BY ProtocolAssumption, StationFacts, StateTypes DEF Arrived
  <2> QED  BY <2>1, <2>2, HubHandlesEffect, Zenon DEF StepKind
<1>2. CASE HubReceivesTestMessage  BY <1>2, TestMessageEffect DEF StepKind
<1>3. CASE HubHeartbeat  BY <1>3, HeartbeatEffect, Zenon DEF StepKind
<1>4. CASE SensorReady
  <2>1. UNCHANGED <<handler, comm, line, faults, sent, got>> /\ data_ready' \in BOOLEAN
    BY <1>4 DEF SensorReady
  <2> QED  BY <2>1 DEF StepKind, Quiet, SendsNothing, TypeOK, StatisticsAgree
<1>5. CASE HostSends  BY <1>5, HostSendsEffect, Zenon DEF StepKind
<1>6. CASE HostReceives  BY <1>6, HostReceivesEffect, Zenon DEF StepKind
<1>7. CASE LineFault  BY <1>7, LineFaultEffect, Zenon DEF StepKind
<1>8. CASE UNCHANGED vars
  BY <1>8 DEF vars, StepKind, Quiet, SendsNothing, TypeOK, StatisticsAgree
<1> QED  BY <1>1, <1>2, <1>3, <1>4, <1>5, <1>6, <1>7, <1>8 DEF Next

\* The first state.
LEMMA InitTypes == Init => TypeOK /\ StatisticsAgree
<1> SUFFICES ASSUME Init PROVE TypeOK /\ StatisticsAgree  OBVIOUS
<1>1. NewHandler \in HandlerT /\ NewHandler.packets_sent = 0 /\ NewHandler.packets_received = 0
      /\ NewHandler.crc_errors = 0
  BY ProtocolAssumption DEF NewHandler, HandlerT
<1>2. \A S : <<>> \in Seq(S)  BY EmptySeq
<1>3. 0 \in 0 .. MaxFaults  BY ProtocolAssumption
<1>4. TypeOK  BY <1>1, <1>2, <1>3 DEF Init, TypeOK
<1>5. StatisticsAgree  BY <1>1 DEF Init, StatisticsAgree, Stations
<1> QED  BY <1>4, <1>5

\* Every packet, byte and station has its type: nothing is parsed that is not a packet of a
\* known command, and the sequence number stays a uint16_t.  Of the statistics it says only
\* that they are counts.
THEOREM TypeCorrect == Spec => []TypeOK
<1>1. TypeOK /\ StatisticsAgree /\ [Next]_vars => TypeOK' /\ StatisticsAgree'
  BY StepKinds
<1> QED  BY InitTypes, <1>1, PTL DEF Spec

\* What comm_task() counts and what the protocol counts agree, after any series of blocks
\* and faults: every received block is a packet or an error, and every CRC error an error.
THEOREM StatisticsAlwaysAgree == Spec => []StatisticsAgree
<1>1. TypeOK /\ StatisticsAgree /\ [Next]_vars => TypeOK' /\ StatisticsAgree'
  BY StepKinds
<1> QED  BY InitTypes, <1>1, PTL DEF Spec

-----------------------------------------------------------------------------
(* A packet that arrives whole and alone.                                  *)

\* What the hub handles it receives.
LEMMA HandlesReceives ==
    ASSUME NEW n, Handles(n)
    PROVE  Receives("hub", n)
BY StationFacts, Zenon DEF Handles, Receives

\* What every step does in one direction of the line.
LEMMA DirectionKinds ==
    ASSUME StepKind, NEW s \in Stations
    PROVE  \/ Quiet(s)
           \/ \E p : Sends(s, p)
           \/ \E n : Receives(s, n)
           \/ Suffers(s)
<1>0. s = "hub" \/ s = "host"  BY StationFacts
<1>1. ASSUME NEW n, Handles(n)
      PROVE  \/ Quiet(s) \/ (\E p : Sends(s, p)) \/ (\E m : Receives(s, m))
  <2>1. Receives("hub", n)  BY <1>1, HandlesReceives
  <2>2. Quiet("host") \/ \E p : Sends("host", p)  BY <1>1, Zenon DEF Handles
  <2> QED  BY <1>0, <2>1, <2>2, Zenon
<1>2. ASSUME NEW t \in Stations, Suffers(t), Quiet(Peer(t))
      PROVE  Suffers(s) \/ Quiet(s)
  <2>1. t = s \/ Peer(t) = s  BY <1>0, StationFacts
  <2> QED  BY <1>2, <2>1, Zenon
<1> QED  BY <1>0, <1>1, <1>2, Zenon DEF StepKind

\* A fault takes one byte from the line, or none.
LEMMA SuffersLength ==
    ASSUME TypeOK, NEW s \in Stations, Suffers(s)
    PROVE  Len(line'[s]) \in {Len(line[s]) - 1, Len(line[s])}
<1>1. PICK k \in 1 .. Len(line[s]) : line'[s] = Damaged(s, k) \/ line'[s] = WithoutByte(s, k)
  BY DEF Suffers
<1>2. line[s] \in Seq(ByteT)  BY StateTypes
<1>3. CASE line'[s] = Damaged(s, k)
  <2> DEFINE b == line[s][k]
             d == [b EXCEPT !.damaged = TRUE]
  <2>1. b \in ByteT  BY <1>2, ElementOfSeq
  <2>2. d \in ByteT  BY <2>1 DEF ByteT
  <2>3. Damaged(s, k) = [line[s] EXCEPT ![k] = d]  BY Zenon DEF Damaged
  <2> HIDE DEF d
  <2> QED  BY <1>2, <1>3, <2>2, <2>3, ExceptSeq
<1>4. CASE line'[s] = WithoutByte(s, k)
  <2>1. WithoutByte(s, k) = Removed(line[s], k)  BY Zenon DEF WithoutByte, Removed
  <2> QED  BY <1>2, <1>4, <2>1, Without
<1> QED  BY <1>1, <1>3, <1>4

\* A step that takes exactly the bytes of a packet with data parses that packet.
LEMMA StepWholePacket ==
    ASSUME TypeOK, StatisticsAgree, [Next]_vars,
           NEW s \in Stations, NEW p \in PacketT, p.length > 0,
           line[s] = Bytes(p) \o line'[s]
    PROVE  got'[s] = Append(got[s], p)
<1>1. TypeOK' /\ StepKind  BY StepKinds
<1>2. line[s] \in Seq(ByteT) /\ line'[s] \in Seq(ByteT) /\ Len(line[s]) \in Nat /\ Len(line'[s]) \in Nat
  <2>1. line'[s] \in Seq(ByteT)  BY <1>1 DEF TypeOK
  <2>2. Len(line'[s]) \in Nat  BY <2>1, LenProperties
  <2> QED  BY <2>1, <2>2, StateTypes
<1>3. /\ Size(p) \in Nat /\ Size(p) > 4 /\ Bytes(p) \in Seq(ByteT) /\ Len(Bytes(p)) = Size(p)
  BY BytesType
<1>4. /\ Len(line[s]) = Size(p) + Len(line'[s])
      /\ \A i \in 1 .. Size(p) : line[s][i] = Bytes(p)[i]
  <2> DEFINE l == line[s]
             m == line'[s]
             b == Bytes(p)
  <2>1. /\ Len(b \o m) = Len(b) + Len(m)
        /\ \A i \in 1 .. Len(b) + Len(m) : (b \o m)[i] = IF i <= Len(b) THEN b[i] ELSE m[i - Len(b)]
    BY <1>2, <1>3, ConcatProperties
  <2>2. l = b \o m /\ Len(b) \in Nat /\ Len(m) \in Nat /\ Len(b) = Size(p)  BY <1>2, <1>3
  <2> HIDE DEF l, m, b
  <2>3. Len(l) = Len(b) + Len(m) /\ \A i \in 1 .. Len(b) : l[i] = b[i]
    BY <2>1, <2>2
  <2> QED  BY <2>2, <2>3 DEF l, m, b
<1>5. Len(line'[s]) <= Len(line[s]) - 5  BY <1>2, <1>3, <1>4
<1>6. ~Quiet(s)  BY <1>2, <1>5 DEF Quiet
<1>7. ~\E q : Sends(s, q)
  <2> SUFFICES ASSUME NEW q, Sends(s, q) PROVE FALSE  OBVIOUS
  <2>1. q \in PacketT /\ line'[s] = line[s] \o Bytes(q)  BY DEF Sends
  <2>2. Bytes(q) \in Seq(ByteT) /\ Len(Bytes(q)) \in Nat  BY <2>1, BytesType
  <2>3. Len(line[s] \o Bytes(q)) = Len(line[s]) + Len(Bytes(q))  BY <1>2, <2>2, ConcatProperties
  <2> QED  BY <1>2, <1>5, <2>1, <2>2, <2>3
<1>8. ~Suffers(s)  BY <1>2, <1>5, SuffersLength
<1>9. PICK n : Receives(s, n)  BY <1>1, <1>6, <1>7, <1>8, DirectionKinds
<1> DEFINE block == Taken(s, n)
<1>10. n \in 1 .. Len(line[s]) /\ line'[s] = Left(s, n)  BY <1>9 DEF Receives
<1>11. /\ block \in Seq(ByteT) /\ Len(block) = n /\ \A i \in 1 .. n : block[i] = line[s][i]
       /\ Len(line'[s]) = Len(line[s]) - n
  BY <1>10, BlockType
<1>12. n = Size(p)  BY <1>2, <1>3, <1>4, <1>10, <1>11, SMTT(30)
<1>13. block = Bytes(p)
  <2>1. \A i \in 1 .. Len(block) : block[i] = Bytes(p)[i]  BY <1>4, <1>11, <1>12
  <2> QED  BY <1>3, <1>11, <1>12, <2>1, SeqEqual
<1>14. Verdicts(block) = {"parsed"} /\ Parsed(block) = p  BY <1>11, <1>13, WholeBlock
<1> QED  BY <1>9, <1>14 DEF Receives

\* A packet with data that arrives whole, undamaged and alone is parsed, whatever arrived,
\* was lost or was damaged before it.
THEOREM WholePacketsAreParsed == Spec => WholePacketIsParsed
<1> DEFINE Step == \A s \in Stations : \A k \in DOMAIN sent[Peer(s)] :
          LET p == sent[Peer(s)][k] IN
          p.length > 0 /\ line[s] = Bytes(p) \o line'[s] => got'[s] = Append(got[s], p)
<1>1. TypeOK /\ StatisticsAgree /\ [Next]_vars => TypeOK' /\ StatisticsAgree'
  BY StepKinds
<1>2. TypeOK /\ StatisticsAgree /\ [Next]_vars => [Step]_vars
  <2> SUFFICES ASSUME TypeOK, StatisticsAgree, [Next]_vars, NEW s \in Stations,
                      NEW k \in DOMAIN sent[Peer(s)],
                      sent[Peer(s)][k].length > 0, line[s] = Bytes(sent[Peer(s)][k]) \o line'[s]
               PROVE  got'[s] = Append(got[s], sent[Peer(s)][k])
    BY Zenon
  <2> DEFINE p == sent[Peer(s)][k]
  <2>1. p \in PacketT
    <3>1. sent[Peer(s)] \in Seq(PacketT)  BY StationFacts, StateTypes
    <3>2. k \in 1 .. Len(sent[Peer(s)])  BY <3>1, LenProperties
    <3> QED  BY <3>1, <3>2, ElementOfSeq
  <2>2. p.length > 0 /\ line[s] = Bytes(p) \o line'[s]  OBVIOUS
  <2> HIDE DEF p
  <2>3. got'[s] = Append(got[s], p)  BY <2>1, <2>2, StepWholePacket
  <2> QED  BY <2>3 DEF p
<1> QED  BY InitTypes, <1>1, <1>2, PTL DEF Spec, WholePacketIsParsed

-----------------------------------------------------------------------------
(* Each direction of the line is a channel.                                *)

\* Byte b is behind the packet of number n: it belongs to a later packet, or to that one
\* but is not its first byte.
Behind(b, n) == n <= b.packet.number /\ (b.index = 1 => n < b.packet.number)

\* The bytes on a line are those of packets that were sent, in order, and behind every
\* packet that was parsed; the packets parsed are packets sent, in order.
Channel(bytes, out, in) ==
    /\ \A k \in 1 .. Len(out) : out[k].number = k
    /\ \A i \in 1 .. Len(bytes) :
          bytes[i].packet.number \in 1 .. Len(out) /\ out[bytes[i].packet.number] = bytes[i].packet
    /\ \A i, j \in 1 .. Len(bytes) : i < j => Behind(bytes[j], bytes[i].packet.number)
    /\ \A i \in 1 .. Len(in) : in[i].number \in 1 .. Len(out) /\ out[in[i].number] = in[i]
    /\ \A i, j \in 1 .. Len(in) : i < j => in[i].number < in[j].number
    /\ \A i \in 1 .. Len(in), j \in 1 .. Len(bytes) : Behind(bytes[j], in[i].number)

ChannelInv ==
    \A s \in Stations :
        /\ handler[Peer(s)].packets_sent = Len(sent[Peer(s)])
        /\ Channel(line[s], sent[Peer(s)], got[s])

\* The bytes that are left when some are taken, lost or damaged form a channel still.
LEMMA ChannelThins ==
    ASSUME NEW bytes \in Seq(ByteT), NEW rest \in Seq(ByteT),
           NEW out \in Seq(PacketT), NEW in \in Seq(PacketT),
           Channel(bytes, out, in),
           NEW from \in [1 .. Len(rest) -> 1 .. Len(bytes)],
           \A i \in 1 .. Len(rest) :
               rest[i].packet = bytes[from[i]].packet /\ rest[i].index = bytes[from[i]].index,
           \A i, j \in 1 .. Len(rest) : i < j => from[i] < from[j]
    PROVE  Channel(rest, out, in)
<1>1. ASSUME NEW i \in 1 .. Len(rest)
      PROVE  /\ rest[i].packet.number \in 1 .. Len(out)
             /\ out[rest[i].packet.number] = rest[i].packet
  <2> DEFINE k == from[i]
  <2>1. k \in 1 .. Len(bytes) /\ rest[i].packet = bytes[k].packet  OBVIOUS
  <2>2. bytes[k].packet.number \in 1 .. Len(out)
        /\ out[bytes[k].packet.number] = bytes[k].packet
    <3> HIDE DEF k
    <3> QED  BY <2>1, Zenon DEF Channel
  <2> QED  BY <2>1, <2>2, Zenon
<1>2. ASSUME NEW i \in 1 .. Len(rest), NEW j \in 1 .. Len(rest), i < j
      PROVE  Behind(rest[j], rest[i].packet.number)
  <2>1. /\ from[i] \in 1 .. Len(bytes) /\ from[j] \in 1 .. Len(bytes) /\ from[i] < from[j]
        /\ rest[i].packet = bytes[from[i]].packet /\ rest[j].packet = bytes[from[j]].packet
        /\ rest[j].index = bytes[from[j]].index
    BY <1>2
  <2>2. Behind(bytes[from[j]], bytes[from[i]].packet.number)  BY <2>1 DEF Channel
  <2> QED  BY <2>1, <2>2 DEF Behind
<1>3. ASSUME NEW i \in 1 .. Len(in), NEW j \in 1 .. Len(rest)
      PROVE  Behind(rest[j], in[i].number)
  <2>1. /\ from[j] \in 1 .. Len(bytes) /\ rest[j].packet = bytes[from[j]].packet
        /\ rest[j].index = bytes[from[j]].index
    OBVIOUS
  <2>2. Behind(bytes[from[j]], in[i].number)  BY <2>1 DEF Channel
  <2> QED  BY <2>1, <2>2 DEF Behind
<1> QED  BY <1>1, <1>2, <1>3, Zenon DEF Channel

\* A packet that is sent goes behind everything.
LEMMA ChannelSends ==
    ASSUME NEW bytes \in Seq(ByteT), NEW out \in Seq(PacketT), NEW in \in Seq(PacketT),
           Channel(bytes, out, in),
           NEW p \in PacketT, p.number = Len(out) + 1
    PROVE  Channel(bytes \o Bytes(p), Append(out, p), in)
<1> DEFINE b == Bytes(p)
           long == bytes \o b
           more == Append(out, p)
           n == Len(bytes)
           m == Len(out)
           k == Size(p)
<1>1. n \in Nat /\ m \in Nat /\ Len(in) \in Nat /\ k \in Nat /\ p.number = m + 1
  BY LenProperties, BytesType
<1>2. /\ Len(long) = n + k
      /\ \A i \in 1 .. n : long[i] = bytes[i]
      /\ \A i \in n + 1 .. n + k : long[i] = b[i - n]
  <2>1. b \in Seq(ByteT) /\ Len(b) = k  BY BytesType
  <2>2. Len(long) = n + k
        /\ \A i \in 1 .. n + k : long[i] = IF i <= n THEN bytes[i] ELSE b[i - n]
    <3>1. b \in Seq(ByteT) /\ Len(b) = k /\ long = bytes \o b  BY <2>1
    <3> HIDE DEF b, long, k
    <3> QED  BY <3>1, ConcatProperties
  <2> HIDE DEF long, b, n, k
  <2> QED  BY <1>1, <2>2
<1>3. Len(more) = m + 1 /\ (\A i \in 1 .. m : more[i] = out[i]) /\ more[m + 1] = p
  BY AppendProperties
<1>4. \A i \in n + 1 .. n + k : long[i].packet = p /\ long[i].index = i - n
  <2> SUFFICES ASSUME NEW i \in n + 1 .. n + k PROVE long[i].packet = p /\ long[i].index = i - n
    OBVIOUS
  <2>1. i - n \in 1 .. k  BY <1>1
  <2>2. b[i - n] = [packet |-> p, index |-> i - n, damaged |-> FALSE]  BY <2>1, BytesType
  <2> QED  BY <1>2, <2>2
<1>5. /\ \A i \in 1 .. m : out[i].number = i
      /\ \A i \in 1 .. n : bytes[i].packet.number \in 1 .. m
                           /\ out[bytes[i].packet.number] = bytes[i].packet
      /\ \A i, j \in 1 .. n : i < j => Behind(bytes[j], bytes[i].packet.number)
      /\ \A i \in 1 .. Len(in) : in[i].number \in 1 .. m /\ out[in[i].number] = in[i]
      /\ \A i, j \in 1 .. Len(in) : i < j => in[i].number < in[j].number
      /\ \A i \in 1 .. Len(in), j \in 1 .. n : Behind(bytes[j], in[i].number)
  BY DEF Channel
<1> HIDE DEF b, long, more, n, m, k
<1>6. \A i \in 1 .. n + k : i \in 1 .. n \/ i \in n + 1 .. n + k  BY <1>1
<1>7. \A i \in 1 .. m + 1 : more[i].number = i
  <2> SUFFICES ASSUME NEW i \in 1 .. m + 1 PROVE more[i].number = i  OBVIOUS
  <2>1. i \in 1 .. m \/ i = m + 1  BY <1>1
  <2> QED  BY <1>1, <1>3, <1>5, <2>1
<1>8. ASSUME NEW i \in 1 .. n + k
      PROVE  long[i].packet.number \in 1 .. m + 1 /\ more[long[i].packet.number] = long[i].packet
  <2>1. CASE i \in 1 .. n
    <3>1. /\ bytes[i].packet.number \in 1 .. m /\ bytes[i].packet.number \in 1 .. m + 1
          /\ out[bytes[i].packet.number] = bytes[i].packet /\ long[i] = bytes[i]
      BY <1>1, <1>2, <1>5, <2>1
    <3> QED  BY <1>3, <3>1
  <2>2. CASE i \in n + 1 .. n + k
    <3>1. long[i].packet = p /\ m + 1 \in 1 .. m + 1  BY <1>1, <1>4, <2>2
    <3> QED  BY <1>1, <1>3, <3>1
  <2> QED  BY <1>6, <2>1, <2>2
<1>9. ASSUME NEW i \in 1 .. n + k, NEW j \in 1 .. n + k, i < j
      PROVE  Behind(long[j], long[i].packet.number)
  <2>1. CASE j \in 1 .. n
    <3>1. i \in 1 .. n  BY <1>1, <1>9, <2>1
    <3> QED  BY <1>2, <1>5, <1>9, <2>1, <3>1
  <2>2. CASE j \in n + 1 .. n + k /\ i \in 1 .. n
    <3>1. long[j].packet = p /\ long[i] = bytes[i] /\ bytes[i].packet.number \in 1 .. m
      BY <1>2, <1>4, <1>5, <2>2
    <3> QED  BY <1>1, <3>1 DEF Behind
  <2>3. CASE j \in n + 1 .. n + k /\ i \in n + 1 .. n + k
    <3>1. long[j].packet = p /\ long[i].packet = p /\ long[j].index # 1
      BY <1>1, <1>4, <1>9, <2>3
    <3> QED  BY <1>1, <3>1 DEF Behind
  <2> QED  BY <1>6, <2>1, <2>2, <2>3
<1>10. \A i \in 1 .. Len(in) : in[i].number \in 1 .. m + 1 /\ more[in[i].number] = in[i]
  <2> SUFFICES ASSUME NEW i \in 1 .. Len(in)
               PROVE  in[i].number \in 1 .. m + 1 /\ more[in[i].number] = in[i]
    OBVIOUS
  <2>1. in[i].number \in 1 .. m /\ out[in[i].number] = in[i]  BY <1>5
  <2> QED  BY <1>1, <1>3, <2>1
<1>11. ASSUME NEW i \in 1 .. Len(in), NEW j \in 1 .. n + k
       PROVE  Behind(long[j], in[i].number)
  <2>1. CASE j \in 1 .. n  BY <1>2, <1>5, <2>1
  <2>2. CASE j \in n + 1 .. n + k
    <3>1. long[j].packet = p /\ in[i].number \in 1 .. m  BY <1>4, <1>5, <2>2
    <3> QED  BY <1>1, <3>1 DEF Behind
  <2> QED  BY <1>6, <2>1, <2>2
<1>12. Channel(long, more, in)
  BY <1>2, <1>3, <1>5, <1>7, <1>8, <1>9, <1>10, <1>11, Zenon DEF Channel
<1> QED  BY <1>12 DEF long, more, b

\* A block of n bytes is taken from the line, and the rest is left.
Splits(bytes, n, block, rest) ==
    /\ n \in 1 .. Len(bytes)
    /\ block \in Seq(ByteT) /\ Len(block) = n /\ \A i \in 1 .. n : block[i] = bytes[i]
    /\ rest \in Seq(ByteT) /\ Len(rest) = Len(bytes) - n
    /\ \A i \in 1 .. Len(bytes) - n : rest[i] = bytes[n + i]

\* A block that is parsed delivers a packet behind the last one delivered.
LEMMA ChannelDelivers ==
    ASSUME NEW bytes \in Seq(ByteT), NEW out \in Seq(PacketT), NEW in \in Seq(PacketT),
           Channel(bytes, out, in),
           NEW n, NEW block, NEW rest, Splits(bytes, n, block, rest),
           "parsed" \in Verdicts(block)
    PROVE  /\ Channel(rest, out, Append(in, Parsed(block)))
           /\ \E k \in 1 .. Len(out) :
                 /\ \A i \in 1 .. Len(in) : in[i].number < k
                 /\ Append(in, Parsed(block)) = Append(in, out[k])
<1> DEFINE p == Parsed(block)
           more == Append(in, p)
           z == Len(in)
           e == Len(bytes)
           r == Len(rest)
           o == Len(out)
<1>0. /\ n \in 1 .. e /\ block \in Seq(ByteT) /\ Len(block) = n
      /\ rest \in Seq(ByteT) /\ r = e - n
      /\ \A i \in 1 .. n : block[i] = bytes[i]
      /\ \A i \in 1 .. e - n : rest[i] = bytes[n + i]
  BY DEF Splits
<1>1. e \in Nat /\ r \in Nat /\ z \in Nat /\ o \in Nat /\ n \in 1 .. e /\ r = e - n
  BY <1>0, LenProperties
<1>2. 1 \in 1 .. n /\ 1 \in 1 .. e  BY <1>1
<1>3. p = bytes[1].packet /\ bytes[1].index = 1
  <2>1. block[1].index = 1 /\ p = block[1].packet  BY <1>0, ParsedBlock
  <2> QED  BY <1>0, <1>2, <2>1
<1>4. /\ \A i \in 1 .. o : out[i].number = i
      /\ \A i \in 1 .. e : bytes[i].packet.number \in 1 .. o
                           /\ out[bytes[i].packet.number] = bytes[i].packet
      /\ \A i, j \in 1 .. e : i < j => Behind(bytes[j], bytes[i].packet.number)
      /\ \A i \in 1 .. z : in[i].number \in 1 .. o /\ out[in[i].number] = in[i]
      /\ \A i, j \in 1 .. z : i < j => in[i].number < in[j].number
      /\ \A i \in 1 .. z, j \in 1 .. e : Behind(bytes[j], in[i].number)
  BY DEF Channel
<1>5. p \in PacketT  BY <1>0, ParsedType
<1>6. Len(more) = z + 1 /\ (\A i \in 1 .. z : more[i] = in[i]) /\ more[z + 1] = p
  BY <1>5, AppendProperties
<1>7. p.number \in 1 .. o /\ out[p.number] = p  BY <1>2, <1>3, <1>4
<1>8. \A i \in 1 .. z : in[i].number < p.number
  BY <1>2, <1>3, <1>4 DEF Behind
<1>9. \A i \in 1 .. r : rest[i] = bytes[n + i]  BY <1>0, <1>1
<1>10. \A i \in 1 .. r : n + i \in 1 .. e /\ 1 < n + i  BY <1>1
<1>11. \A i \in 1 .. z + 1 : i \in 1 .. z \/ i = z + 1  BY <1>1
<1> HIDE DEF p, more, z, e, r, o
<1>12. ASSUME NEW i \in 1 .. r
       PROVE  rest[i].packet.number \in 1 .. o /\ out[rest[i].packet.number] = rest[i].packet
  <2>1. rest[i] = bytes[n + i] /\ n + i \in 1 .. e  BY <1>9, <1>10
  <2>2. /\ bytes[n + i].packet.number \in 1 .. o
        /\ out[bytes[n + i].packet.number] = bytes[n + i].packet
    BY <1>4, <2>1, Zenon
  <2> QED  BY <2>1, <2>2, Zenon
<1>13. ASSUME NEW i \in 1 .. r, NEW j \in 1 .. r, i < j
       PROVE  Behind(rest[j], rest[i].packet.number)
  <2>1. n + i < n + j  BY <1>1, <1>13
  <2> QED  BY <1>4, <1>9, <1>10, <2>1
<1>14. ASSUME NEW i \in 1 .. z + 1
       PROVE  more[i].number \in 1 .. o /\ out[more[i].number] = more[i]
  BY <1>4, <1>6, <1>7, <1>11
<1>15. ASSUME NEW i \in 1 .. z + 1, NEW j \in 1 .. z + 1, i < j
       PROVE  more[i].number < more[j].number
  <2>1. i \in 1 .. z  BY <1>1, <1>15
  <2> QED  BY <1>4, <1>6, <1>8, <1>11, <1>15, <2>1
<1>16. ASSUME NEW i \in 1 .. z + 1, NEW j \in 1 .. r
       PROVE  Behind(rest[j], more[i].number)
  <2>1. rest[j] = bytes[n + j] /\ n + j \in 1 .. e /\ 1 < n + j  BY <1>9, <1>10
  <2>2. CASE i \in 1 .. z  BY <1>4, <1>6, <2>1, <2>2
  <2>3. CASE i = z + 1  BY <1>2, <1>3, <1>4, <1>6, <2>1, <2>3
  <2> QED  BY <1>11, <2>2, <2>3
<1>17. Channel(rest, out, more)
  <2>1. \A i \in 1 .. o : out[i].number = i  BY <1>4
  <2> QED  BY <1>6, <1>12, <1>13, <1>14, <1>15, <1>16, <2>1, Zenon DEF Channel, o, r
<1>18. \E k \in 1 .. o : (\A i \in 1 .. z : in[i].number < k) /\ more = Append(in, out[k])
  BY <1>7, <1>8 DEF more
<1> QED  BY <1>17, <1>18 DEF more, p, z, o

\* A fault thins the channel.
LEMMA SuffersThins ==
    ASSUME TypeOK, NEW s \in Stations, Suffers(s), line'[s] \in Seq(ByteT),
           NEW out \in Seq(PacketT), NEW in \in Seq(PacketT), Channel(line[s], out, in)
    PROVE  Channel(line'[s], out, in)
<1> DEFINE l == line[s]
           m == line'[s]
<1>1. PICK k \in 1 .. Len(l) : m = Damaged(s, k) \/ m = WithoutByte(s, k)
  BY DEF Suffers
<1>2. l \in Seq(ByteT) /\ Len(l) \in Nat /\ m \in Seq(ByteT)  BY StateTypes
<1>3. CASE m = Damaged(s, k)
  <2> DEFINE b == l[k]
             d == [b EXCEPT !.damaged = TRUE]
             from == [i \in 1 .. Len(m) |-> i]
  <2>1. b \in ByteT  BY <1>2, ElementOfSeq
  <2>2. d \in ByteT /\ d.packet = b.packet /\ d.index = b.index  BY <2>1 DEF ByteT
  <2>3. m = [l EXCEPT ![k] = d]  BY <1>3, Zenon DEF Damaged
  <2>4. Len(m) = Len(l) /\ \A j \in 1 .. Len(l) : m[j] = IF j = k THEN d ELSE l[j]
    <3> HIDE DEF l, m, d
    <3> QED  BY <1>2, <2>2, <2>3, ExceptSeq
  <2>5. \A i \in 1 .. Len(m) : m[i].packet = l[i].packet /\ m[i].index = l[i].index
    <3> HIDE DEF l, m, d
    <3> QED  BY <2>2, <2>4 DEF d
  <2>6. from \in [1 .. Len(m) -> 1 .. Len(l)]  BY <2>4
  <2>7. /\ \A i \in 1 .. Len(m) : m[i].packet = l[from[i]].packet /\ m[i].index = l[from[i]].index
        /\ \A i, j \in 1 .. Len(m) : i < j => from[i] < from[j]
    BY <2>5
  <2>8. Channel(l, out, in)  OBVIOUS
  <2> HIDE DEF l, m, from
  <2>9. Channel(m, out, in)  BY <1>2, <2>6, <2>7, <2>8, ChannelThins
  <2> QED  BY <2>9 DEF m
<1>4. CASE m = WithoutByte(s, k)
  <2> DEFINE from == [i \in 1 .. Len(m) |-> IF i < k THEN i ELSE i + 1]
  <2>1. m = Removed(l, k)  BY <1>4, Zenon DEF WithoutByte, Removed
  <2>2. Len(m) = Len(l) - 1
        /\ \A i \in 1 .. Len(l) - 1 : m[i] = IF i < k THEN l[i] ELSE l[i + 1]
    <3> HIDE DEF l, m
    <3> QED  BY <1>2, <2>1, Without
  <2>3. Channel(l, out, in)  OBVIOUS
  <2> HIDE DEF l, m
  <2>4. \A i \in 1 .. Len(m) : from[i] = IF i < k THEN i ELSE i + 1  OBVIOUS
  <2>5. from \in [1 .. Len(m) -> 1 .. Len(l)]  BY <1>2, <2>2
  <2> HIDE DEF from
  <2>6. /\ \A i \in 1 .. Len(m) : m[i].packet = l[from[i]].packet /\ m[i].index = l[from[i]].index
        /\ \A i, j \in 1 .. Len(m) : i < j => from[i] < from[j]
    <3>1. \A i \in 1 .. Len(m) : m[i] = l[from[i]]  BY <2>2, <2>4
    <3>2. \A i, j \in 1 .. Len(m) : i < j => from[i] < from[j]
      <4>1. \A i \in 1 .. Len(m) : i \in Nat  BY <1>2, <2>2
      <4> QED  BY <2>4, <4>1
    <3> QED  BY <3>1, <3>2
  <2>7. Channel(m, out, in)  BY <1>2, <2>3, <2>5, <2>6, ChannelThins
  <2> QED  BY <2>7 DEF m
<1> QED  BY <1>1, <1>3, <1>4

\* A step of the channel of a station: a packet enters it, or one is delivered.
Enters(s) ==
    LET out == sent[Peer(s)] IN
    /\ Len(sent'[Peer(s)]) = Len(out) + 1 /\ SubSeq(sent'[Peer(s)], 1, Len(out)) = out
    /\ sent'[Peer(s)][Len(sent'[Peer(s)])].number = Len(sent'[Peer(s)])
    /\ got'[s] = got[s]

Leaves(s) ==
    /\ \E k \in DOMAIN sent[Peer(s)] :
          /\ \A i \in DOMAIN got[s] : got[s][i].number < k
          /\ got'[s] = Append(got[s], sent[Peer(s)][k])
    /\ sent'[Peer(s)] = sent[Peer(s)]

LEMMA StepChannel ==
    ASSUME TypeOK, TypeOK', StepKind, ChannelInv, NEW s \in Stations
    PROVE  /\ handler'[Peer(s)].packets_sent = Len(sent'[Peer(s)])
           /\ Channel(line'[s], sent'[Peer(s)], got'[s])
           /\ \/ Enters(s) \/ Leaves(s)
              \/ sent'[Peer(s)] = sent[Peer(s)] /\ got'[s] = got[s]
<1> DEFINE l == line[s]
           out == sent[Peer(s)]
           in == got[s]
           m == line'[s]
           out2 == sent'[Peer(s)]
           in2 == got'[s]
<1>1. l \in Seq(ByteT) /\ out \in Seq(PacketT) /\ in \in Seq(PacketT) /\ Len(l) \in Nat /\ Len(out) \in Nat
  BY StationFacts, StateTypes
<1>2. m \in Seq(ByteT) /\ out2 \in Seq(PacketT) /\ in2 \in Seq(PacketT)
  BY StationFacts DEF TypeOK
<1>3. handler[Peer(s)].packets_sent = Len(out) /\ Channel(l, out, in)  BY DEF ChannelInv
<1>4. CASE Quiet(s)
  BY <1>3, <1>4 DEF Quiet, SendsNothing
<1>5. ASSUME NEW p, Sends(s, p)
      PROVE  handler'[Peer(s)].packets_sent = Len(out2) /\ Channel(m, out2, in2) /\ Enters(s)
  <2>1. /\ p \in PacketT /\ p.number = Len(out) + 1
        /\ handler'[Peer(s)].packets_sent = Len(out) + 1
        /\ m = l \o Bytes(p) /\ out2 = Append(out, p) /\ in2 = in
    BY <1>3, <1>5 DEF Sends
  <2> HIDE DEF l, out, in, m, out2, in2
  <2>2. Len(out2) = Len(out) + 1 /\ out2[Len(out) + 1] = p
        /\ \A i \in 1 .. Len(out) : out2[i] = out[i]
    BY <1>1, <2>1, AppendProperties
  <2>3. Channel(l \o Bytes(p), Append(out, p), in)  BY <1>1, <1>3, <2>1, ChannelSends
  <2>4. SubSeq(out2, 1, Len(out)) = out
    <3>1. Len(out) \in 0 .. Len(out2)  BY <1>1, <2>2
    <3>2. /\ SubSeq(out2, 1, Len(out)) \in Seq(PacketT) /\ Len(SubSeq(out2, 1, Len(out))) = Len(out)
          /\ \A i \in 1 .. Len(out) : SubSeq(out2, 1, Len(out))[i] = out2[i]
      BY <1>2, <3>1, Cut
    <3>3. \A i \in 1 .. Len(SubSeq(out2, 1, Len(out))) : SubSeq(out2, 1, Len(out))[i] = out[i]
      BY <2>2, <3>2
    <3> QED  BY <1>1, <3>2, <3>3, SeqEqual
  <2>5. Channel(m, out2, in2)  BY <2>1, <2>3
  <2>6. handler'[Peer(s)].packets_sent = Len(out2)  BY <2>1, <2>2
  <2>7. out2[Len(out2)].number = Len(out2)  BY <2>1, <2>2
  <2>8. Enters(s)  BY <2>1, <2>2, <2>4, <2>7, Zenon DEF Enters, out, out2, in, in2
  <2> QED  BY <2>5, <2>6, <2>8
<1>6. ASSUME NEW n, Receives(s, n)
      PROVE  /\ handler'[Peer(s)].packets_sent = Len(out2) /\ Channel(m, out2, in2)
             /\ Leaves(s) \/ (out2 = out /\ in2 = in)
  <2> DEFINE block == Taken(s, n)
  <2>1. /\ n \in 1 .. Len(l) /\ m = Left(s, n) /\ out2 = out
        /\ handler'[Peer(s)].packets_sent = Len(out2)
    BY <1>3, <1>6 DEF Receives, SendsNothing
  <2>2. /\ block \in Seq(ByteT) /\ Len(block) = n /\ \A i \in 1 .. n : block[i] = l[i]
        /\ Len(m) = Len(l) - n /\ \A i \in 1 .. Len(l) - n : m[i] = l[n + i]
    BY <2>1, BlockType
  <2>3. \/ "parsed" \in Verdicts(block) /\ in2 = Append(in, Parsed(block))
        \/ in2 = in
    BY <1>6 DEF Receives
  <2> HIDE DEF l, out, in, m, out2, in2, block
  <2>4. CASE "parsed" \in Verdicts(block) /\ in2 = Append(in, Parsed(block))
    <3>1. /\ Channel(m, out, Append(in, Parsed(block)))
          /\ \E k \in 1 .. Len(out) :
                /\ \A i \in 1 .. Len(in) : in[i].number < k
                /\ Append(in, Parsed(block)) = Append(in, out[k])
      <4>1. "parsed" \in Verdicts(block) /\ Splits(l, n, block, m)
        BY <1>2, <2>1, <2>2, <2>4 DEF Splits
      <4> QED  BY <1>1, <1>3, <4>1, ChannelDelivers
    <3>2. DOMAIN out = 1 .. Len(out) /\ DOMAIN in = 1 .. Len(in)  BY <1>1, LenProperties
    <3>3. Leaves(s)
      BY <2>1, <2>4, <3>1, <3>2, Zenon DEF Leaves, out, in, out2, in2
    <3> QED  BY <2>1, <2>4, <3>1, <3>3
  <2>5. CASE in2 = in
    <3> DEFINE from == [i \in 1 .. Len(m) |-> n + i]
    <3>1. \A i \in 1 .. Len(m) : from[i] = n + i  OBVIOUS
    <3>2. from \in [1 .. Len(m) -> 1 .. Len(l)]  BY <1>1, <2>1, <2>2
    <3> HIDE DEF from
    <3>3. \A i \in 1 .. Len(m) : m[i] = l[from[i]]  BY <2>2, <3>1
    <3>4. /\ \A i \in 1 .. Len(m) : m[i].packet = l[from[i]].packet /\ m[i].index = l[from[i]].index
          /\ \A i, j \in 1 .. Len(m) : i < j => from[i] < from[j]
      BY <1>1, <2>1, <2>2, <3>1, <3>3
    <3>5. Channel(m, out, in)  BY <1>1, <1>2, <1>3, <3>2, <3>4, ChannelThins
    <3> QED  BY <2>1, <2>5, <3>5
  <2> QED  BY <2>3, <2>4, <2>5
<1>7. CASE Suffers(s)
  <2>1. out2 = out /\ in2 = in /\ handler'[Peer(s)].packets_sent = Len(out2)
    BY <1>3, <1>7 DEF Suffers, SendsNothing
  <2>2. Channel(m, out, in)  BY <1>1, <1>2, <1>3, <1>7, SuffersThins
  <2> QED  BY <2>1, <2>2
<1> QED  BY <1>4, <1>5, <1>6, <1>7, DirectionKinds

\* Each step keeps the channels.
LEMMA StepChannelInv ==
    TypeOK /\ StatisticsAgree /\ ChannelInv /\ [Next]_vars => ChannelInv'
<1> SUFFICES ASSUME TypeOK, StatisticsAgree, ChannelInv, [Next]_vars PROVE ChannelInv'  OBVIOUS
<1>1. TypeOK' /\ StepKind  BY StepKinds
<1>2. \A s \in Stations : /\ handler'[Peer(s)].packets_sent = Len(sent'[Peer(s)])
                          /\ Channel(line'[s], sent'[Peer(s)], got'[s])
  BY <1>1, StepChannel
<1> QED  BY <1>2, Zenon DEF ChannelInv

LEMMA InitChannelInv == Init => ChannelInv
<1> SUFFICES ASSUME Init, NEW s \in Stations
             PROVE  /\ handler[Peer(s)].packets_sent = Len(sent[Peer(s)])
                    /\ Channel(line[s], sent[Peer(s)], got[s])
  BY DEF ChannelInv
<1>1. line[s] = <<>> /\ sent[Peer(s)] = <<>> /\ got[s] = <<>> /\ handler[Peer(s)].packets_sent = 0
  BY StationFacts DEF Init, NewHandler
<1>2. Len(<<>>) = 0 /\ \A i \in 1 .. 0 : FALSE  BY EmptySeq
<1> QED  BY <1>1, <1>2 DEF Channel

\* Whatever the length of the blocks and whatever byte is damaged or lost, each direction of
\* the line delivers packets as they were sent, in their order and at most once.
THEOREM LineImplementsChannels == Spec => ImplementsChannels
<1>1. TypeOK /\ StatisticsAgree /\ [Next]_vars => TypeOK' /\ StatisticsAgree'
  BY StepKinds
<1>2. TypeOK /\ StatisticsAgree /\ ChannelInv /\ [Next]_vars =>
         /\ [ToHub!Send \/ ToHub!Deliver]_ToHub!vars
         /\ [ToHost!Send \/ ToHost!Deliver]_ToHost!vars
  <2> SUFFICES ASSUME TypeOK, StatisticsAgree, ChannelInv, [Next]_vars
               PROVE  /\ [ToHub!Send \/ ToHub!Deliver]_ToHub!vars
                      /\ [ToHost!Send \/ ToHost!Deliver]_ToHost!vars
    OBVIOUS
  <2>1. TypeOK' /\ StepKind  BY StepKinds
  <2>2. \A s \in Stations : Enters(s) \/ Leaves(s) \/ (sent'[Peer(s)] = sent[Peer(s)] /\ got'[s] = got[s])
    BY <2>1, StepChannel
  <2>3. Enters("hub") \/ Leaves("hub") \/ (sent'["host"] = sent["host"] /\ got'["hub"] = got["hub"])
    BY <2>2, StationFacts
  <2>4. Enters("host") \/ Leaves("host") \/ (sent'["hub"] = sent["hub"] /\ got'["host"] = got["host"])
    BY <2>2, StationFacts
  <2>5. [ToHub!Send \/ ToHub!Deliver]_ToHub!vars
    BY <2>3, StationFacts, Zenon DEF Enters, Leaves, ToHub!Send, ToHub!Deliver, ToHub!vars
  <2>6. [ToHost!Send \/ ToHost!Deliver]_ToHost!vars
    BY <2>4, StationFacts, Zenon DEF Enters, Leaves, ToHost!Send, ToHost!Deliver, ToHost!vars
  <2> QED  BY <2>5, <2>6
<1>3. Init => ToHub!Init /\ ToHost!Init
  BY StationFacts DEF Init, ToHub!Init, ToHost!Init
<1> QED
  BY InitTypes, InitChannelInv, StepChannelInv, <1>1, <1>2, <1>3, PTL
     DEF Spec, ImplementsChannels, ToHub!Spec, ToHost!Spec

-----------------------------------------------------------------------------
(* Answers and requests.                                                   *)

\* The places of a command in a series.
Places(packets, command) == {k \in DOMAIN packets : packets[k].command = command}

LEMMA PlacesFinite ==
    ASSUME NEW packets \in Seq(PacketT), NEW command
    PROVE  /\ IsFiniteSet(Places(packets, command))
           /\ Number(packets, command) = Cardinality(Places(packets, command))
           /\ Number(packets, command) \in Nat
           /\ Places(packets, command) \in SUBSET (1 .. Len(packets))
<1>1. Len(packets) \in Nat /\ DOMAIN packets = 1 .. Len(packets)  BY LenProperties
<1>2. Places(packets, command) \in SUBSET (1 .. Len(packets))  BY <1>1 DEF Places
<1>3. IsFiniteSet(1 .. Len(packets))  BY <1>1, FS_Interval
<1>4. IsFiniteSet(Places(packets, command))  BY <1>2, <1>3, FS_Subset
<1>5. Number(packets, command) = Cardinality(Places(packets, command))
  BY Zenon DEF Number, Places
<1> QED  BY <1>2, <1>4, <1>5, FS_CardinalityType

\* A packet adds one to the number of its command.
LEMMA NumberAppend ==
    ASSUME NEW packets \in Seq(PacketT), NEW p \in PacketT, NEW command
    PROVE  Number(Append(packets, p), command) =
              IF p.command = command THEN Number(packets, command) + 1 ELSE Number(packets, command)
<1> DEFINE n == Len(packets) + 1
           long == Append(packets, p)
           old == Places(packets, command)
           new == Places(long, command)
<1>1. /\ long \in Seq(PacketT) /\ Len(long) = n /\ long[n] = p /\ Len(packets) \in Nat
      /\ \A i \in 1 .. Len(packets) : long[i] = packets[i]
  BY AppendProperties, LenProperties
<1>2. DOMAIN long = 1 .. n /\ DOMAIN packets = 1 .. Len(packets)  BY <1>1, LenProperties
<1>3. IsFiniteSet(old) /\ n \notin old  BY <1>1, PlacesFinite
<1> HIDE DEF long
<1>4. new = IF p.command = command THEN old \cup {n} ELSE old
  BY <1>1, <1>2 DEF Places
<1>5. Number(packets, command) = Cardinality(old) /\ Number(long, command) = Cardinality(new)
  BY <1>1, PlacesFinite
<1> HIDE DEF old, new, n
<1>6. Cardinality(old \cup {n}) = Cardinality(old) + 1  BY <1>3, FS_AddElement
<1> QED  BY <1>4, <1>5, <1>6 DEF long

\* No more packets of a command are delivered than were sent.
LEMMA NumberDelivered ==
    ASSUME NEW bytes, NEW out \in Seq(PacketT), NEW in \in Seq(PacketT),
           Channel(bytes, out, in), NEW command
    PROVE  Number(in, command) <= Number(out, command)
<1> DEFINE S == Places(in, command)
           T == Places(out, command)
           f == [i \in S |-> in[i].number]
<1>1. DOMAIN in = 1 .. Len(in) /\ DOMAIN out = 1 .. Len(out) /\ Len(in) \in Nat  BY LenProperties
<1>2. ASSUME NEW i \in S PROVE in[i].number \in T
  <2>1. i \in 1 .. Len(in) /\ in[i].command = command  BY <1>1 DEF Places
  <2>2. in[i].number \in 1 .. Len(out) /\ out[in[i].number] = in[i]  BY <2>1 DEF Channel
  <2> QED  BY <1>1, <2>1, <2>2 DEF Places
<1>3. f \in [S -> T]  BY <1>2
<1>4. ASSUME NEW i \in S, NEW j \in S, f[i] = f[j] PROVE i = j
  <2>1. i \in 1 .. Len(in) /\ j \in 1 .. Len(in)  BY <1>1 DEF Places
  <2>2. in[i].number = in[j].number  BY <1>4
  <2>3. in[i].number \in Nat /\ in[j].number \in Nat
    <3>1. in[i] \in PacketT /\ in[j] \in PacketT  BY <2>1, ElementOfSeq
    <3> QED  BY <3>1 DEF PacketT
  <2>4. ~(i < j) /\ ~(j < i)  BY <2>1, <2>2, <2>3 DEF Channel
  <2> QED  BY <1>1, <2>1, <2>4
<1>5. f \in Injection(S, T)  BY <1>3, <1>4 DEF Injection, IsInjective
<1>6. IsFiniteSet(T)  BY PlacesFinite
<1> HIDE DEF S, T, f
<1>7. Cardinality(S) <= Cardinality(T)  BY <1>5, <1>6, FS_Injection
<1> QED  BY <1>7, PlacesFinite DEF S, T

Answerable == {"GET_SENSOR_DATA", "GET_STATUS", "START_OTA"}

\* The answer to a request is that of no other command, and no heartbeat.
LEMMA AnswersDiffer ==
    ASSUME NEW request \in Answerable
    PROVE  /\ AnswerTo(request) # "PING"
           /\ \A command : AnswerTo(command) = AnswerTo(request) => command = request
BY DEF Answerable, AnswerTo

\* The hub has sent no more answers than it has parsed requests.
AnswersInv ==
    \A request \in Answerable :
        Number(sent["hub"], AnswerTo(request)) <= Number(got["hub"], request)

LEMMA StepAnswersInv ==
    TypeOK /\ StatisticsAgree /\ AnswersInv /\ [Next]_vars => AnswersInv'
<1> SUFFICES ASSUME TypeOK, StatisticsAgree, AnswersInv, [Next]_vars, NEW request \in Answerable
             PROVE  Number(sent'["hub"], AnswerTo(request)) <= Number(got'["hub"], request)
  BY DEF AnswersInv
<1> DEFINE a == AnswerTo(request)
           out == sent["hub"]
           in == got["hub"]
           out2 == sent'["hub"]
           in2 == got'["hub"]
<1>1. TypeOK' /\ StepKind  BY StepKinds
<1>2. /\ out \in Seq(PacketT) /\ in \in Seq(PacketT)
      /\ Number(out, a) \in Nat /\ Number(in, request) \in Nat
  BY StationFacts, StateTypes, PlacesFinite
<1>3. Number(out, a) <= Number(in, request)  BY DEF AnswersInv
<1>4. a # "PING" /\ \A command : AnswerTo(command) = a => command = request  BY AnswersDiffer
<1> HIDE DEF a
<1>5. ASSUME out2 = out, in2 = in PROVE Number(out2, a) <= Number(in2, request)
  BY <1>3, <1>5
<1>6. ASSUME NEW n, Handles(n) PROVE Number(out2, a) <= Number(in2, request)
  <2> DEFINE block == Taken("hub", n)
             p == Parsed(block)
  <2>1. n \in 1 .. Len(line["hub"])  BY <1>6, Zenon DEF Handles
  <2>2. block \in Seq(ByteT)  BY <2>1, StationFacts, BlockType
  <2>3. CASE /\ "parsed" \in Verdicts(block) /\ in2 = Append(in, p)
             /\ \/ Quiet("host")
                \/ \E q : Sends("host", q) /\ q.command = AnswerTo(p.command)
    <3>1. p \in PacketT  BY <2>2, <2>3, ParsedType
    <3> HIDE DEF p, in, in2
    <3>2. Number(in2, request) =
             IF p.command = request THEN Number(in, request) + 1 ELSE Number(in, request)
      BY <1>2, <2>3, <3>1, NumberAppend
    <3>3. CASE Quiet("host")
      <4>1. out2 = out  BY <3>3, StationFacts DEF Quiet, SendsNothing
      <4> QED  BY <1>2, <1>3, <3>2, <4>1
    <3>4. ASSUME NEW q, Sends("host", q), q.command = AnswerTo(p.command)
          PROVE  Number(out2, a) <= Number(in2, request)
      <4>1. q \in PacketT /\ out2 = Append(out, q)  BY <3>4, StationFacts DEF Sends
      <4> HIDE DEF out, out2
      <4>2. Number(out2, a) = IF q.command = a THEN Number(out, a) + 1 ELSE Number(out, a)
        BY <1>2, <4>1, NumberAppend
      <4>3. q.command = a => p.command = request  BY <1>4, <3>4
      <4> QED  BY <1>2, <1>3, <3>2, <4>2, <4>3
    <3> QED  BY <2>3, <3>3, <3>4
  <2>4. CASE in2 = in /\ Quiet("host")
    BY <1>5, <2>4, StationFacts DEF Quiet, SendsNothing
  <2> QED  BY <1>6, <2>3, <2>4, Zenon DEF Handles
<1>7. ASSUME NEW p, Quiet("hub"), Sends("host", p), p.command = "PING"
      PROVE  Number(out2, a) <= Number(in2, request)
  <2>1. p \in PacketT /\ out2 = Append(out, p) /\ in2 = in
    BY <1>7, StationFacts DEF Quiet, Sends
  <2> HIDE DEF out, out2, in, in2
  <2>2. Number(out2, a) = Number(out, a)  BY <1>2, <1>4, <1>7, <2>1, NumberAppend
  <2> QED  BY <1>3, <2>1, <2>2
<1>8. ASSUME Quiet("host"), NEW p, Sends("hub", p) PROVE out2 = out /\ in2 = in
  BY <1>8, StationFacts DEF Quiet, SendsNothing, Sends
<1>9. ASSUME Quiet("hub"), NEW n, Receives("host", n) PROVE out2 = out /\ in2 = in
  BY <1>9, StationFacts DEF Quiet, SendsNothing, Receives
<1>10. ASSUME NEW s \in Stations, Suffers(s), Quiet(Peer(s)) PROVE out2 = out /\ in2 = in
  BY <1>10, StationFacts DEF Quiet, SendsNothing, Suffers
<1>11. ASSUME Quiet("hub"), Quiet("host") PROVE out2 = out /\ in2 = in
  BY <1>11, StationFacts DEF Quiet, SendsNothing
<1> QED  BY <1>1, <1>5, <1>6, <1>7, <1>8, <1>9, <1>10, <1>11, Zenon DEF StepKind, a

LEMMA InitAnswersInv == Init => AnswersInv
<1> SUFFICES ASSUME Init, NEW request \in Answerable
             PROVE  Number(sent["hub"], AnswerTo(request)) <= Number(got["hub"], request)
  BY DEF AnswersInv
<1>1. sent["hub"] = <<>> /\ got["hub"] = <<>>  BY StationFacts DEF Init
<1>2. \A command : Number(<<>>, command) = 0
  <2>1. DOMAIN <<>> = {}  OBVIOUS
  <2>2. \A command : {k \in DOMAIN <<>> : <<>>[k].command = command} = {}  BY <2>1
  <2> QED  BY <2>2, FS_EmptySet, Zenon DEF Number
<1> QED  BY <1>1, <1>2

\* An answer that the host parses has a request of its own that the hub parsed before.
THEOREM EveryAnswerHasARequest == Spec => []AnswersHaveRequests
<1>1. TypeOK /\ StatisticsAgree /\ [Next]_vars => TypeOK' /\ StatisticsAgree'
  BY StepKinds
<1>2. TypeOK /\ ChannelInv /\ AnswersInv => AnswersHaveRequests
  <2> SUFFICES ASSUME TypeOK, ChannelInv, AnswersInv, NEW request \in Answerable
               PROVE  Number(got["host"], AnswerTo(request)) <= Number(got["hub"], request)
    BY DEF AnswersHaveRequests, Answerable
  <2> DEFINE a == AnswerTo(request)
  <2>1. sent["hub"] \in Seq(PacketT) /\ got["host"] \in Seq(PacketT) /\ got["hub"] \in Seq(PacketT)
    BY StationFacts, StateTypes
  <2>2. Channel(line["host"], sent["hub"], got["host"])  BY StationFacts DEF ChannelInv
  <2>3. Number(got["host"], a) <= Number(sent["hub"], a)  BY <2>1, <2>2, NumberDelivered
  <2>4. Number(sent["hub"], a) <= Number(got["hub"], request)  BY DEF AnswersInv
  <2>5. /\ Number(got["host"], a) \in Nat /\ Number(sent["hub"], a) \in Nat
        /\ Number(got["hub"], request) \in Nat
    BY <2>1, PlacesFinite
  <2> HIDE DEF a
  <2>6. Number(got["host"], a) <= Number(got["hub"], request)  BY <2>3, <2>4, <2>5
  <2> QED  BY <2>6 DEF a
<1> QED
  BY InitTypes, InitChannelInv, InitAnswersInv, StepChannelInv, StepAnswersInv, <1>1, <1>2, PTL
     DEF Spec

-----------------------------------------------------------------------------
(* Nothing is missed silently.                                             *)

\* A packet that is sent on a sound line goes behind those on it.
LEMMA HoldsSends ==
    ASSUME NEW bytes \in Seq(ByteT), NEW out \in Seq(PacketT), NEW in \in Seq(PacketT),
           Channel(bytes, out, in), NEW z \in Nat, HoldsPacketsAfter(z, out, bytes),
           NEW q \in PacketT, q.number = Len(out) + 1
    PROVE  HoldsPacketsAfter(z, Append(out, q), bytes \o Bytes(q))
<1> DEFINE b == Bytes(q)
           long == bytes \o b
           more == Append(out, q)
           n == Len(bytes)
           m == Len(out)
           k == Size(q)
<1>1. n \in Nat /\ m \in Nat /\ k \in Nat /\ k > 4 /\ q.number = m + 1
  BY LenProperties, BytesType
<1>2. /\ long \in Seq(ByteT) /\ Len(long) = n + k
      /\ \A i \in 1 .. n : long[i] = bytes[i]
      /\ \A i \in 1 .. k : long[n + i] = b[i]
  <2>1. b \in Seq(ByteT) /\ Len(b) = k  BY BytesType
  <2>2. long \in Seq(ByteT) /\ Len(long) = n + k
        /\ \A i \in 1 .. n + k : long[i] = IF i <= n THEN bytes[i] ELSE b[i - n]
    <3>1. b \in Seq(ByteT) /\ Len(b) = k /\ long = bytes \o b  BY <2>1
    <3> HIDE DEF b, long, k
    <3> QED  BY <3>1, ConcatProperties
  <2> HIDE DEF long, b, n, k
  <2>3. \A i \in 1 .. n : long[i] = bytes[i]  BY <1>1, <2>2
  <2>4. ASSUME NEW i \in 1 .. k PROVE long[n + i] = b[i]
    <3> DEFINE c == n + i
    <3>2. long[c] = b[c - n] /\ c - n = i
      <4>1. c \in 1 .. n + k /\ ~(c <= n) /\ c - n = i  BY <1>1
      <4> HIDE DEF c
      <4>2. long[c] = IF c <= n THEN bytes[c] ELSE b[c - n]  BY <2>2, <4>1
      <4> QED  BY <4>1, <4>2
    <3> QED  BY <3>2
  <2> QED  BY <2>2, <2>3, <2>4
<1>3. Len(more) = m + 1 /\ (\A i \in 1 .. m : more[i] = out[i]) /\ more[m + 1] = q
  BY AppendProperties
<1>4. \A i \in 1 .. k : b[i] = [packet |-> q, index |-> i, damaged |-> FALSE]
  BY BytesType
<1>5. /\ bytes = <<>> <=> z = m
      /\ bytes # <<>> => /\ z < m /\ bytes[1] = Bytes(out[z + 1])[1]
                         /\ bytes[n] = Bytes(out[m])[Size(out[m])]
  BY Zenon DEF HoldsPacketsAfter
<1>6. bytes = <<>> <=> n = 0  BY EmptySeq
<1>7. z <= m  BY <1>1, <1>5
<1>8. bytes # <<>> => /\ m \in 1 .. m /\ out[m] \in PacketT /\ out[m].number = m
                      /\ bytes[n].packet = out[m] /\ bytes[n].index = Size(out[m])
  <2> SUFFICES ASSUME bytes # <<>>
               PROVE  /\ m \in 1 .. m /\ out[m] \in PacketT /\ out[m].number = m
                      /\ bytes[n].packet = out[m] /\ bytes[n].index = Size(out[m])
    OBVIOUS
  <2>1. m \in 1 .. m  BY <1>1, <1>5
  <2>2. out[m] \in PacketT  BY <2>1, ElementOfSeq
  <2>3. out[m].number = m  BY <2>1 DEF Channel
  <2>4. Size(out[m]) \in 1 .. Size(out[m])  BY <2>2, BytesType
  <2>5. Bytes(out[m])[Size(out[m])] = [packet |-> out[m], index |-> Size(out[m]), damaged |-> FALSE]
    BY <2>2, <2>4, BytesType
  <2> QED  BY <1>5, <2>1, <2>2, <2>3, <2>5
<1>9. \A j \in 1 .. n - 1 : Follows(bytes[j + 1], bytes[j], out)
  BY DEF HoldsPacketsAfter
<1>10. \A j \in 1 .. n : bytes[j].packet.number \in 1 .. m  BY DEF Channel
<1> HIDE DEF b, long, more, n, m, k
<1>11. long # <<>> /\ z # m + 1 /\ z < m + 1
  <2>1. Len(long) # 0  BY <1>1, <1>2
  <2> QED  BY <1>1, <1>2, <1>7, <2>1, EmptySeq
<1>12. long[1] = Bytes(more[z + 1])[1]
  <2>1. CASE bytes = <<>>
    <3>1. n = 0 /\ z = m /\ 1 \in 1 .. k  BY <1>1, <1>5, <1>6, <2>1
    <3>2. long[1] = b[1]
      <4>1. long[n + 1] = b[1] /\ n + 1 = 1  BY <1>2, <3>1
      <4> QED  BY <4>1
    <3> QED  BY <1>3, <3>1, <3>2 DEF b
  <2>2. CASE bytes # <<>>
    <3>1. 1 \in 1 .. n /\ z + 1 \in 1 .. m  BY <1>1, <1>5, <1>6, <2>2
    <3> QED  BY <1>2, <1>3, <1>5, <2>2, <3>1
  <2> QED  BY <2>1, <2>2
<1>13. long[n + k] = Bytes(more[m + 1])[Size(more[m + 1])]
  <2>1. k \in 1 .. k  BY <1>1
  <2> QED  BY <1>2, <1>3, <2>1 DEF b, k
<1>14. ASSUME NEW j \in 1 .. Len(long) - 1 PROVE Follows(long[j + 1], long[j], more)
  <2>1. CASE j \in 1 .. n - 1
    <3> DEFINE c == bytes[j]
               i == c.packet.number
    <3>1. j \in 1 .. n /\ j + 1 \in 1 .. n  BY <1>1, <2>1
    <3>2. long[j] = c /\ long[j + 1] = bytes[j + 1]  BY <1>2, <3>1
    <3>3. i \in 1 .. m  BY <1>10, <3>1
    <3>4. Follows(bytes[j + 1], c, out)  BY <1>9, <2>1
    <3>5. CASE c.index < Size(c.packet)  BY <3>2, <3>4, <3>5 DEF Follows
    <3>6. CASE ~(c.index < Size(c.packet))
      <4>1. i < m /\ bytes[j + 1] = Bytes(out[i + 1])[1]  BY <3>4, <3>6 DEF Follows, m
      <4>2. i + 1 \in 1 .. m /\ i < m + 1
        <5> HIDE DEF i
        <5> QED  BY <1>1, <3>3, <4>1
      <4>3. more[i + 1] = out[i + 1]  BY <1>3, <4>2
      <4> QED  BY <1>3, <3>2, <3>6, <4>1, <4>2, <4>3 DEF Follows
    <3> QED  BY <3>5, <3>6
  <2>2. CASE j = n
    <3>1. j \in 1 .. n /\ bytes # <<>> /\ 1 \in 1 .. k  BY <1>1, <1>6, <2>2
    <3>2. long[j] = bytes[n] /\ long[j + 1] = b[1]  BY <1>2, <2>2, <3>1
    <3>3. bytes[n].packet = out[m] /\ bytes[n].index = Size(out[m]) /\ out[m].number = m
      BY <1>8, <3>1
    <3>4. ~(Size(out[m]) < Size(out[m]))
      <4>1. Size(out[m]) \in Nat  BY <1>8, <3>1, BytesType
      <4> HIDE DEF m
      <4> QED  BY <4>1
    <3>5. m < m + 1  BY <1>1
    <3> QED  BY <1>3, <3>2, <3>3, <3>4, <3>5 DEF b, Follows
  <2>3. CASE j \in n + 1 .. n + k - 1
    <3> DEFINE h == j - n
    <3>1. h \in 1 .. k /\ h + 1 \in 1 .. k /\ n + h = j /\ n + (h + 1) = j + 1 /\ h < k  BY <1>1, <2>3
    <3> HIDE DEF h
    <3>2. long[j] = b[h] /\ long[j + 1] = b[h + 1]
      <4>1. long[n + h] = b[h] /\ long[n + (h + 1)] = b[h + 1]  BY <1>2, <3>1
      <4> QED  BY <3>1, <4>1
    <3>3. b[h] = [packet |-> q, index |-> h, damaged |-> FALSE]  BY <1>4, <3>1
    <3>4. long[j].packet = q /\ long[j].index = h  BY <3>2, <3>3
    <3> QED  BY <3>1, <3>2, <3>4 DEF b, k, Follows
  <2>4. j \in 1 .. n - 1 \/ j = n \/ j \in n + 1 .. n + k - 1
    <3>1. Len(long) = n + k  BY <1>2
    <3> QED  BY <1>1, <3>1
  <2> QED  BY <2>1, <2>2, <2>3, <2>4
<1>15. HoldsPacketsAfter(z, more, long)
  <2>1. \A j \in 1 .. Len(long) - 1 : Follows(long[j + 1], long[j], more)  BY <1>14
  <2>2. z < Len(more) /\ Len(more) = m + 1 /\ ~(z = Len(more))  BY <1>3, <1>11
  <2>3. long[Len(long)] = Bytes(more[m + 1])[Size(more[m + 1])]  BY <1>2, <1>13
  <2> QED  BY <1>11, <1>12, <2>1, <2>2, <2>3, Zenon DEF HoldsPacketsAfter
<1> QED  BY <1>15 DEF more, long, b

\* A packet that is parsed from a sound line is the first one on it, and leaves the others.
LEMMA HoldsParsed ==
    ASSUME NEW bytes \in Seq(ByteT), NEW out \in Seq(PacketT), NEW in \in Seq(PacketT),
           Channel(bytes, out, in), NEW z \in Nat, HoldsPacketsAfter(z, out, bytes),
           NEW n, NEW block, NEW rest, Splits(bytes, n, block, rest),
           "parsed" \in Verdicts(block)
    PROVE  HoldsPacketsAfter(z + 1, out, rest)
<1> DEFINE p == block[1].packet
           e == Len(bytes)
           r == Len(rest)
           m == Len(out)
<1>1. /\ e \in Nat /\ m \in Nat /\ n \in 1 .. e
      /\ block \in Seq(ByteT) /\ Len(block) = n /\ \A i \in 1 .. n : block[i] = bytes[i]
      /\ rest \in Seq(ByteT) /\ r = e - n /\ \A i \in 1 .. r : rest[i] = bytes[n + i]
  BY LenProperties DEF Splits
<1>2. n = Size(p) /\ block[1] \in ByteT /\ \A i \in 1 .. n - 1 : block[i] = Bytes(p)[i]
  BY <1>1, ParsedBlock
<1>3. p \in PacketT  BY <1>2, ByteFields
<1>4. n \in Nat /\ n > 4 /\ \A i \in 1 .. n : Bytes(p)[i] = [packet |-> p, index |-> i, damaged |-> FALSE]
  BY <1>2, <1>3, BytesType
<1>5. 1 \in 1 .. e /\ 1 \in 1 .. n - 1 /\ n - 1 \in 1 .. n - 1 /\ n - 1 \in 1 .. e - 1 /\ e # 0
  BY <1>1, <1>4
<1>6. bytes # <<>>  BY <1>1, <1>5, EmptySeq
<1>7. /\ z < m /\ bytes[1] = Bytes(out[z + 1])[1]
      /\ bytes[e] = Bytes(out[m])[Size(out[m])]
  BY <1>6, Zenon DEF HoldsPacketsAfter
<1>8. z + 1 \in 1 .. m /\ m \in 1 .. m  BY <1>1, <1>7
<1>9. p = out[z + 1] /\ p.number = z + 1
  <2>1. out[z + 1] \in PacketT  BY <1>8, ElementOfSeq
  <2>2. 1 \in 1 .. Size(out[z + 1])  BY <2>1, BytesType
  <2>3. Bytes(out[z + 1])[1] = [packet |-> out[z + 1], index |-> 1, damaged |-> FALSE]
    BY <2>1, <2>2, BytesType
  <2>4. block[1] = bytes[1]  BY <1>1, <1>5
  <2>5. p = out[z + 1]  BY <1>7, <2>3, <2>4
  <2>6. out[z + 1].number = z + 1  BY <1>8 DEF Channel
  <2> QED  BY <2>5, <2>6
<1>10. bytes[n].packet = p /\ bytes[n].index = n
  <2>1. bytes[n - 1] = [packet |-> p, index |-> n - 1, damaged |-> FALSE]
    <3>1. n - 1 \in 1 .. n  BY <1>4
    <3> QED  BY <1>1, <1>2, <1>4, <1>5, <3>1
  <2>2. bytes[n - 1].packet = p /\ bytes[n - 1].index = n - 1  BY <2>1
  <2>3. n - 1 < Size(p) /\ (n - 1) + 1 = n  BY <1>2, <1>4
  <2>4. bytes[(n - 1) + 1] = Bytes(p)[(n - 1) + 1]
    <3>1. Follows(bytes[(n - 1) + 1], bytes[n - 1], out)  BY <1>5 DEF HoldsPacketsAfter
    <3> HIDE DEF p
    <3> QED  BY <2>2, <2>3, <3>1 DEF Follows
  <2>5. bytes[n] = Bytes(p)[n]  BY <2>3, <2>4
  <2>6. n \in 1 .. n  BY <1>4
  <2>7. Bytes(p)[n] = [packet |-> p, index |-> n, damaged |-> FALSE]  BY <1>4, <2>6
  <2> HIDE DEF p
  <2> QED  BY <2>5, <2>7
<1>11. ASSUME n < e
       PROVE  z + 1 < m /\ bytes[n + 1] = Bytes(out[z + 1 + 1])[1]
  <2>1. n \in 1 .. Len(bytes) - 1 /\ ~(n < Size(p))  BY <1>1, <1>2, <1>4, <1>11
  <2>2. p.number < Len(out) /\ bytes[n + 1] = Bytes(out[p.number + 1])[1]
    <3>1. Follows(bytes[n + 1], bytes[n], out)  BY <2>1 DEF HoldsPacketsAfter
    <3> HIDE DEF p
    <3> QED  BY <1>10, <2>1, <3>1 DEF Follows
  <2> QED  BY <1>9, <2>2
<1>12. ASSUME n = e PROVE z + 1 = m
  <2>1. out[m] \in PacketT  BY <1>8, ElementOfSeq
  <2>2. Size(out[m]) \in 1 .. Size(out[m])  BY <2>1, BytesType
  <2>3. Bytes(out[m])[Size(out[m])] = [packet |-> out[m], index |-> Size(out[m]), damaged |-> FALSE]
    BY <2>1, <2>2, BytesType
  <2>4. p = out[m]  BY <1>7, <1>10, <1>12, <2>3
  <2>5. out[m].number = m  BY <1>8 DEF Channel
  <2> QED  BY <1>9, <2>4, <2>5
<1> HIDE DEF p
<1>13. rest = <<>> <=> n = e
  <2>1. rest = <<>> <=> r = 0  BY <1>1, EmptySeq
  <2> QED  BY <1>1, <2>1
<1>14. rest = <<>> <=> z + 1 = m
  <2>1. n < e \/ n = e  BY <1>1
  <2> QED  BY <1>8, <1>11, <1>12, <1>13, <2>1
<1>15. rest # <<>> => /\ z + 1 < m /\ rest[1] = Bytes(out[z + 1 + 1])[1]
                      /\ rest[r] = Bytes(out[m])[Size(out[m])]
  <2> SUFFICES ASSUME rest # <<>>
               PROVE  /\ z + 1 < m /\ rest[1] = Bytes(out[z + 1 + 1])[1]
                      /\ rest[r] = Bytes(out[m])[Size(out[m])]
    OBVIOUS
  <2>1. n < e /\ 1 \in 1 .. r /\ r \in 1 .. r /\ n + r = e  BY <1>1, <1>13
  <2>2. rest[1] = bytes[n + 1] /\ rest[r] = bytes[n + r]  BY <1>1, <2>1
  <2> QED  BY <1>7, <1>11, <2>1, <2>2
<1>16. ASSUME NEW j \in 1 .. Len(rest) - 1 PROVE Follows(rest[j + 1], rest[j], out)
  <2> DEFINE i == n + j
  <2>1. j \in 1 .. r /\ j + 1 \in 1 .. r /\ i \in 1 .. Len(bytes) - 1 /\ n + (j + 1) = i + 1  BY <1>1
  <2>2. rest[j] = bytes[i] /\ rest[j + 1] = bytes[i + 1]
    <3>1. rest[j + 1] = bytes[n + (j + 1)]  BY <1>1, <2>1
    <3> QED  BY <1>1, <2>1, <3>1
  <2> HIDE DEF i
  <2>3. Follows(bytes[i + 1], bytes[i], out)  BY <2>1 DEF HoldsPacketsAfter
  <2> QED  BY <2>2, <2>3
<1> QED  BY <1>14, <1>15, <1>16, Zenon DEF HoldsPacketsAfter

LEMMA StepNothingMissed ==
    TypeOK /\ StatisticsAgree /\ ChannelInv /\ NothingMissedSilently /\ [Next]_vars
    => NothingMissedSilently'
<1> SUFFICES ASSUME TypeOK, StatisticsAgree, ChannelInv, NothingMissedSilently, [Next]_vars,
                    faults' = 0, comm'.errors = 0
             PROVE  HoldsPacketsAfter(Len(got'["hub"]), sent'["host"], line'["hub"])
  BY DEF NothingMissedSilently
<1> DEFINE l == line["hub"]
           out == sent["host"]
           in == got["hub"]
           l2 == line'["hub"]
           out2 == sent'["host"]
           in2 == got'["hub"]
<1>1. TypeOK' /\ StepKind  BY StepKinds
<1>2. l \in Seq(ByteT) /\ out \in Seq(PacketT) /\ in \in Seq(PacketT) /\ Len(in) \in Nat
  BY StationFacts, StateTypes
<1>3. Channel(l, out, in) /\ handler["host"].packets_sent = Len(out)
  BY StationFacts DEF ChannelInv
<1>4. faults \in Nat /\ comm.errors \in Nat  BY ProtocolAssumption DEF TypeOK
<1>5. faults = 0 /\ comm.errors = 0 => HoldsPacketsAfter(Len(in), out, l)
  BY DEF NothingMissedSilently
<1>6. l2 \in Seq(ByteT)  BY <1>1, StationFacts DEF TypeOK
<1>7. faults' = faults
  BY <1>1, <1>4 DEF StepKind
<1>8. CASE Quiet("hub") /\ comm'.errors \in {comm.errors, comm.errors + 1}
  <2>1. l2 = l /\ out2 = out /\ in2 = in /\ comm.errors = 0
    BY <1>4, <1>8, StationFacts DEF Quiet, SendsNothing
  <2> QED  BY <1>5, <1>7, <2>1
<1>9. ASSUME comm'.errors = comm.errors, NEW p, Sends("hub", p)
      PROVE  HoldsPacketsAfter(Len(in2), out2, l2)
  <2>1. /\ p \in PacketT /\ p.number = Len(out) + 1 /\ in2 = in
        /\ l2 = l \o Bytes(p) /\ out2 = Append(out, p)
    BY <1>3, <1>9, StationFacts DEF Sends
  <2>2. HoldsPacketsAfter(Len(in), out, l)  BY <1>5, <1>7, <1>9
  <2> HIDE DEF l, out, in, l2, out2, in2
  <2>3. HoldsPacketsAfter(Len(in), Append(out, p), l \o Bytes(p))
    BY <1>2, <1>3, <2>1, <2>2, HoldsSends
  <2> QED  BY <2>1, <2>3
<1>10. ASSUME NEW n, Handles(n)
       PROVE  HoldsPacketsAfter(Len(in2), out2, l2)
  <2> DEFINE block == Taken("hub", n)
  <2>1. n \in 1 .. Len(l) /\ l2 = Left("hub", n) /\ out2 = out
    BY <1>10, StationFacts DEF Handles, SendsNothing
  <2>2. Splits(l, n, block, l2)
    BY <1>6, <2>1, StationFacts, BlockType DEF Splits
  <2>3. comm'.errors # comm.errors + 1  BY <1>4
  <2>4. /\ "parsed" \in Verdicts(block) /\ in2 = Append(in, Parsed(block))
        /\ comm'.errors = comm.errors
    BY <1>10, <2>3, Zenon DEF Handles
  <2>5. Len(in2) = Len(in) + 1
    <3>1. Parsed(block) \in PacketT  BY <2>2, <2>4, ParsedType DEF Splits
    <3> HIDE DEF in, in2
    <3> QED  BY <1>2, <2>4, <3>1, AppendProperties
  <2>6. HoldsPacketsAfter(Len(in), out, l)  BY <1>5, <1>7, <2>4
  <2> HIDE DEF l, out, in, l2, out2, in2, block
  <2>7. HoldsPacketsAfter(Len(in) + 1, out, l2)
    BY <1>2, <1>3, <2>2, <2>4, <2>6, HoldsParsed
  <2> QED  BY <2>1, <2>5, <2>7
<1> QED  BY <1>1, <1>4, <1>8, <1>9, <1>10 DEF StepKind

LEMMA InitNothingMissed == Init => NothingMissedSilently
<1> SUFFICES ASSUME Init PROVE HoldsPacketsAfter(Len(got["hub"]), sent["host"], line["hub"])
  BY DEF NothingMissedSilently
<1>1. got["hub"] = <<>> /\ sent["host"] = <<>> /\ line["hub"] = <<>>  BY StationFacts DEF Init
<1>2. Len(<<>>) = 0  BY EmptySeq
<1> QED  BY <1>1, <1>2 DEF HoldsPacketsAfter

\* While the lines are sound, the hub misses no packet without counting an error, however
\* the blocks cut the stream.
THEOREM NothingIsMissedSilently == Spec => []NothingMissedSilently
<1>1. TypeOK /\ StatisticsAgree /\ [Next]_vars => TypeOK' /\ StatisticsAgree'
  BY StepKinds
<1> QED
  BY InitTypes, InitChannelInv, InitNothingMissed, StepChannelInv, StepNothingMissed, <1>1, PTL
     DEF Spec
=============================================================================

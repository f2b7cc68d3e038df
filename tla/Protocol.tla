------------------------------ MODULE Protocol ------------------------------
(***************************************************************************)
(* Packets of src/src/protocols/comm_protocol.c on a serial line, and the   *)
(* commands that src/src/app/comm_task.c answers.  The hub runs comm_task;  *)
(* the host is a program at the other end that uses the same protocol code. *)
(*                                                                          *)
(* A line is a stream of bytes.  A receiver reads what has arrived, any     *)
(* number of bytes, and parses the block as one packet.  Byte k of packet p *)
(* is a record that names both, since the code tells the two ends of a      *)
(* packet, its header and the rest apart and never looks at other values.   *)
(* A CRC comparison succeeds exactly when the bytes it covers are those of  *)
(* the packet.                                                              *)
(***************************************************************************)
EXTENDS Naturals, Sequences, FiniteSets

CONSTANTS
    Header,           \* PROTOCOL_HEADER_SIZE: start byte, command, sequence number, length
    CrcSize,          \* PROTOCOL_CRC_SIZE
    PingLength,       \* data of a PING: 4
    SensorLength,     \* data of a SENSOR_DATA: 12
    StatusLength,     \* data of a STATUS_RESPONSE: 9
    SequenceNumbers,  \* 2^16: sequence_counter is a uint16_t
    MaxPacketSize,    \* PROTOCOL_MAX_PACKET_SIZE
    BufferSize,       \* sizeof(rx_buffer) and sizeof(tx_buffer)
    HostBufferSizes,  \* buffer sizes that the host creates packets in
    Requests,         \* commands that the host sends
    RequestLengths,   \* data lengths of the host's packets
    MaxRequests,      \* bound: packets that the host sends
    MaxHeartbeats,    \* bound: heartbeats of the hub
    MaxReceived,      \* bound: blocks received before the last test message
    MaxFaults         \* bound: bytes that the lines lose or damage

Commands == {"PING", "PONG", "GET_SENSOR_DATA", "SENSOR_DATA", "SET_CONFIG", "CONFIG_RESPONSE",
             "START_OTA", "OTA_DATA", "OTA_COMPLETE", "GET_STATUS", "STATUS_RESPONSE", "ERROR"}

ASSUME ProtocolAssumption ==
    /\ Header \in Nat /\ Header > 2 /\ CrcSize \in Nat \ {0}
    /\ SequenceNumbers \in Nat \ {0, 1}
    /\ MaxPacketSize \in Nat /\ BufferSize \in Nat
    \* Each packet of the hub fits; an OTA_COMPLETE or ERROR has one byte of data.
    /\ \A length \in {PingLength, SensorLength, StatusLength, 1} :
          length \in Nat /\ BufferSize >= Header + length + CrcSize + 2
    /\ HostBufferSizes \subseteq Nat /\ RequestLengths \subseteq Nat
    /\ Requests \subseteq Commands
    \* Fewer faults than a packet has bytes: no two packets are spliced into a third.
    /\ MaxFaults \in 0 .. Header + CrcSize

VARIABLES
    handler,     \* protocol_handler_t of each station
    comm,        \* comm_status of the hub
    data_ready,  \* sensor_data.data_ready
    line,        \* the bytes on their way to each station
    faults,      \* bytes that the lines lost or damaged
    sent,        \* history: the packets each station created
    got          \* history: the packets each station parsed

vars == <<handler, comm, data_ready, line, faults, sent, got>>

Stations == {"hub", "host"}

Peer(s) == IF s = "hub" THEN "host" ELSE "hub"

\* protocol_init().
NewHandler == [sequence_counter |-> 1, packets_sent |-> 0, bytes_sent |-> 0,
               packets_received |-> 0, bytes_received |-> 0, crc_errors |-> 0]

Init ==
    /\ handler = [s \in Stations |-> NewHandler]
    /\ comm = [packets_sent |-> 0, packets_received |-> 0, errors |-> 0]
    /\ data_ready = FALSE
    /\ line = [s \in Stations |-> <<>>]
    /\ faults = 0
    /\ sent = [s \in Stations |-> <<>>] /\ got = [s \in Stations |-> <<>>]

-----------------------------------------------------------------------------
(* Creating a packet.                                                      *)

\* The number is history: the position of the packet among those its sender creates.
Packet(h, command, length) ==
    [number |-> h.packets_sent + 1, command |-> command, sequence |-> h.sequence_counter,
     length |-> length]

\* The value that protocol_create_packet() returns.
Size(p) == Header + p.length + CrcSize + 1

\* How many packets of a series carry a command.
Number(packets, command) == Cardinality({k \in DOMAIN packets : packets[k].command = command})

Bytes(p) == [k \in 1 .. Size(p) |-> [packet |-> p, index |-> k, damaged |-> FALSE]]

\* The tests of protocol_create_packet(); they ask for one byte more than Size.
Fits(length, buffer_size) == length <= MaxPacketSize /\ buffer_size >= Header + length + CrcSize + 2

\* Mutant: the sequence number never wraps.
AfterCreate_NoWrap(h, length) ==
    [h EXCEPT !.sequence_counter = @ + 1, !.packets_sent = @ + 1,
              !.bytes_sent = @ + Header + length + CrcSize + 2]

\* The handler after protocol_create_packet(), which counts one byte more than Size.  The
\* statistics are uint32_t in the code; here and in AfterParse they are the counts
\* themselves, of which the fields hold the remainders modulo 2^32.
AfterCreate(h, length) ==
    [h EXCEPT !.sequence_counter = (@ + 1) % SequenceNumbers, !.packets_sent = @ + 1,
              !.bytes_sent = @ + Header + length + CrcSize + 2]

-----------------------------------------------------------------------------
(* Parsing a block.                                                        *)

\* What is known of a byte as it was sent: the start byte, the end byte, a value
\* that is neither (a command), or any value.
Value(b) ==
    IF b.index = 2 THEN "other"
    ELSE IF b.index = 1 THEN "start"
    ELSE IF b.index = Size(b.packet) THEN "end"
    ELSE "any"

\* The possible results of comparing a byte with the start or the end byte.
Compare(b, value) ==
    IF Value(b) = "any" \/ (b.damaged /\ Value(b) # value) THEN BOOLEAN
    ELSE {Value(b) = value /\ ~b.damaged}

\* Mutant: asks for the length that protocol_create_packet() adds to bytes_sent.
LengthMatches_AsCounted(block) == Len(block) = Size(block[1].packet) + 1

\* Mutant: whatever follows the packet in the block is ignored.
LengthMatches_AtLeast(block) == Len(block) >= Size(block[1].packet)

\* The length field against the length of the block.  Where the header is not that of
\* the packet the block begins with, the CRC fails, with the same effect.
LengthMatches(block) == Len(block) = Size(block[1].packet)

\* Mutant: only the header is compared.
CrcMatches_Header(block) ==
    \A k \in 1 .. Header : block[k] = Bytes(block[1].packet)[k]

\* The comparison of the CRC, and with it of the bytes that it covers.
CrcMatches(block) ==
    \A k \in 1 .. Size(block[1].packet) - 1 : block[k] = Bytes(block[1].packet)[k]

Verdict(block, start, end) ==
    IF ~start \/ ~end THEN "refused"
    ELSE IF LengthMatches(block) /\ CrcMatches(block) THEN "parsed"
    ELSE "crc_error"

\* The possible results of protocol_parse_packet().
Verdicts(block) ==
    IF Len(block) < Header + CrcSize + 2 THEN {"refused"}
    ELSE {v \in {"refused", "crc_error", "parsed"} :
             \E start \in Compare(block[1], "start"), end \in Compare(block[Len(block)], "end") :
                v = Verdict(block, start, end)}

\* The packet parsed from a block; number 0 if the bytes are those of no packet.
Parsed(block) ==
    LET p == block[1].packet IN
    IF \A k \in 1 .. Size(p) - CrcSize - 1 : block[k] = Bytes(p)[k] THEN p
    ELSE [p EXCEPT !.number = 0]

\* Mutant: the statistics are updated before the CRC is compared.
AfterParse_CountsFirst(h, verdict, length) ==
    IF verdict # "refused"
    THEN [h EXCEPT !.packets_received = @ + 1, !.bytes_received = @ + length,
                   !.crc_errors = @ + (IF verdict = "crc_error" THEN 1 ELSE 0)]
    ELSE h

\* The handler after protocol_parse_packet().
AfterParse(h, verdict, length) ==
    IF verdict = "parsed"
    THEN [h EXCEPT !.packets_received = @ + 1, !.bytes_received = @ + length]
    ELSE IF verdict = "crc_error" THEN [h EXCEPT !.crc_errors = @ + 1]
    ELSE h

-----------------------------------------------------------------------------
(* The hub.                                                                *)

\* Mutant: the case of PING has no break.
AnswerTo_FallsThrough(command) ==
    CASE command \in {"PING", "GET_SENSOR_DATA"} -> "SENSOR_DATA"
      [] command = "GET_STATUS" -> "STATUS_RESPONSE"
      [] command = "START_OTA" -> "OTA_COMPLETE"
      [] OTHER -> "ERROR"

\* The answers of process_command().
AnswerTo(command) ==
    CASE command = "PING" -> "PONG"
      [] command = "GET_SENSOR_DATA" -> "SENSOR_DATA"
      [] command = "GET_STATUS" -> "STATUS_RESPONSE"
      [] command = "START_OTA" -> "OTA_COMPLETE"
      [] OTHER -> "ERROR"

\* The data lengths of the packets that comm_task creates.
DataLength == [PING |-> PingLength, PONG |-> 0, SENSOR_DATA |-> SensorLength,
               STATUS_RESPONSE |-> StatusLength, OTA_COMPLETE |-> 1, ERROR |-> 1]

Answered(command) == command = "GET_SENSOR_DATA" => data_ready

\* The hub creates a packet and sends it, with h its handler so far, to_hub the bytes
\* that are still on their way to it and c its comm_status so far.
HubSends(h, command, to_hub, c) ==
    LET length == DataLength[command]
        p == Packet(h, command, length)
    IN  /\ handler' = [handler EXCEPT !["hub"] = AfterCreate(h, length)]
        /\ line' = [hub |-> to_hub, host |-> line["host"] \o Bytes(p)]
        /\ comm' = [c EXCEPT !.packets_sent = @ + 1]
        /\ sent' = [sent EXCEPT !["hub"] = Append(@, p)]

HubKeepsQuiet(h, to_hub, c) ==
    /\ handler' = [handler EXCEPT !["hub"] = h]
    /\ line' = [line EXCEPT !["hub"] = to_hub]
    /\ comm' = c
    /\ UNCHANGED sent

\* comm_task() parses the block it received and processes the packet.
HubHandles(block, to_hub) ==
    LET c == [comm EXCEPT !.packets_received = @ + 1] IN
    /\ \E verdict \in Verdicts(block) :
          LET h == AfterParse(handler["hub"], verdict, Len(block))
              p == Parsed(block)
          IN \/ /\ verdict = "parsed" /\ Answered(p.command)
                /\ HubSends(h, AnswerTo(p.command), to_hub, c)
                /\ got' = [got EXCEPT !["hub"] = Append(@, p)]
             \/ /\ verdict = "parsed" /\ ~Answered(p.command)
                /\ HubKeepsQuiet(h, to_hub, c)
                /\ got' = [got EXCEPT !["hub"] = Append(@, p)]
             \/ /\ verdict # "parsed"
                /\ HubKeepsQuiet(h, to_hub, [c EXCEPT !.errors = @ + 1])
                /\ UNCHANGED got
    /\ UNCHANGED <<data_ready, faults>>

Taken(s, n) == SubSeq(line[s], 1, n)

Left(s, n) == SubSeq(line[s], n + 1, Len(line[s]))

\* hal_uart_receive() returns what has arrived, up to the size of the buffer.
Arrived(s) == {n \in 1 .. BufferSize : n <= Len(line[s])}

HubReceives == \E n \in Arrived("hub") : HubHandles(Taken("hub", n), Left("hub", n))

\* A test message that hal_uart_receive() makes up: it begins with a letter, and is refused.
HubReceivesTestMessage ==
    /\ comm.packets_received < MaxReceived
    /\ HubKeepsQuiet(handler["hub"], line["hub"],
                     [comm EXCEPT !.packets_received = @ + 1, !.errors = @ + 1])
    /\ UNCHANGED <<data_ready, faults, got>>

\* The ping that a round of comm_task() sends when 10 seconds have passed.
HubHeartbeat ==
    /\ Number(sent["hub"], "PING") < MaxHeartbeats
    /\ HubSends(handler["hub"], "PING", line["hub"], comm)
    /\ UNCHANGED <<data_ready, faults, got>>

\* sensor_task() has finished its first sample.
SensorReady ==
    /\ ~data_ready
    /\ data_ready' = TRUE
    /\ UNCHANGED <<handler, comm, line, faults, sent, got>>

-----------------------------------------------------------------------------
(* The host and the lines.                                                 *)

\* The host calls protocol_create_packet(), which may refuse.
HostSends ==
    /\ Len(sent["host"]) < MaxRequests
    /\ \E command \in Requests, length \in RequestLengths, buffer_size \in HostBufferSizes :
          LET p == Packet(handler["host"], command, length) IN
          /\ Fits(length, buffer_size)
          /\ handler' = [handler EXCEPT !["host"] = AfterCreate(@, length)]
          /\ line' = [line EXCEPT !["hub"] = @ \o Bytes(p)]
          /\ sent' = [sent EXCEPT !["host"] = Append(@, p)]
    /\ UNCHANGED <<comm, data_ready, faults, got>>

\* The host receives a block and parses it.
HostReceives ==
    /\ \E n \in Arrived("host") :
          LET block == Taken("host", n) IN
          /\ \E verdict \in Verdicts(block) :
                /\ handler' = [handler EXCEPT !["host"] = AfterParse(@, verdict, n)]
                /\ got' = IF verdict = "parsed" THEN [got EXCEPT !["host"] = Append(@, Parsed(block))]
                          ELSE got
          /\ line' = [line EXCEPT !["host"] = Left("host", n)]
    /\ UNCHANGED <<comm, data_ready, faults, sent>>

Damaged(s, k) == [line[s] EXCEPT ![k].damaged = TRUE]

WithoutByte(s, k) == SubSeq(line[s], 1, k - 1) \o SubSeq(line[s], k + 1, Len(line[s]))

\* A byte is damaged or lost on its way.
LineFault ==
    /\ faults < MaxFaults
    /\ faults' = faults + 1
    /\ \E s \in Stations : \E k \in DOMAIN line[s] :
          \/ ~line[s][k].damaged /\ line' = [line EXCEPT ![s] = Damaged(s, k)]
          \/ line' = [line EXCEPT ![s] = WithoutByte(s, k)]
    /\ UNCHANGED <<handler, comm, data_ready, sent, got>>

Next ==
    \/ HubReceives \/ HubReceivesTestMessage \/ HubHeartbeat \/ SensorReady
    \/ HostSends \/ HostReceives
    \/ LineFault

Spec == Init /\ [][Next]_vars

-----------------------------------------------------------------------------
(* Properties.                                                             *)

PacketT == [number : Nat, command : Commands, sequence : 0 .. SequenceNumbers - 1, length : Nat]

HandlerT == [sequence_counter : 0 .. SequenceNumbers - 1, packets_sent : Nat, bytes_sent : Nat,
             packets_received : Nat, bytes_received : Nat, crc_errors : Nat]

ByteT == [packet : PacketT, index : Nat, damaged : BOOLEAN]

\* Type correctness: the sequence number is a uint16_t, and what is parsed is a packet of a
\* known command.  The statistics are counts, without bound.
TypeOK ==
    /\ handler \in [Stations -> HandlerT]
    /\ comm \in [packets_sent : Nat, packets_received : Nat, errors : Nat]
    /\ data_ready \in BOOLEAN
    /\ line \in [Stations -> Seq(ByteT)]
    /\ faults \in 0 .. MaxFaults
    /\ sent \in [Stations -> Seq(PacketT)]
    /\ got \in [Stations -> Seq(PacketT)]

ToHub == INSTANCE LossyChannel WITH sent <- sent["host"], got <- got["hub"]

ToHost == INSTANCE LossyChannel WITH sent <- sent["hub"], got <- got["host"]

\* Each direction of the line is a channel that may lose packets but neither changes,
\* repeats nor reorders them, however protocol_parse_packet() gets its blocks cut and
\* whatever byte is damaged or lost.
ImplementsChannels == ToHub!Spec /\ ToHost!Spec

\* The two sets of statistics agree: what comm_task() counts as received is what the
\* protocol counts as received and comm_task()'s errors, and it sent what was created.
\* The equations hold of the fields modulo 2^32 too; the inequality is about counts below it.
StatisticsAgree ==
    LET h == handler["hub"] IN
    /\ comm.packets_received = h.packets_received + comm.errors
    /\ h.crc_errors <= comm.errors
    /\ comm.packets_sent = h.packets_sent

\* After a byte of a packet comes its next byte, and after its last byte the first one of
\* the next packet.
Follows(next, b, packets) ==
    IF b.index < Size(b.packet) THEN next = Bytes(b.packet)[b.index + 1]
    ELSE b.packet.number < Len(packets) /\ next = Bytes(packets[b.packet.number + 1])[1]

\* The bytes on a line are those of the packets after the first n, whole and in order: it
\* begins where packet n + 1 begins, ends where the last packet ends, and each byte is
\* followed by the one that was sent after it.
HoldsPacketsAfter(n, packets, bytes) ==
    /\ bytes = <<>> <=> n = Len(packets)
    /\ bytes # <<>> =>
         /\ n < Len(packets) /\ bytes[1] = Bytes(packets[n + 1])[1]
         /\ LET p == packets[Len(packets)] IN bytes[Len(bytes)] = Bytes(p)[Size(p)]
    /\ \A j \in 1 .. Len(bytes) - 1 : Follows(bytes[j + 1], bytes[j], packets)

\* While the lines are sound, comm_task() misses no packet without counting an error,
\* although a block may hold several packets and only one is ever parsed from it.
NothingMissedSilently ==
    faults = 0 /\ comm.errors = 0 => HoldsPacketsAfter(Len(got["hub"]), sent["host"], line["hub"])

\* An answer that the host parses has a request of its own that the hub parsed before:
\* the n-th answer of a kind comes after n requests of that kind.
AnswersHaveRequests ==
    \A request \in {"GET_SENSOR_DATA", "GET_STATUS", "START_OTA"} :
        Number(got["host"], AnswerTo(request)) <= Number(got["hub"], request)

\* A packet that arrives whole, undamaged and alone is parsed, if it has data.  (One
\* without data, such as every PONG, is one byte too short for protocol_parse_packet().)
WholePacketIsParsed ==
    [][\A s \in Stations : \A k \in DOMAIN sent[Peer(s)] :
          LET p == sent[Peer(s)][k] IN
          p.length > 0 /\ line[s] = Bytes(p) \o line'[s] => got'[s] = Append(got[s], p)]_vars
=============================================================================

\* A host that sends two packets to the hub over lines with one fault, in packets of
\* five to seven bytes; sequence numbers wrap after three, and a buffer holds two packets
\* of the host.
CONSTANTS
    Header = 3
    CrcSize = 1
    PingLength = 2
    SensorLength = 2
    StatusLength = 1
    SequenceNumbers = 3
    MaxPacketSize = 2
    BufferSize = 12
    HostBufferSizes = {6, 20}
    Requests = {"PING", "GET_SENSOR_DATA"}
    RequestLengths = {1, 3}
    MaxRequests = 2
    MaxHeartbeats = 1
    MaxReceived = 1
    MaxFaults = 1
SPECIFICATION Spec
CHECK_DEADLOCK FALSE
INVARIANTS TypeOK StatisticsAgree NothingMissedSilently AnswersHaveRequests
PROPERTIES ImplementsChannels WholePacketIsParsed

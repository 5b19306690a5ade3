SPECIFICATION FairSpec
CONSTANTS
    Packet = {1, 2, 3}
    NoPacket = 0
    Receivers = {1, 2}
    MaxPackets = 3
    Sizes = {2, 3}
    SocketSize = 1
    BufferSize = 1
    MaxRead = 1
    Threshold = 1
    AppCalls = {"srt", "strm", "record", "enable", "disable", "close", "setCallback", "readRaw", "clear", "setFIFOSize"}
    CallbackCalls = {"command", "read"}
INVARIANTS TypeOK OneReceiver ReceiverHasFifo
PROPERTIES NoSilentLoss FifoIsQueue CallsReturn
CHECK_DEADLOCK FALSE

SPECIFICATION Spec
CONSTANTS
    Packet = {1, 2, 3, 4}
    NoPacket = 0
    Receivers = {1}
    MaxPackets = 4
    Sizes = {2}
    SocketSize = 1
    BufferSize = 1
    MaxRead = 1
    Threshold = 1
    AppCalls = {"strm", "read"}
    CallbackCalls = {}
PROPERTY BufferFullWaits
CHECK_DEADLOCK FALSE

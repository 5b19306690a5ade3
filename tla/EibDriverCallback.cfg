SPECIFICATION Spec
CONSTANTS
    Packet = {1, 2, 3}
    NoPacket = 0
    Receivers = {1, 2}
    MaxPackets = 3
    Sizes = {2}
    SocketSize = 1
    BufferSize = 1
    MaxRead = 1
    Threshold = 1
    AppCalls = {"enable", "setCallback", "read"}
    CallbackCalls = {"disable"}
INVARIANT CallbackSafe
CHECK_DEADLOCK FALSE

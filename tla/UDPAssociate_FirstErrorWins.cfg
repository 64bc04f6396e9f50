\* Expected violation: FirstErrorWins.
CONSTANTS
    Datagrams <- MCDatagrams
    Packets = {p1}
    PacketLen <- MCPacketLen
    p1 = p1
    p2 = p2
    MaxSend = 2
    MaxRecv = 1
    BufLen <- MCBufLen
    ErrType <- MCErrType
SPECIFICATION Spec
INVARIANT FirstErrorWins
CHECK_DEADLOCK FALSE

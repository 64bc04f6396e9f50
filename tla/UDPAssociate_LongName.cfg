\* One well-formed datagram naming a 251-byte host: the relay crashes
\* instead of forwarding it.
CONSTANTS
    Datagrams <- MCLongName251
    Packets = {p1}
    PacketLen <- MCPacketLen
    p1 = p1
    p2 = p2
    MaxSend = 1
    MaxRecv = 0
    BufLen <- MCBufLenLong
    ErrType <- MCErrType
SPECIFICATION Spec
PROPERTY RelayRefined
CHECK_DEADLOCK FALSE

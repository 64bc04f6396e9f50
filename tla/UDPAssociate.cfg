\* The refinement of UDPRelay (both directions) and session end, with every
\* datagram kind, up to two client datagrams and two distinct network
\* packets.
CONSTANTS
    Datagrams <- MCDatagrams
    Packets = {p1, p2}
    PacketLen <- MCPacketLen
    p1 = p1
    p2 = p2
    MaxSend = 2
    MaxRecv = 2
    BufLen <- MCBufLen
    ErrType <- MCErrType
SPECIFICATION Spec
INVARIANT TypeOK
INVARIANT TrafficCounted
PROPERTY RelayRefined
PROPERTY SessionEnds
\* An idle session blocks in both Reads for ever; that is not an error.
CHECK_DEADLOCK FALSE

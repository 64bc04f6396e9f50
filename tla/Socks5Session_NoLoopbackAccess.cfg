\* Expected violation: with local destinations disallowed, a client that
\* cannot CONNECT to 127.0.0.1 reaches it with a UDP ASSOCIATE datagram.
CONSTANTS
    Localhost <- MCLocalhost
    Nil = Nil
    Requests <- MCRequests
    ResolveTo <- MCResolveTo
    LocalBind <- MCLocalBind
    UDPBindPort = 5353
    Datagrams <- MCDatagrams
    Packets = {p1}
    PacketLen <- MCPacketLen
    p1 = p1
    p2 = p2
    MaxSend = 1
    MaxRecv = 1
    BufLen <- MCBufLen
    ErrType <- MCErrType
SPECIFICATION Spec
INVARIANT NoLoopbackAccess
CHECK_DEADLOCK FALSE

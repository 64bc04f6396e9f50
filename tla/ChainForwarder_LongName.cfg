\* Expected violation: a request naming a 254- or 255-byte host is cut
\* short, since the address length reqFQDNLen[0]+2 is a byte sum.
CONSTANTS
    Localhost = {}
    Nil = Nil
    ClientStreams <- MCClientStreamsLongNames
    UpReplies <- MCUpReplies
    UDPPort = 40000
SPECIFICATION Spec
INVARIANT ForwardedVerbatim
CHECK_DEADLOCK FALSE

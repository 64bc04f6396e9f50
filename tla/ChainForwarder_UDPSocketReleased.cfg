\* Expected violation: the UDP socket created for ASSOCIATE stays open
\* when writing the response to the client fails.
CONSTANTS
    Localhost = {}
    Nil = Nil
    ClientStreams <- MCClientStreams
    UpReplies <- MCUpReplies
    UDPPort = 40000
SPECIFICATION Spec
INVARIANT UDPSocketReleased
CHECK_DEADLOCK FALSE

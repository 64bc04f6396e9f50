\* Every client conversation shape against every upstream reply, with the
\* client and the upstream closing or resetting at any point.
CONSTANTS
    Localhost = {}
    Nil = Nil
    ClientStreams <- MCClientStreams
    UpReplies <- MCUpReplies
    UDPPort = 40000
SPECIFICATION Spec
INVARIANT ForwardedVerbatim
INVARIANT ReplyRelayed
PROPERTY HandshakeCompletes
\* The forwarder returns: a finished handshake is a final state.
CHECK_DEADLOCK FALSE

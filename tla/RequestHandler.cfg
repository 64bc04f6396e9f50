\* Every command to every kind of destination, both policy settings, every
\* resolver, dial and connection outcome.
CONSTANTS
    Localhost <- MCLocalhost
    Nil = Nil
    Requests <- MCRequests
    ResolveTo <- MCResolveTo
    LocalBind <- MCLocalBind
    UDPBindPort = 5353
SPECIFICATION Spec
INVARIANT TypeOK
INVARIANT ReplyMatchesOutcome
INVARIANT RelayOnlyAfterSuccess
INVARIANT NoLoopbackDial
INVARIANT FailuresCounted
\* A handled request is a final state.
CHECK_DEADLOCK FALSE

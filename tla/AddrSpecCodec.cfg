\* The reply and parse halves of the codec over every address kind.
CONSTANTS
    Localhost <- MCLocalhost
    Nil = Nil
    IPs <- MCIPs
    FQDNs <- MCFQDNs
    Ports <- MCPorts
    Replies <- MCReplies
    Trailers <- MCTrailers
SPECIFICATION Spec
INVARIANT ReplyWellFormed
INVARIANT ParseExact

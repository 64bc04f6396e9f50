---------------------------- MODULE RequestHandler ----------------------------
(***************************************************************************)
(* One SOCKS5 request on one accepted connection, after the handshake:     *)
(* NewRequest, then Server.handleRequest of pkg/socks5/request.go --       *)
(* resolve an FQDN, the localhost policy, the switch on the command -- and *)
(* the command handlers handleConnect and handleBind, and handleAssociate  *)
(* up to the point where its pumps start (module UDPAssociate models the   *)
(* pumps).  The resolver, the dialer and the connection are the           *)
(* environment: their outcomes are chosen nondeterministically.  The      *)
(* bidirectional copy after a successful CONNECT (BidiCopy, outside src/)  *)
(* is one step that ends when a side closes.  The counters the handlers    *)
(* increment are module Metrics.                                           *)
(***************************************************************************)
EXTENDS AddrSpecCodec, Metrics, TLC

CONSTANTS
    Requests,     \* the bytes the client may send as its request
    ResolveTo,    \* [name -> set of IPs] the resolver may answer
    LocalBind,    \* target.LocalAddr() of a dialed TCP connection
    UDPBindPort   \* the port ListenUDP is assigned

ASSUME /\ Requests \subseteq Seq(Bytes)
       /\ \A n \in DOMAIN ResolveTo : ResolveTo[n] \subseteq Seq(Bytes)

ConnectCommand == 1
BindCommand == 2
AssociateCommand == 3

\* The outcomes of DialContext, told apart by the text of the error.
DialOutcomes == {"ok", "refused", "networkUnreachable", "other"}

VARIABLES
    wire,        \* the request bytes on the connection
    allowLocal,  \* s.config.AllowLocalDestination
    pc,          \* where the handling goroutine is
    req,         \* the parsed *Request (Nil before NewRequest succeeds)
    conn,        \* the client connection: "open" or "broken"
    replies,     \* the reply messages written to the client, in order
    dialed,      \* the IP the TCP dial connected or tried to connect to, or Nil
    events,      \* history: the environment's answers ("resolveFail", dial outcomes, ...)
    result,      \* the error handleRequest returns (NoErr for nil)
    metrics      \* the process-wide counters (module Metrics)

vars == <<wire, allowLocal, pc, req, conn, replies, dialed, events, result, metrics>>

Init ==
    /\ wire \in Requests
    /\ allowLocal \in BOOLEAN
    /\ pc = "parse"
    /\ req = Nil
    /\ conn = "open"
    /\ replies = <<>>
    /\ dialed = Nil
    /\ events = {}
    /\ result = NoErr
    /\ metrics = NoMetrics

-----------------------------------------------------------------------------
\* sendReply(conn, code, addr) followed by the handler's return: the reply
\* reaches the client while the connection is open; otherwise the handler
\* returns "failed to send reply" instead of err.
ReplyAndReturn(code, addr, err) ==
    IF conn = "open"
    THEN /\ replies' = Append(replies, SendReply(code, addr).msg)
         /\ result' = err
    ELSE /\ result' = "SendReplyFail"
         /\ UNCHANGED replies

\* NewRequest(conn).  A parse error ends the connection without a reply
\* (the caller closes it).
Parse ==
    /\ pc = "parse"
    /\ LET r == NewRequest(wire)
       IN IF r.err # NoErr
          THEN /\ pc' = "done" /\ result' = r.err
               /\ UNCHANGED req
          ELSE /\ pc' = "resolve" /\ req' = r.req
               /\ UNCHANGED result
    /\ UNCHANGED <<wire, allowLocal, conn, replies, dialed, events, metrics>>

\* Mutant of Resolve: the resolved IP is written into a copy of DestAddr
\* (dest := *req.DestAddr), so the request keeps only its FQDN.
ResolveIntoCopy ==
    /\ pc = "resolve"
    /\ IF req.dest.fqdn = <<>>
       THEN /\ pc' = "policy"
            /\ UNCHANGED <<replies, events, result, metrics>>
       ELSE \/ /\ events' = events \cup {"resolveFail"}
               /\ metrics' = AddUint64(metrics, "Socks5DNSResolveErrors", 1)
               /\ pc' = "done"
               /\ ReplyAndReturn(HostUnreachable, Nil, "ResolveFail")
            \/ /\ ResolveTo[req.dest.fqdn] # {}
               /\ pc' = "policy"
               /\ UNCHANGED <<replies, events, result, metrics>>
    /\ UNCHANGED <<wire, allowLocal, req, conn, dialed>>

\* Lines 114-127: a request for an FQDN is resolved; the IP is stored into
\* req.DestAddr itself (dest is the same pointer).  A failed resolution
\* replies hostUnreachable.
Resolve ==
    /\ pc = "resolve"
    /\ IF req.dest.fqdn = <<>>
       THEN /\ pc' = "policy"
            /\ UNCHANGED <<req, replies, events, result, metrics>>
       ELSE \/ /\ events' = events \cup {"resolveFail"}
               /\ metrics' = AddUint64(metrics, "Socks5DNSResolveErrors", 1)
               /\ pc' = "done"
               /\ ReplyAndReturn(HostUnreachable, Nil, "ResolveFail")
               /\ UNCHANGED req
            \/ \E ip \in ResolveTo[req.dest.fqdn] :
                  /\ req' = [req EXCEPT !.dest.ip = ip]
                  /\ pc' = "policy"
                  /\ UNCHANGED <<replies, events, result, metrics>>
    /\ UNCHANGED <<wire, allowLocal, conn, dialed>>

\* Lines 129-148: the localhost policy (no reply when it denies), then the
\* switch on the command; an unknown command replies commandNotSupported.
Dispatch ==
    /\ pc = "policy"
    /\ IF ~allowLocal /\ IsLocalhostDest(req.dest)
       THEN /\ pc' = "done" /\ result' = "LocalDenied"
            /\ events' = events \cup {"denied"}
            /\ UNCHANGED <<replies, metrics>>
       ELSE CASE req.command = ConnectCommand ->
                   /\ pc' = "connect" /\ UNCHANGED <<replies, result, events, metrics>>
              [] req.command = BindCommand ->
                   /\ pc' = "bind" /\ UNCHANGED <<replies, result, events, metrics>>
              [] req.command = AssociateCommand ->
                   /\ pc' = "associate" /\ UNCHANGED <<replies, result, events, metrics>>
              [] OTHER ->
                   /\ pc' = "done"
                   /\ metrics' = AddUint64(metrics, "Socks5UnsupportedCommandErrors", 1)
                   /\ ReplyAndReturn(CommandNotSupported, Nil, "UnsupportedCommand")
                   /\ UNCHANGED events
    /\ UNCHANGED <<wire, allowLocal, req, conn, dialed>>

\* Mutant of DialReplyCode: "network is unreachable" is reported as
\* hostUnreachable.
DialReplyCodeNoNetUnreach(o) ==
    IF o = "refused" THEN ConnectionRefused ELSE HostUnreachable

\* Lines 156-167: the reply code chosen from the dial error's text.
DialReplyCode(o) ==
    CASE o = "refused" -> ConnectionRefused
      [] o = "networkUnreachable" -> NetworkUnreachable
      [] OTHER -> HostUnreachable

\* Mutant of DialCounter: a refused dial is counted as host-unreachable.
DialCounterNoRefused(o) ==
    IF o = "networkUnreachable" THEN "Socks5NetworkUnreachableErrors"
    ELSE "Socks5HostUnreachableErrors"

\* Lines 158-167: the counter of the same classification.
DialCounter(o) ==
    CASE o = "refused" -> "Socks5ConnectionRefusedErrors"
      [] o = "networkUnreachable" -> "Socks5NetworkUnreachableErrors"
      [] OTHER -> "Socks5HostUnreachableErrors"

\* The IPs a dial of DialTarget(a) may reach: the IP itself, or whatever
\* the system resolver answers for a name.
DialReaches(a) ==
    IF a.ip # <<>> THEN {a.ip}
    ELSE IF a.fqdn \in DOMAIN ResolveTo THEN ResolveTo[a.fqdn] ELSE {}

\* Mutant of Connect: the error of the success reply is not checked.
ConnectIgnoreReplyError ==
    /\ pc = "connect"
    /\ \E o \in DialOutcomes, ip \in DialReaches(req.dest) :
          /\ dialed' = ip
          /\ events' = events \cup {o}
          /\ IF o # "ok"
             THEN /\ pc' = "done"
                  /\ metrics' = AddUint64(metrics, DialCounter(o), 1)
                  /\ ReplyAndReturn(DialReplyCode(o), Nil, "DialFail")
             ELSE /\ pc' = "relay"
                  /\ UNCHANGED metrics
                  /\ replies' = IF conn = "open"
                                THEN Append(replies, SendReply(SuccessReply, LocalBind).msg)
                                ELSE replies
                  /\ UNCHANGED result
    /\ UNCHANGED <<wire, allowLocal, req, conn>>

\* handleConnect (lines 152-184): DialContext to req.DestAddr.Address();
\* a failure is counted and replies the classified code; a success replies
\* success with the local address and goes on to relay, unless that reply
\* fails, which is counted as a handshake error.
Connect ==
    /\ pc = "connect"
    /\ \E o \in DialOutcomes, ip \in DialReaches(req.dest) :
          /\ dialed' = ip
          /\ events' = events \cup {o}
          /\ pc' = IF o = "ok" /\ conn = "open" THEN "relay" ELSE "done"
          /\ IF o # "ok"
             THEN /\ metrics' = AddUint64(metrics, DialCounter(o), 1)
                  /\ ReplyAndReturn(DialReplyCode(o), Nil, "DialFail")
             ELSE IF conn = "open"
                  THEN /\ replies' = Append(replies, SendReply(SuccessReply, LocalBind).msg)
                       /\ UNCHANGED <<result, metrics>>
                  ELSE /\ result' = "SendReplyFail"
                       /\ metrics' = AddUint64(metrics, "Socks5HandshakeErrors", 1)
                       /\ UNCHANGED replies
    /\ UNCHANGED <<wire, allowLocal, req, conn>>

\* BidiCopy(conn, target) until either side closes; it is not cancellable.
RelayEnd ==
    /\ pc = "relay"
    /\ pc' = "done" /\ result' = "RelayClosed"
    /\ UNCHANGED <<wire, allowLocal, req, conn, replies, dialed, events, metrics>>

\* handleBind (lines 187-194): always counted and commandNotSupported; nil
\* on success, a failed reply is also a handshake error.
Bind ==
    /\ pc = "bind"
    /\ pc' = "done"
    /\ LET m == AddUint64(metrics, "Socks5UnsupportedCommandErrors", 1)
       IN metrics' = IF conn = "open" THEN m ELSE AddUint64(m, "Socks5HandshakeErrors", 1)
    /\ ReplyAndReturn(CommandNotSupported, Nil, NoErr)
    /\ UNCHANGED <<wire, allowLocal, req, conn, dialed, events>>

\* handleAssociate up to its pumps (lines 197-229): ListenUDP may fail
\* (counted, no reply); otherwise success with 0.0.0.0:<port>, then the
\* pumps run; a failed reply is counted as a handshake error.
Associate ==
    /\ pc = "associate"
    /\ \/ /\ pc' = "done" /\ result' = "ListenFail"
          /\ events' = events \cup {"listenFail"}
          /\ metrics' = AddUint64(metrics, "Socks5UDPAssociateErrors", 1)
          /\ UNCHANGED replies
       \/ /\ pc' = IF conn = "open" THEN "udprelay" ELSE "done"
          /\ UNCHANGED events
          /\ IF conn = "open"
             THEN /\ replies' = Append(replies, SendReply(SuccessReply,
                                   [fqdn |-> <<>>, ip |-> <<0, 0, 0, 0>>, port |-> UDPBindPort]).msg)
                  /\ UNCHANGED <<result, metrics>>
             ELSE /\ result' = "SendReplyFail"
                  /\ metrics' = AddUint64(metrics, "Socks5HandshakeErrors", 1)
                  /\ UNCHANGED replies
    /\ UNCHANGED <<wire, allowLocal, req, conn, dialed>>

\* The client's connection breaks; later writes to it fail.
ConnBreak ==
    /\ conn = "open" /\ pc # "done"
    /\ conn' = "broken"
    /\ UNCHANGED <<wire, allowLocal, pc, req, replies, dialed, events, result, metrics>>

Next == Parse \/ Resolve \/ Dispatch \/ Connect \/ RelayEnd \/ Bind \/ Associate
        \/ ConnBreak

Spec == Init /\ [][Next]_vars

-----------------------------------------------------------------------------
TypeOK ==
    /\ wire \in Requests /\ allowLocal \in BOOLEAN
    /\ pc \in {"parse", "resolve", "policy", "connect", "bind", "associate",
               "relay", "udprelay", "done"}
    /\ req = Nil \/ req.version = Socks5Version
    /\ conn \in {"open", "broken"}
    /\ replies \in Seq(Seq(Bytes))
    /\ dialed = Nil \/ dialed \in Seq(Bytes)
    /\ metrics \in [Counters -> Nat]

ReplyCode(m) == m[2]

(* Spec 4.3, 4.4 and 7: a request gets at most one reply, and its code is  *)
(* the one the outcome calls for -- hostUnreachable when resolution        *)
(* failed, commandNotSupported for BIND and unknown commands, the          *)
(* classified code of a failed dial, success otherwise -- and a request    *)
(* denied by the localhost policy gets none.                               *)
ReplyMatchesOutcome ==
    /\ Len(replies) <= 1
    /\ "denied" \in events => replies = <<>>
    /\ replies # <<>> =>
          ReplyCode(replies[1]) =
             CASE "resolveFail" \in events -> HostUnreachable
               [] req.command \notin {ConnectCommand, AssociateCommand} -> CommandNotSupported
               [] "refused" \in events -> ConnectionRefused
               [] "networkUnreachable" \in events -> NetworkUnreachable
               [] "other" \in events -> HostUnreachable
               [] OTHER -> SuccessReply

\* The error classes of spec section 7 that are counted, and their counters.
ClassCounter ==
    ("resolveFail" :> "Socks5DNSResolveErrors")
    @@ ("refused" :> "Socks5ConnectionRefusedErrors")
    @@ ("networkUnreachable" :> "Socks5NetworkUnreachableErrors")
    @@ ("other" :> "Socks5HostUnreachableErrors")
    @@ ("listenFail" :> "Socks5UDPAssociateErrors")

(* Spec 7 and the refused-CONNECT scenario of 8: once the request is       *)
(* handled, every failure the handler classified was counted exactly once, *)
(* under the counter of its own class and whether or not its reply could  *)
(* still be written; BIND and unknown commands that reached the dispatch  *)
(* were counted as unsupported; no counter moved twice, and a request the *)
(* policy denied or that relayed counted no error of these classes.        *)
FailuresCounted ==
    pc = "done" =>
        /\ \A e \in DOMAIN ClassCounter :
              metrics[ClassCounter[e]] = Count(e \in events)
        /\ metrics["Socks5UnsupportedCommandErrors"] =
              Count(/\ req # Nil
                    /\ req.command \notin {ConnectCommand, AssociateCommand}
                    /\ events \cap {"resolveFail", "denied"} = {})
        /\ \A c \in Counters : metrics[c] <= 1

(* Data is relayed only after the client was told success: a TCP relay or *)
(* a UDP association runs only when exactly one reply, success, reached    *)
(* the client, so the client never takes relayed bytes for a reply.        *)
RelayOnlyAfterSuccess ==
    pc \in {"relay", "udprelay"} =>
        /\ Len(replies) = 1
        /\ ReplyCode(replies[1]) = SuccessReply

(* Spec 4.3: when local destinations are not allowed, no TCP connection is *)
(* made to a loopback address, whether the request named it by IP, by      *)
(* "localhost" or by a name that resolves to it.                           *)
NoLoopbackDial ==
    ~allowLocal /\ dialed # Nil => ~IsLoopback(dialed)
=============================================================================

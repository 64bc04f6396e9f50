----------------------------- MODULE Socks5Session -----------------------------
(***************************************************************************)
(* One client connection through the whole server: Server.handleRequest    *)
(* (module RequestHandler) and, for an accepted ASSOCIATE, the relay       *)
(* handleAssociate runs (module UDPAssociate), over the one control        *)
(* connection both use.                                                    *)
(*                                                                         *)
(* The connection is UDPAssociate's tunnel: a reset is what RequestHandler *)
(* sees as a broken connection.  RequestHandler's Associate action is      *)
(* handleAssociate's setup (lines 197-229); when it succeeds the relay     *)
(* starts with its socket open and the reply sent, and UDPAssociate's own  *)
(* pumps and the client's datagrams take over.  Both increment the same   *)
(* process-wide counters, the one variable the two modules share.          *)
(***************************************************************************)
EXTENDS Naturals, Sequences

CONSTANTS Localhost, Nil, Requests, ResolveTo, LocalBind, UDPBindPort,
          Datagrams, Packets, PacketLen, MaxSend, MaxRecv, BufLen, ErrType

VARIABLES
    wire, allowLocal, pc, req, replies, dialed, events, rhResult,
    phase, udpOpen, tunnel, inTunnel, nSent, tunnelLog, buf, written,
    udpQueue, nRecv, toClient, outPc, outErr, inPc, inPkt, inErr,
    udpErr, storeLog, uaResult, panicked, metrics

rhVars == <<wire, allowLocal, pc, req, replies, dialed, events, rhResult>>
uaVars == <<phase, udpOpen, tunnel, inTunnel, nSent, tunnelLog, buf, written,
            udpQueue, nRecv, toClient, outPc, outErr, inPc, inPkt, inErr,
            udpErr, storeLog, uaResult, panicked>>
vars == <<rhVars, uaVars, metrics>>

RH == INSTANCE RequestHandler
      WITH conn <- IF tunnel = "reset" THEN "broken" ELSE "open",
           result <- rhResult
UA == INSTANCE UDPAssociate WITH result <- uaResult

Init == UA!Init /\ RH!Init

\* The request is handled; the relay has not started.  (The relay's state
\* is fixed first: RequestHandler's conn is a function of tunnel.)
Handle ==
    /\ UNCHANGED uaVars
    /\ \/ RH!Parse \/ RH!Resolve \/ RH!Dispatch \/ RH!Connect
       \/ RH!RelayEnd \/ RH!Bind

\* handleAssociate's setup; on success the relay runs with the socket open.
StartRelay ==
    /\ UNCHANGED tunnel
    /\ RH!Associate
    /\ IF pc' = "udprelay"
       THEN /\ phase' = "running" /\ udpOpen' = TRUE
            /\ UNCHANGED <<inTunnel, nSent, tunnelLog, buf, written,
                           udpQueue, nRecv, toClient, outPc, outErr, inPc, inPkt,
                           inErr, udpErr, storeLog, uaResult, panicked>>
       ELSE UNCHANGED uaVars

\* The two pumps, the handler's return and the UDP traffic of the session.
Pumps ==
    /\ pc = "udprelay"
    /\ \/ UA!Outbound \/ UA!Inbound \/ UA!Return
       \/ \E d \in Datagrams : UA!ClientSend(d)
       \/ \E p \in Packets : UA!NetDeliver(p)
    /\ UNCHANGED rhVars

\* The client closes or resets the connection at any time.
Client ==
    /\ UA!ClientClose \/ UA!ClientReset
    /\ UNCHANGED rhVars

Next == Handle \/ StartRelay \/ Pumps \/ Client

Spec == Init /\ [][Next]_vars

-----------------------------------------------------------------------------
\* A UDP destination on this host: a loopback address or the name
\* "localhost", as isLocalhostDest tells them apart.
LoopbackDst(dst) ==
    \/ dst.atyp \in {1, 4} /\ RH!IsLoopback(dst.addr)
    \/ dst.atyp = 3 /\ dst.addr = Localhost

(* Spec 4.3: when local destinations are not allowed, nothing the session *)
(* sends goes to this host's loopback: neither the TCP dial of a CONNECT  *)
(* nor any datagram the ASSOCIATE relay writes to the network.            *)
NoLoopbackAccess ==
    ~allowLocal =>
        /\ dialed # Nil => ~RH!IsLoopback(dialed)
        /\ \A k \in DOMAIN written : ~LoopbackDst(written[k].dst)
=============================================================================

---------------------------- MODULE ChainForwarder ----------------------------
(***************************************************************************)
(* The chain forwarder of pkg/socks5/request.go: proxySocks5AuthReq        *)
(* (lines 374-411) followed, when it returns nil, by proxySocks5ConnReq    *)
(* (lines 413-513), between a downstream client connection (conn) and an  *)
(* upstream SOCKS5 server connection (proxyConn).                          *)
(*                                                                         *)
(* A stream is the bytes its writer has sent and the reader has not yet    *)
(* consumed, plus whether the writer has closed it (EOF).  io.ReadFull of  *)
(* k bytes completes when k bytes are there, fails when fewer are there    *)
(* and the stream is closed, and blocks otherwise.  The client has sent   *)
(* its whole conversation up front; it may close or reset.  The upstream  *)
(* is a SOCKS5 server: it answers a complete method request with <<5, 0>> *)
(* and a complete connection request, as NewRequest delimits it, with one *)
(* reply from UpReplies; it closes on a request NewRequest rejects.        *)
(***************************************************************************)
EXTENDS AddrSpecCodec

CONSTANTS
    ClientStreams,  \* the byte sequences the client may send
    UpReplies,      \* the connection replies the upstream may send
    UDPPort         \* the port net.ListenUDP("udp", 0.0.0.0:0) is given

ASSUME /\ ClientStreams \subseteq Seq(Bytes)
       /\ UpReplies \subseteq Seq(Bytes)
       /\ UDPPort \in 1..65535

AssociateCommand == 3

VARIABLES
    pc,         \* where the forwarding goroutine is
    cliStream,  \* history: everything the client sent
    cliOut,     \* client bytes not yet read by the forwarder
    cliEOF,     \* the client closed or reset: reads of conn see EOF
    cliBroken,  \* the client reset: writes to conn fail
    toCli,      \* every byte written to conn
    toUp,       \* every byte written to proxyConn
    upState,    \* the upstream server: "auth", "req" or "done"
    upStream,   \* history: everything the upstream sent
    upOut,      \* upstream bytes not yet read by the forwarder
    upEOF,      \* the upstream closed or reset
    upBroken,   \* the upstream reset: writes to proxyConn fail
    cmd,        \* connReq[1]
    msg,        \* the message read and not yet written on
    udp,        \* the forwarder's UDP socket: "none" or "open"
    result      \* the error returned (NoErr for nil)

vars == <<pc, cliStream, cliOut, cliEOF, cliBroken, toCli, toUp, upState,
          upStream, upOut, upEOF, upBroken, cmd, msg, udp, result>>
fwdVars == <<pc, cliOut, toCli, toUp, cmd, msg, udp, result>>
envVars == <<cliStream, cliEOF, cliBroken, upState, upStream, upEOF, upBroken>>

-----------------------------------------------------------------------------
(* The framed reads.  The result is [status, msg, used]: "ok" with the     *)
(* bytes read; "short" when the stream holds too few bytes; otherwise the  *)
(* protocol error that returns at once.                                    *)

Read(s, n) == [status |-> "ok", msg |-> SubSeq(s, 1, n), used |-> n]
Short(s) == [status |-> "short", msg |-> <<>>, used |-> Len(s)]
Reject(e, n) == [status |-> e, msg |-> <<>>, used |-> n]

\* proxySocks5AuthReq's reads: version (checked at once), nMethods, methods.
ReadAuthReq(s) ==
    IF Len(s) < 1 THEN Short(s)
    ELSE IF s[1] # Socks5Version THEN Reject("UnsupportedVersion", 1)
    ELSE IF Len(s) < 2 \/ Len(s) < 2 + s[2] THEN Short(s)
    ELSE Read(s, 2 + s[2])

\* Mutant of ReadFramed: the FQDN length byte is read but not appended.
ReadFramedNoLenByte(s) ==
    IF Len(s) < 4 THEN Short(s)
    ELSE IF s[4] \notin {IPv4Addr, FQDNAddr, IPv6Addr}
         THEN Reject("UnsupportedAddrType", 4)
    ELSE IF s[4] = FQDNAddr /\ Len(s) < 5 THEN Short(s)
    ELSE LET off == IF s[4] = FQDNAddr THEN 5 ELSE 4
             n == CASE s[4] = IPv4Addr -> 6
                    [] s[4] = IPv6Addr -> 18
                    [] OTHER -> (s[5] + 2) % 256
         IN IF Len(s) < off + n THEN Short(s)
            ELSE [status |-> "ok", used |-> off + n,
                  msg |-> SubSeq(s, 1, 4) \o SubSeq(s, off + 1, off + n)]

\* The 4-byte header, the FQDN length byte, and the address and port, of
\* length 6, 18 or reqFQDNLen[0]+2 -- a byte sum, so it wraps at 256.
\* proxySocks5ConnReq reads the request (lines 416-447) and the response
\* (lines 451-479) this way.
ReadFramed(s) ==
    IF Len(s) < 4 THEN Short(s)
    ELSE IF s[4] \notin {IPv4Addr, FQDNAddr, IPv6Addr}
         THEN Reject("UnsupportedAddrType", 4)
    ELSE IF s[4] = FQDNAddr /\ Len(s) < 5 THEN Short(s)
    ELSE LET off == IF s[4] = FQDNAddr THEN 5 ELSE 4
             n == CASE s[4] = IPv4Addr -> 6
                    [] s[4] = IPv6Addr -> 18
                    [] OTHER -> (s[5] + 2) % 256
         IN IF Len(s) < off + n THEN Short(s) ELSE Read(s, off + n)

\* Mutant of RewritePort: the port is written one byte too early.
RewritePortOffByOne(m, port) ==
    [m EXCEPT ![Len(m) - 2] = (port \div 256) % 256, ![Len(m) - 1] = port % 256]

\* connResp[lenResp-2] = byte(udpPort >> 8); connResp[lenResp-1] = byte(udpPort)
RewritePort(m, port) ==
    [m EXCEPT ![Len(m) - 1] = (port \div 256) % 256, ![Len(m)] = port % 256]

-----------------------------------------------------------------------------
Init ==
    /\ pc = "authRead"
    /\ cliStream \in ClientStreams
    /\ cliOut = cliStream
    /\ cliEOF = FALSE /\ cliBroken = FALSE
    /\ toCli = <<>> /\ toUp = <<>>
    /\ upState = "auth" /\ upStream = <<>> /\ upOut = <<>>
    /\ upEOF = FALSE /\ upBroken = FALSE
    /\ cmd = 0 /\ msg = <<>> /\ udp = "none" /\ result = NoErr

\* One io.ReadFull-driven read r of the stream in, closed when eof: blocks
\* while r is short and the stream open; otherwise consumes r.used bytes
\* and goes on to next, or returns r's error (a short read at EOF fails).
ReadStep(r, in, eof, next) ==
    /\ r.status # "short" \/ eof
    /\ in' = SubSeq(in, r.used + 1, Len(in))
    /\ msg' = r.msg
    /\ IF r.status = "ok"
       THEN pc' = next /\ UNCHANGED result
       ELSE pc' = "done" /\ result' = IF r.status = "short" THEN "ShortRead" ELSE r.status

\* One Write of msg to a connection; it fails once the peer has reset.
WriteStep(broken, out, err, next) ==
    IF broken THEN pc' = "done" /\ result' = err /\ UNCHANGED out
    ELSE out' = out \o msg /\ pc' = next /\ UNCHANGED result

AuthRead ==
    /\ pc = "authRead"
    /\ ReadStep(ReadAuthReq(cliOut), cliOut, cliEOF, "authWrite")
    /\ UNCHANGED <<envVars, toCli, toUp, upOut, cmd, udp>>

AuthWrite ==
    /\ pc = "authWrite"
    /\ WriteStep(upBroken, toUp, "UpWriteFail", "authRespRead")
    /\ UNCHANGED <<envVars, cliOut, toCli, upOut, cmd, msg, udp>>

\* Mutant of AuthRespRead: the method reply is taken to be 3 bytes long.
AuthRespReadThreeBytes ==
    /\ pc = "authRespRead"
    /\ ReadStep(IF Len(upOut) >= 3 THEN Read(upOut, 3) ELSE Short(upOut),
                upOut, upEOF, "authRespWrite")
    /\ UNCHANGED <<envVars, cliOut, toCli, toUp, cmd, udp>>

\* authResp := make([]byte, 2); io.ReadFull(proxyConn, authResp)
AuthRespRead ==
    /\ pc = "authRespRead"
    /\ ReadStep(IF Len(upOut) >= 2 THEN Read(upOut, 2) ELSE Short(upOut),
                upOut, upEOF, "authRespWrite")
    /\ UNCHANGED <<envVars, cliOut, toCli, toUp, cmd, udp>>

\* proxySocks5AuthReq returns nil and its caller goes on with
\* proxySocks5ConnReq.
AuthRespWrite ==
    /\ pc = "authRespWrite"
    /\ WriteStep(cliBroken, toCli, "CliWriteFail", "connRead")
    /\ UNCHANGED <<envVars, cliOut, toUp, upOut, cmd, msg, udp>>

ConnRead ==
    /\ pc = "connRead"
    /\ LET r == ReadFramed(cliOut)
       IN /\ ReadStep(r, cliOut, cliEOF, "connWrite")
          /\ cmd' = IF r.status = "ok" THEN r.msg[2] ELSE cmd
    /\ UNCHANGED <<envVars, toCli, toUp, upOut, udp>>

ConnWrite ==
    /\ pc = "connWrite"
    /\ WriteStep(upBroken, toUp, "UpWriteFail", "connRespRead")
    /\ UNCHANGED <<envVars, cliOut, toCli, upOut, cmd, msg, udp>>

ConnRespRead ==
    /\ pc = "connRespRead"
    /\ ReadStep(ReadFramed(upOut), upOut, upEOF,
                IF cmd = AssociateCommand THEN "listen" ELSE "connRespWrite")
    /\ UNCHANGED <<envVars, cliOut, toCli, toUp, cmd, udp>>

\* For ASSOCIATE (lines 482-506): ListenUDP may fail; otherwise the socket
\* is open and the response's port is rewritten.  SplitHostPort and Atoi
\* of the socket's own local address do not fail.
Listen ==
    /\ pc = "listen"
    /\ \/ pc' = "done" /\ result' = "ListenFail" /\ UNCHANGED <<msg, udp>>
       \/ /\ udp' = "open" /\ msg' = RewritePort(msg, UDPPort)
          /\ pc' = "connRespWrite" /\ UNCHANGED result
    /\ UNCHANGED <<envVars, cliOut, toCli, toUp, upOut, cmd>>

\* conn.Write(connResp) (lines 508-512): on failure the error is returned
\* and udpConn is not.
ConnRespWrite ==
    /\ pc = "connRespWrite"
    /\ WriteStep(cliBroken, toCli, "CliWriteFail", "done")
    /\ UNCHANGED <<envVars, cliOut, toUp, upOut, cmd, msg, udp>>

Forwarder == AuthRead \/ AuthWrite \/ AuthRespRead \/ AuthRespWrite
             \/ ConnRead \/ ConnWrite \/ ConnRespRead \/ Listen \/ ConnRespWrite

-----------------------------------------------------------------------------
(* The environment.                                                        *)

\* The bytes of toUp after the method request.
UpRequestBytes == SubSeq(toUp, 3 + toUp[2], Len(toUp))

UpAuth ==
    /\ upState = "auth" /\ ~upEOF
    /\ Len(toUp) >= 2 /\ Len(toUp) >= 2 + toUp[2]
    /\ upState' = "req"
    /\ upStream' = upStream \o <<Socks5Version, 0>>
    /\ upOut' = upOut \o <<Socks5Version, 0>>
    /\ UNCHANGED <<fwdVars, cliStream, cliEOF, cliBroken, upEOF, upBroken>>

\* NewRequest on what has arrived: a reply when it parses, a close when it
\* is rejected, nothing while it is short.
UpReply ==
    /\ upState = "req" /\ ~upEOF
    /\ LET r == NewRequest(UpRequestBytes)
       IN \/ /\ r.err = NoErr
             /\ \E m \in UpReplies : upStream' = upStream \o m /\ upOut' = upOut \o m
             /\ UNCHANGED upEOF
          \/ /\ r.err \notin {NoErr, "ShortRead"}
             /\ upEOF' = TRUE /\ UNCHANGED <<upStream, upOut>>
    /\ upState' = "done"
    /\ UNCHANGED <<fwdVars, cliStream, cliEOF, cliBroken, upBroken>>

Upstream == UpAuth \/ UpReply

ClientClose ==
    /\ ~cliEOF /\ cliEOF' = TRUE
    /\ UNCHANGED <<fwdVars, cliStream, cliBroken, upState, upStream, upOut, upEOF, upBroken>>

ClientReset ==
    /\ ~cliBroken /\ cliBroken' = TRUE /\ cliEOF' = TRUE
    /\ UNCHANGED <<fwdVars, cliStream, upState, upStream, upOut, upEOF, upBroken>>

UpReset ==
    /\ ~upBroken /\ upBroken' = TRUE /\ upEOF' = TRUE
    /\ UNCHANGED <<fwdVars, cliStream, cliEOF, cliBroken, upState, upStream, upOut>>

Next == Forwarder \/ Upstream \/ ClientClose \/ ClientReset \/ UpReset

\* The forwarder goroutine runs whenever it is not blocked, and the
\* upstream server answers every complete request; the client and the
\* network may never close or reset.
Fairness == WF_vars(Forwarder) /\ WF_vars(Upstream)

Spec == Init /\ [][Next]_vars /\ Fairness

-----------------------------------------------------------------------------
\* The first k bytes of s, or all of s when it is shorter.
Prefix(s, k) == SubSeq(s, 1, IF k < Len(s) THEN k ELSE Len(s))

(* The spec's framing (section 6) of the client's conversation: the length *)
(* of the method request, and of the connection request after it as the   *)
(* address codec delimits it (0 when it does not parse).                   *)
AuthLen(s) == IF Len(s) >= 2 THEN 2 + s[2] ELSE 0
ReqLen(s) ==
    LET rest == SubSeq(s, AuthLen(s) + 1, Len(s))
        a == ReadAddrSpec(SubSeq(rest, 4, Len(rest)))
    IN IF Len(rest) >= 3 /\ a.err = NoErr THEN 3 + a.used ELSE 0

(* Spec 4.6: the forwarder replays the client's method request and then   *)
(* its connection request verbatim: at every moment the upstream has      *)
(* received exactly nothing, the whole method request, or the method      *)
(* request followed by the whole connection request, byte for byte.       *)
ForwardedVerbatim ==
    toUp \in {Prefix(cliStream, k) :
                k \in {0, AuthLen(cliStream), AuthLen(cliStream) + ReqLen(cliStream)}}

(* Spec 4.6: the client receives the upstream's method reply and then its *)
(* connection reply unchanged, except that for ASSOCIATE the last two     *)
(* bytes, the port, are the forwarder's own UDP port.                     *)
ReplyRelayed ==
    LET authReply == Prefix(upStream, 2)
        reply == SubSeq(upStream, 3, Len(upStream))
        isAssoc == Len(cliStream) >= AuthLen(cliStream) + 2
                   /\ cliStream[AuthLen(cliStream) + 2] = AssociateCommand
        expected == IF isAssoc
                    THEN SubSeq(reply, 1, Len(reply) - 2) \o <<UDPPort \div 256, UDPPort % 256>>
                    ELSE reply
    IN toCli \in {<<>>, authReply, authReply \o expected}

(* The client's conversation is complete: a method request and a          *)
(* connection request the address codec accepts.                          *)
ClientComplete(s) == AuthLen(s) > 0 /\ Len(s) >= AuthLen(s) /\ ReqLen(s) > 0

(* The connection request names no host longer than 253 bytes, the       *)
(* longest the forwarder's byte-sum framing (line 434) carries whole;     *)
(* longer names are the finding of ChainForwarder_LongName.cfg.           *)
NameFits(s) ==
    LET r == AuthLen(s)
    IN Len(s) >= r + 5 /\ s[r + 4] = 3 => s[r + 5] <= 253

(* A complete conversation from the client whose name fits the framing is *)
(* answered: the forwarder returns, whatever the client, the network and  *)
(* the upstream do.                                                       *)
HandshakeCompletes ==
    ClientComplete(cliStream) /\ NameFits(cliStream) => <>(pc = "done")

(* A failed handshake leaves nothing open: when proxySocks5ConnReq returns *)
(* an error, the UDP socket it created for ASSOCIATE is closed, as its    *)
(* caller gets no handle to close it.                                     *)
UDPSocketReleased == pc = "done" /\ result # NoErr => udp # "open"
=============================================================================

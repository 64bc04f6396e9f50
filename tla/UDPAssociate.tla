----------------------------- MODULE UDPAssociate -----------------------------
(***************************************************************************)
(* Server.handleAssociate of pkg/socks5/request.go: one UDP ASSOCIATE      *)
(* session.  The handler opens an ephemeral UDP socket, replies success,   *)
(* and then runs two goroutines that share the socket, the wrapped tunnel  *)
(* (the control connection) and the single-slot error box udpErr           *)
(* (an atomic.Value):                                                      *)
(*   - the outbound pump reads framed datagrams from the tunnel into one   *)
(*     reused 64 KiB buffer, validates the SOCKS5 UDP header and writes    *)
(*     the payload to the destination; on any error it stores the error,  *)
(*     closes the socket (deferred) and ends;                              *)
(*   - the inbound pump reads datagrams from the socket and writes them    *)
(*     verbatim into the tunnel; on error it stores the error only if the  *)
(*     slot is still empty (Load, then Store: two separate steps).         *)
(* The handler waits for both (WaitGroup) and returns udpErr.Load().(error)*)
(*                                                                         *)
(* Bytes are kept as numbers because the header checks and the slicing     *)
(* that follows them are what is being checked.  The tunnel framing        *)
(* (WrapUDPAssociateTunnel) is outside src/: a tunnel Read yields one      *)
(* whole datagram.  Metrics counters and debug logging are left out.       *)
(***************************************************************************)
EXTENDS Integers, Sequences, FiniteSets, Metrics
LOCAL INSTANCE FiniteSetsExt

CONSTANTS
    Datagrams,   \* framed datagrams the client may send (sequences of bytes)
    Packets,     \* datagrams the network may deliver to the UDP socket
    PacketLen,   \* the length n of each such datagram
    MaxSend,     \* bound on the datagrams the client sends
    MaxRecv,     \* bound on the packets the network delivers
    BufLen,      \* cells of the outbound buffer that are modelled
    ErrType      \* the concrete Go type of each error value, [ErrKinds -> _]

(* The error values a pump can store.  Their Go types matter because      *)
(* atomic.Value.Store panics when a value of another concrete type is     *)
(* stored into a non-empty Value.                                         *)
ErrKinds == {"EOF",              \* tunnel Read after the client closed
             "TunnelReadFail",   \* tunnel Read on a reset connection
             "TunnelWriteFail",  \* tunnel Write that failed
             "NoEnoughData",     \* stderror.ErrNoEnoughData
             "InvalidArgument",  \* stderror.ErrInvalidArgument
             "Unsupported",      \* stderror.ErrUnsupported
             "UDPClosed"}        \* udpConn.Read after udpConn.Close
NoErr == "none"
\* Errors of the setup phase, returned directly without the error box.
SetupErrs == {"ListenFail", "ReplyFail"}

ASSUME /\ \A d \in Datagrams : d \in Seq(0..255) /\ Len(d) < BufLen
       /\ BufLen <= 65536                   \* buf := make([]byte, 1<<16)
       /\ MaxSend \in Nat /\ MaxRecv \in Nat
       /\ DOMAIN ErrType = ErrKinds
       /\ PacketLen \in [Packets -> 1..65535]

VARIABLES
    phase,      \* "listen", "reply", "running", "returned" or "panicked"
    udpOpen,    \* the UDP socket is open
    tunnel,     \* the client's side of the control connection: "open", "eof", "reset"
    inTunnel,   \* datagrams sent by the client, not yet read by the relay
    nSent,      \* datagrams sent by the client so far
    tunnelLog,  \* history: datagrams read by the outbound pump, in order
    buf,        \* the outbound pump's buffer, indexed from 0 as in Go
    written,    \* history: WriteToUDP calls issued, [idx, dst, data]
    udpQueue,   \* packets received on the socket, not yet read
    nRecv,      \* packets delivered by the network so far
    toClient,   \* packets written into the tunnel by the inbound pump
    outPc, outErr,          \* outbound goroutine
    inPc, inPkt, inErr,     \* inbound goroutine
    udpErr,     \* the atomic.Value error box
    storeLog,   \* history: errors stored into udpErr, in order
    result,     \* the error handleAssociate returns
    panicked,   \* "none", or why the process panicked
    metrics     \* the process-wide counters (module Metrics)

vars == <<phase, udpOpen, tunnel, inTunnel, nSent, tunnelLog, buf, written,
          udpQueue, nRecv, toClient, outPc, outErr, inPc, inPkt, inErr,
          udpErr, storeLog, result, panicked, metrics>>
pumpVars == <<outPc, outErr, inPc, inPkt, inErr>>

-----------------------------------------------------------------------------
(* Decoding of the buffer after a Read of n bytes, as the pump does it.    *)

\* Go's b[lo:hi], as a 1-indexed sequence.
GoSlice(b, lo, hi) == [j \in 1..(hi - lo) |-> b[lo + j - 1]]

\* Mutant of ValidationError: the fragment check (lines 260-265) is missing.
ValidationErrorNoFragCheck(b, n) ==
    IF n <= 6 THEN "NoEnoughData"
    ELSE IF b[0] # 0 \/ b[1] # 0 THEN "InvalidArgument"
    ELSE IF b[3] \notin {1, 3, 4} THEN "InvalidArgument"
    ELSE IF \/ b[3] = 1 /\ n <= 10
            \/ b[3] = 3 /\ n <= b[4] + 6
            \/ b[3] = 4 /\ n <= 22 THEN "NoEnoughData"
    ELSE NoErr

\* The checks of request.go lines 250-276, in their order; NoErr if all pass.
ValidationError(b, n) ==
    IF n <= 6 THEN "NoEnoughData"
    ELSE IF b[0] # 0 \/ b[1] # 0 THEN "InvalidArgument"
    ELSE IF b[2] # 0 THEN "Unsupported"
    ELSE IF b[3] \notin {1, 3, 4} THEN "InvalidArgument"
    ELSE IF \/ b[3] = 1 /\ n <= 10
            \/ b[3] = 3 /\ n <= b[4] + 6
            \/ b[3] = 4 /\ n <= 22 THEN "NoEnoughData"
    ELSE NoErr

\* fqdnLen := buf[4] is a byte, so 5+fqdnLen, 6+fqdnLen and 7+fqdnLen
\* (lines 297-306) are byte sums that wrap at 256; the guard at line 272
\* adds in int and does not.
ByteSum(x, fqdnLen) == (x + fqdnLen) % 256

\* Offset of the payload: 10 for IPv4, 7+fqdnLen for an FQDN, 22 for IPv6.
HeaderLen(b) == CASE b[3] = 1 -> 10
                  [] b[3] = 3 -> ByteSum(7, b[4])
                  [] b[3] = 4 -> 22

\* buf[5 : 5+fqdnLen] with a low bound above the wrapped high one (names of
\* 251 to 255 bytes): the slice expression panics in the goroutine.
SliceBoundsPanic(b) == b[3] = 3 /\ ByteSum(5, b[4]) < 5

\* The destination: address bytes and big-endian port before the payload.
\* An FQDN is resolved by ResolveUDPAddr; it is kept as its name here.
CodeDst(b) ==
    IF b[3] = 3
    THEN [atyp |-> 3,
          addr |-> GoSlice(b, 5, ByteSum(5, b[4])),
          port |-> b[ByteSum(5, b[4])] * 256 + b[ByteSum(6, b[4])]]
    ELSE [atyp |-> b[3],
          addr |-> GoSlice(b, 4, HeaderLen(b) - 2),
          port |-> b[HeaderLen(b) - 2] * 256 + b[HeaderLen(b) - 1]]

\* The payload handed to WriteToUDP: buf[h : n+1].
CodeData(b, n) == GoSlice(b, HeaderLen(b), n + 1)

\* The errors a header check stores.
ValidationErrs == {"NoEnoughData", "InvalidArgument", "Unsupported"}

\* A successful WriteToUDP(data): one packet and len(data) bytes counted.
CountSent(data) ==
    AddUint64(AddUint64(metrics, "UDPAssociateOutPkts", 1), "UDPAssociateOutBytes", Len(data))

\* A successful udpConn.Read of packet p: one packet and n bytes counted.
CountRead(p) ==
    AddUint64(AddUint64(metrics, "UDPAssociateInPkts", 1), "UDPAssociateInBytes", PacketLen[p])

\* conn.Read(buf) of datagram d: the first Len(d) cells are overwritten.
ReadInto(b, d) == [j \in DOMAIN b |-> IF j < Len(d) THEN d[j + 1] ELSE b[j]]

-----------------------------------------------------------------------------
(* atomic.Value.Store(e): panics if the box holds a value of another type. *)
StoreErr(e) ==
    IF udpErr # NoErr /\ ErrType[udpErr] # ErrType[e]
    THEN /\ panicked' = "StoreInconsistentType"
         /\ phase' = "panicked"
         /\ UNCHANGED <<udpErr, storeLog>>
    ELSE /\ udpErr' = e
         /\ storeLog' = Append(storeLog, e)
         /\ UNCHANGED <<panicked, phase>>

Init ==
    /\ phase = "listen"
    /\ udpOpen = FALSE
    /\ tunnel = "open"
    /\ inTunnel = <<>> /\ nSent = 0 /\ tunnelLog = <<>>
    /\ buf = [j \in 0..(BufLen - 1) |-> 0]
    /\ written = <<>>
    /\ udpQueue = <<>> /\ nRecv = 0 /\ toClient = <<>>
    /\ outPc = "read" /\ outErr = NoErr
    /\ inPc = "read" /\ inPkt = NoErr /\ inErr = NoErr
    /\ udpErr = NoErr /\ storeLog = <<>>
    /\ result = NoErr
    /\ panicked = "none"
    /\ metrics = NoMetrics

-----------------------------------------------------------------------------
(* Setup, lines 198-227.                                                   *)

\* ResolveUDPAddr + ListenUDP on the wildcard address, port 0.  The port
\* parsing that follows (SplitHostPort, Atoi) cannot fail on the address of
\* a bound socket and is not a separate outcome.  A failure is counted.
Listen ==
    /\ phase = "listen"
    /\ \/ /\ udpOpen' = TRUE
          /\ phase' = "reply"
          /\ UNCHANGED <<result, metrics>>
       \/ /\ phase' = "returned"
          /\ result' = "ListenFail"
          /\ metrics' = AddUint64(metrics, "Socks5UDPAssociateErrors", 1)
          /\ UNCHANGED udpOpen
    /\ UNCHANGED <<tunnel, inTunnel, nSent, tunnelLog, buf, written, udpQueue,
                   nRecv, toClient, pumpVars, udpErr, storeLog, panicked>>

\* sendReply(conn, successReply, 0.0.0.0:port), then the tunnel is wrapped.
\* The write fails on a reset connection and may fail after the client
\* closed.  On failure the handler counts a handshake error and returns.
SendAssocReply ==
    /\ phase = "reply"
    /\ \/ /\ tunnel # "reset"
          /\ phase' = "running"
          /\ UNCHANGED <<result, metrics>>
       \/ /\ tunnel # "open"
          /\ phase' = "returned"
          /\ result' = "ReplyFail"
          /\ metrics' = AddUint64(metrics, "Socks5HandshakeErrors", 1)
    /\ UNCHANGED <<udpOpen, tunnel, inTunnel, nSent, tunnelLog, buf, written,
                   udpQueue, nRecv, toClient, pumpVars, udpErr, storeLog, panicked>>

-----------------------------------------------------------------------------
(* Outbound goroutine, lines 236-333.                                      *)

\* One iteration of the loop: conn.Read, the header checks, and the
\* WriteToUDP for the decoded destination.  An FQDN destination is resolved
\* first; when that fails the datagram is dropped and the loop goes on.
\* A name of 251 to 255 bytes makes the name slice panic instead, which
\* ends the process.
\* A failed WriteToUDP is only counted, so the call is recorded either way,
\* with whether it succeeded; a success counts the packet and the bytes
\* written, every failure counts an error.  A malformed datagram is counted
\* after its error is stored (OutStore).
OutRead ==
    /\ phase = "running" /\ outPc = "read"
    /\ \/ /\ tunnel # "reset" /\ inTunnel # <<>>
          /\ LET d  == Head(inTunnel)
                 n  == Len(d)
                 b  == ReadInto(buf, d)
                 ve == ValidationError(b, n)
                 w  == [idx |-> Len(tunnelLog) + 1, dst |-> CodeDst(b),
                        data |-> CodeData(b, n), ok |-> FALSE]
             IN /\ inTunnel' = Tail(inTunnel)
                /\ tunnelLog' = Append(tunnelLog, d)
                /\ buf' = b
                /\ IF ve # NoErr
                   THEN /\ outPc' = "store" /\ outErr' = ve
                        /\ UNCHANGED <<written, metrics, phase, panicked>>
                   ELSE IF SliceBoundsPanic(b)
                   THEN /\ phase' = "panicked" /\ panicked' = "SliceBounds"
                        /\ UNCHANGED <<outPc, outErr, written, metrics>>
                   ELSE /\ UNCHANGED <<outPc, outErr, phase, panicked>>
                        /\ \/ /\ written' = Append(written, [w EXCEPT !.ok = TRUE])
                              /\ metrics' = CountSent(w.data)
                           \/ /\ written' = Append(written, w)   \* WriteToUDP failed
                              /\ metrics' = AddUint64(metrics, "Socks5UDPAssociateErrors", 1)
                           \/ /\ b[3] = 3 /\ UNCHANGED written  \* ResolveUDPAddr failed
                              /\ metrics' = AddUint64(metrics, "Socks5UDPAssociateErrors", 1)
       \/ /\ tunnel = "eof" /\ inTunnel = <<>>
          /\ outPc' = "store" /\ outErr' = "EOF"
          /\ UNCHANGED <<inTunnel, tunnelLog, buf, written, metrics, phase, panicked>>
       \/ /\ tunnel = "reset"
          /\ outPc' = "store" /\ outErr' = "TunnelReadFail"
          /\ UNCHANGED <<inTunnel, tunnelLog, buf, written, metrics, phase, panicked>>
    /\ UNCHANGED <<udpOpen, tunnel, nSent, udpQueue, nRecv, toClient, inPc,
                   inPkt, inErr, udpErr, storeLog, result>>

\* udpErr.Store(err) before every return of the loop, then, for a malformed
\* datagram, the error counter -- not reached when the Store panics.
OutStore ==
    /\ phase = "running" /\ outPc = "store"
    /\ StoreErr(outErr)
    /\ metrics' = IF outErr \in ValidationErrs /\ panicked' = "none"
                  THEN AddUint64(metrics, "Socks5UDPAssociateErrors", 1)
                  ELSE metrics
    /\ outPc' = "close"
    /\ UNCHANGED <<udpOpen, tunnel, inTunnel, nSent, tunnelLog, buf, written,
                   udpQueue, nRecv, toClient, outErr, inPc, inPkt, inErr, result>>

\* Mutant of OutClose: the deferred udpConn.Close() is missing.
OutCloseNoClose ==
    /\ phase = "running" /\ outPc = "close"
    /\ outPc' = "done"
    /\ UNCHANGED <<phase, udpOpen, udpQueue, tunnel, inTunnel, nSent, tunnelLog, buf,
                   written, nRecv, toClient, outErr, inPc, inPkt, inErr, udpErr,
                   storeLog, result, panicked, metrics>>

\* The deferred udpConn.Close() (runs before the deferred wg.Done()).
\* Datagrams still queued on the socket are discarded.
OutClose ==
    /\ phase = "running" /\ outPc = "close"
    /\ udpOpen' = FALSE
    /\ udpQueue' = <<>>
    /\ outPc' = "done"
    /\ UNCHANGED <<phase, tunnel, inTunnel, nSent, tunnelLog, buf, written, nRecv,
                   toClient, outErr, inPc, inPkt, inErr, udpErr, storeLog, result,
                   panicked, metrics>>

-----------------------------------------------------------------------------
(* Inbound goroutine, lines 336-368.                                       *)

\* Mutant of InRead: the Read failure of the closed socket is counted as an
\* association error, against the comment at line 345.
InReadCountClosed ==
    /\ phase = "running" /\ inPc = "read"
    /\ \/ /\ ~udpOpen
          /\ inPc' = "load" /\ inErr' = "UDPClosed"
          /\ metrics' = AddUint64(metrics, "Socks5UDPAssociateErrors", 1)
          /\ UNCHANGED <<udpQueue, inPkt>>
       \/ /\ udpOpen /\ udpQueue # <<>>
          /\ inPkt' = Head(udpQueue)
          /\ udpQueue' = Tail(udpQueue)
          /\ inPc' = "write"
          /\ metrics' = CountRead(Head(udpQueue))
          /\ UNCHANGED inErr
    /\ UNCHANGED <<phase, udpOpen, tunnel, inTunnel, nSent, tunnelLog, buf, written,
                   nRecv, toClient, outPc, outErr, udpErr, storeLog, result, panicked>>

\* udpConn.Read(buf): blocks until a packet arrives or the socket is closed.
\* A packet read is counted; the failure on a closed socket is not.
InRead ==
    /\ phase = "running" /\ inPc = "read"
    /\ \/ /\ ~udpOpen
          /\ inPc' = "load" /\ inErr' = "UDPClosed"
          /\ UNCHANGED <<udpQueue, inPkt, metrics>>
       \/ /\ udpOpen /\ udpQueue # <<>>
          /\ inPkt' = Head(udpQueue)
          /\ udpQueue' = Tail(udpQueue)
          /\ inPc' = "write"
          /\ metrics' = CountRead(Head(udpQueue))
          /\ UNCHANGED inErr
    /\ UNCHANGED <<phase, udpOpen, tunnel, inTunnel, nSent, tunnelLog, buf, written,
                   nRecv, toClient, outPc, outErr, udpErr, storeLog, result, panicked>>

\* Mutant of InWrite: "_, err := conn.Write(...)" shadows err, so the error
\* later stored is the outer, nil one.
InWriteShadowedErr ==
    /\ phase = "running" /\ inPc = "write"
    /\ \/ /\ tunnel # "reset"
          /\ toClient' = Append(toClient, inPkt)
          /\ inPc' = "read"
       \/ /\ tunnel # "open"
          /\ inPc' = "load"
          /\ UNCHANGED toClient
    /\ UNCHANGED <<inErr, phase, udpOpen, tunnel, inTunnel, nSent, tunnelLog, buf,
                   written, udpQueue, nRecv, outPc, outErr, inPkt, udpErr, storeLog,
                   result, panicked, metrics>>

\* conn.Write(buf[:n]): the packet goes to the client as it came.
InWrite ==
    /\ phase = "running" /\ inPc = "write"
    /\ \/ /\ tunnel # "reset"
          /\ toClient' = Append(toClient, inPkt)
          /\ inPc' = "read"
          /\ UNCHANGED inErr
       \/ /\ tunnel # "open"
          /\ inPc' = "load" /\ inErr' = "TunnelWriteFail"
          /\ UNCHANGED toClient
    /\ UNCHANGED <<phase, udpOpen, tunnel, inTunnel, nSent, tunnelLog, buf, written,
                   udpQueue, nRecv, outPc, outErr, inPkt, udpErr, storeLog, result,
                   panicked, metrics>>

\* if udpErr.Load() == nil { ... }: the check ...
InLoad ==
    /\ phase = "running" /\ inPc = "load"
    /\ inPc' = IF udpErr = NoErr THEN "store" ELSE "done"
    /\ UNCHANGED <<phase, udpOpen, tunnel, inTunnel, nSent, tunnelLog, buf, written,
                   udpQueue, nRecv, toClient, outPc, outErr, inPkt, inErr, udpErr,
                   storeLog, result, panicked, metrics>>

\* ... and the udpErr.Store(err) that follows it, a separate step.
InStore ==
    /\ phase = "running" /\ inPc = "store"
    /\ StoreErr(inErr)
    /\ inPc' = "done"
    /\ UNCHANGED <<udpOpen, tunnel, inTunnel, nSent, tunnelLog, buf, written,
                   udpQueue, nRecv, toClient, outPc, outErr, inPkt, inErr, result, metrics>>

\* wg.Wait(); return udpErr.Load().(error) -- the assertion panics on nil.
Return ==
    /\ phase = "running" /\ outPc = "done" /\ inPc = "done"
    /\ IF udpErr = NoErr
       THEN /\ phase' = "panicked" /\ panicked' = "NilErrorAssertion"
            /\ UNCHANGED result
       ELSE /\ phase' = "returned" /\ result' = udpErr
            /\ UNCHANGED panicked
    /\ UNCHANGED <<udpOpen, tunnel, inTunnel, nSent, tunnelLog, buf, written,
                   udpQueue, nRecv, toClient, pumpVars, udpErr, storeLog, metrics>>

-----------------------------------------------------------------------------
(* The environment: the proxy client on the tunnel and the network.        *)

ClientSend(d) ==
    /\ phase = "running" /\ tunnel = "open" /\ nSent < MaxSend
    /\ inTunnel' = Append(inTunnel, d)
    /\ nSent' = nSent + 1
    /\ UNCHANGED <<phase, udpOpen, tunnel, tunnelLog, buf, written, udpQueue, nRecv,
                   toClient, pumpVars, udpErr, storeLog, result, panicked, metrics>>

\* The client closes the connection: reads drain what was sent, then EOF.
ClientClose ==
    /\ tunnel = "open"
    /\ tunnel' = "eof"
    /\ UNCHANGED <<phase, udpOpen, inTunnel, nSent, tunnelLog, buf, written, udpQueue,
                   nRecv, toClient, pumpVars, udpErr, storeLog, result, panicked, metrics>>

\* The connection is reset: reads and writes fail from now on.
ClientReset ==
    /\ tunnel \in {"open", "eof"}
    /\ tunnel' = "reset"
    /\ UNCHANGED <<phase, udpOpen, inTunnel, nSent, tunnelLog, buf, written, udpQueue,
                   nRecv, toClient, pumpVars, udpErr, storeLog, result, panicked, metrics>>

NetDeliver(p) ==
    /\ phase = "running" /\ udpOpen /\ nRecv < MaxRecv
    /\ udpQueue' = Append(udpQueue, p)
    /\ nRecv' = nRecv + 1
    /\ UNCHANGED <<phase, udpOpen, tunnel, inTunnel, nSent, tunnelLog, buf, written,
                   toClient, pumpVars, udpErr, storeLog, result, panicked, metrics>>

-----------------------------------------------------------------------------
Handler == Listen \/ SendAssocReply \/ Return
Outbound == OutRead \/ OutStore \/ OutClose
Inbound == InRead \/ InWrite \/ InLoad \/ InStore
Environment ==
    \/ \E d \in Datagrams : ClientSend(d)
    \/ ClientClose \/ ClientReset
    \/ \E p \in Packets : NetDeliver(p)

Next == Handler \/ Outbound \/ Inbound \/ Environment

\* Goroutines that can run keep running; the client and the network owe
\* nothing.
Fairness == WF_vars(Handler) /\ WF_vars(Outbound) /\ WF_vars(Inbound)

Spec == Init /\ [][Next]_vars /\ Fairness

Ended == phase \in {"returned", "panicked"}

-----------------------------------------------------------------------------
(* The refinement mapping to UDPRelay: setup is Listen and the reply; a    *)
(* pump is running until it leaves its loop; the destinations forwarded   *)
(* are those of the WriteToUDP calls; the packets waiting for the client *)
(* are those queued on the socket and the one being written.  A panic    *)
(* ends the session.                                                      *)

RelayStatus == CASE phase \in {"listen", "reply"} -> "setup"
                 [] phase = "running" -> "relaying"
                 [] OTHER -> "ended"

Relay == INSTANCE UDPRelay
         WITH status <- RelayStatus,
              client <- tunnel,
              pending <- inTunnel,
              taken <- tunnelLog,
              forwarded <- [k \in DOMAIN written |-> written[k].dst],
              outbound <- phase = "running" /\ outPc = "read",
              inbound <- phase = "running" /\ inPc \in {"read", "write"},
              arrived <- IF inPc = "write" THEN <<inPkt>> \o udpQueue ELSE udpQueue,
              returned <- toClient

-----------------------------------------------------------------------------
TypeOK ==
    /\ phase \in {"listen", "reply", "running", "returned", "panicked"}
    /\ udpOpen \in BOOLEAN
    /\ tunnel \in {"open", "eof", "reset"}
    /\ inTunnel \in Seq(Datagrams) /\ tunnelLog \in Seq(Datagrams)
    /\ nSent \in 0..MaxSend /\ nRecv \in 0..MaxRecv
    /\ buf \in [0..(BufLen - 1) -> 0..255]
    /\ \A k \in DOMAIN written : written[k].idx \in DOMAIN tunnelLog
    /\ udpQueue \in Seq(Packets) /\ toClient \in Seq(Packets)
    /\ outPc \in {"read", "store", "close", "done"}
    /\ inPc \in {"read", "write", "load", "store", "done"}
    /\ {outErr, inErr, udpErr} \subseteq ErrKinds \cup {NoErr}
    /\ storeLog \in Seq(ErrKinds)
    /\ result \in ErrKinds \cup SetupErrs \cup {NoErr}
    /\ panicked \in {"none", "StoreInconsistentType", "NilErrorAssertion", "SliceBounds"}
    /\ metrics \in [Counters -> Nat]

(* Once the client has closed or reset the control connection, the        *)
(* session ends: the outbound pump sees the failure and closes the socket, *)
(* which is the only thing that unblocks the inbound pump's Read.          *)
SessionEnds == (tunnel # "open") ~> Ended

(* The session does what UDPRelay promises: the client's datagrams are    *)
(* taken in order and each well-formed one goes to the destination its    *)
(* header names, the first malformed one stops the outbound pump, a pump  *)
(* stops only when the client left or the other side stopped, and a       *)
(* session whose sides both stopped ends -- under every interleaving of   *)
(* the two pumps with the client and the network.                         *)
RelayRefined == Relay!Spec

(* Spec 4.5, 7 and 8 on counting: when the handler has returned, every    *)
(* datagram the outbound pump took from the tunnel was counted exactly     *)
(* once -- as a packet sent, with the bytes WriteToUDP wrote, or as an     *)
(* error, whether it was malformed, unresolvable or failed to send -- and  *)
(* no other error was counted but a failed setup; the client leaving and   *)
(* the socket's close are not errors.  Every packet the inbound pump read  *)
(* was counted, including one it then failed to write to the client.       *)
SentWrites == {k \in DOMAIN written : written[k].ok}
TrafficCounted ==
    phase = "returned" =>
        /\ metrics["UDPAssociateOutPkts"] = Cardinality(SentWrites)
        /\ metrics["UDPAssociateOutBytes"] =
              MapThenSumSet(LAMBDA k : Len(written[k].data), SentWrites)
        /\ metrics["Socks5UDPAssociateErrors"] =
              Count(result = "ListenFail") + Len(tunnelLog) - Cardinality(SentWrites)
        /\ LET read == IF inErr = "TunnelWriteFail" THEN Append(toClient, inPkt) ELSE toClient
           IN /\ metrics["UDPAssociateInPkts"] = Len(read)
              /\ metrics["UDPAssociateInBytes"] =
                    MapThenSumSet(LAMBDA k : PacketLen[read[k]], DOMAIN read)
        /\ metrics["Socks5HandshakeErrors"] = Count(result = "ReplyFail")

-----------------------------------------------------------------------------
(* Statements the spec makes that the code does not keep (violation runs). *)

(* Spec 4.5 / 8: the outbound pump writes the payload DATA unmodified.     *)
ForwardedDataIntact ==
    \A k \in DOMAIN written : written[k].data = Relay!SpecData(tunnelLog[written[k].idx])

(* Spec 9: the session reports the first terminal error either pump        *)
(* observed; later errors are discarded.                                   *)
FirstErrorWins ==
    phase = "returned" /\ storeLog # <<>> => result = storeLog[1]

(* The two pumps' Store calls never crash the process (atomic.Value panics *)
(* on a Store of a differently typed value).                               *)
NoStorePanic == panicked # "StoreInconsistentType"

(* Spec 3: the UDP socket is closed once the session is over, whichever    *)
(* way the handler returns.                                                *)
SocketReleased == phase = "returned" => ~udpOpen
=============================================================================
